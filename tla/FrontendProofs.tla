--------------------------- MODULE FrontendProofs ---------------------------
(***************************************************************************)
(* Proofs about the parts of the frontend: for each an invariant that is   *)
(* inductive, with a step for each of its operations, and what follows     *)
(* from it for the specification that MCFrontend checks.                   *)
(***************************************************************************)
EXTENDS MCFrontend, Sequences, FiniteSums

-----------------------------------------------------------------------------
(* ClientSession *)

LEMMA ClientIsThere == Spec => Client!Spec
<1>1. Init => Client!Init
  BY DEF Init
<1>2. [Next]_vars => [Client!Next]_(Client!vars)
  BY DEF Next, vars, client, Client!vars
<1> QED
  BY <1>1, <1>2, PTL DEF Spec, Client!Spec

Someone == Accounts \cup {Nobody}
Handler == [generation : Int, of : Accounts]
Load == [kind : {"refresh", "sync"}, identity : Accounts, sequence : Int, of : SUBSET Someone]

\* Whatever the page shows or is about to show came with the token of its account, or of
\* somebody who has been signed in since that account came; and a handler that counts is
\* about Firebase's user.
ClientInv ==
    /\ user \in Someone /\ account \in Someone /\ generation \in Int /\ refreshSequence \in Int
    /\ handlers \subseteq Handler /\ loads \subseteq Load /\ since \in [Accounts -> SUBSET Someone]
    /\ \A h \in handlers : h.generation <= generation /\ h.of # Nobody
                           /\ (h.generation = generation => h.of = user)
    /\ account # Nobody => account = user \/ \E h \in handlers : h.generation = generation
    /\ account # Nobody => since[account] # {}
    /\ \A a \in Accounts : since[a] # {} => user \in since[a]
    /\ \A l \in loads : /\ l.identity # Nobody
                        /\ since[l.identity] # {}
                        /\ l.of \subseteq {l.identity} \cup since[l.identity]
    /\ account = Nobody => shown = {}
    /\ account # Nobody => shown \subseteq {account} \cup since[account]

LEMMA TokenKeepsClient ==
    ASSUME ClientInv, NEW u \in Accounts \cup {Nobody}, Client!TokenChanged(u) PROVE ClientInv'
<1>1. CASE u = Nobody
  BY <1>1 DEF ClientInv, Client!TokenChanged, Client!SetAccount, Someone, Handler, Load
<1>2. CASE u # Nobody
  <2> DEFINE new == [generation |-> generation', of |-> u]
  <2>1. /\ user' = u /\ generation' = generation + 1 /\ handlers' = handlers \cup {new}
        /\ since' = [x \in Accounts |-> IF since[x] # {} THEN since[x] \cup {u} ELSE {}]
        /\ UNCHANGED <<account, shown, loads, refreshSequence>>
    BY <1>2 DEF Client!TokenChanged
  <2>2. new \in Handler /\ new.generation = generation' /\ new.of = u /\ u \in Someone /\ u # Nobody
    BY <1>2, <2>1 DEF ClientInv, Handler, Someone
  <2>3. \A h \in handlers : h.generation < generation'
    BY <2>1 DEF ClientInv, Handler
  <2> HIDE DEF new
  <2>4. \A h \in handlers' : h.generation <= generation' /\ h.of # Nobody
                             /\ (h.generation = generation' => h.of = user')
    BY <2>1, <2>2, <2>3 DEF ClientInv, Handler
  <2>5. \A l \in loads' : /\ l.identity # Nobody
                          /\ since'[l.identity] # {}
                          /\ l.of \subseteq {l.identity} \cup since'[l.identity]
    BY <2>1 DEF ClientInv, Load, Someone
  <2>6. account' # Nobody => /\ since'[account'] # {}
                             /\ shown' \subseteq {account'} \cup since'[account']
    BY <2>1 DEF ClientInv, Someone
  <2>7. since' \in [Accounts -> SUBSET Someone] /\ \A a \in Accounts : since'[a] # {} => user' \in since'[a]
    BY <2>1, <2>2 DEF ClientInv
  <2>8. /\ user' \in Someone /\ account' \in Someone /\ generation' \in Int /\ refreshSequence' \in Int
        /\ handlers' \subseteq Handler /\ loads' \subseteq Load
        /\ \E h \in handlers' : h.generation = generation'
        /\ account' = Nobody => shown' = {}
    BY <2>1, <2>2 DEF ClientInv
  <2> QED
    BY <2>4, <2>5, <2>6, <2>7, <2>8 DEF ClientInv
<1> QED
  BY <1>1, <1>2

LEMMA AnswerKeepsClient ==
    ASSUME ClientInv, NEW h \in handlers, NEW a \in {h.of, Nobody}, Client!Answered(h, a)
    PROVE  ClientInv'
<1>1. h \in Handler /\ h.of \in Accounts /\ h.of # Nobody /\ a \in Someone
  BY DEF ClientInv, Handler, Someone
<1>2. CASE Client!Latest(h)
  BY <1>1, <1>2
  DEF ClientInv, Client!Answered, Client!Latest, Client!SetAccount, Someone, Handler, Load
<1>3. CASE ~Client!Latest(h)
  BY <1>1, <1>3
  DEF ClientInv, Client!Answered, Client!Latest, Client!SetAccount, Someone, Handler, Load
<1> QED
  BY <1>2, <1>3

LEMMA RetryKeepsClient == ASSUME ClientInv, Client!Retry PROVE ClientInv'
BY DEF ClientInv, Client!Retry, Someone, Handler, Load

LEMMA BeginKeepsClient == ASSUME ClientInv, Client!Refresh \/ Client!Sync PROVE ClientInv'
BY DEF ClientInv, Client!Refresh, Client!Sync, Someone, Handler, Load

LEMMA FetchKeepsClient == ASSUME ClientInv, NEW l \in loads, Client!Fetch(l) PROVE ClientInv'
BY DEF ClientInv, Client!Fetch, Someone, Handler, Load

LEMMA ArriveKeepsClient == ASSUME ClientInv, NEW l \in loads, Client!Arrive(l) PROVE ClientInv'
BY DEF ClientInv, Client!Arrive, Client!MayShow, Someone, Handler, Load

LEMMA ExpiredKeepsClient == ASSUME ClientInv, NEW l \in loads, Client!Expired(l) PROVE ClientInv'
BY DEF ClientInv, Client!Expired, Client!SetAccount, Someone, Handler, Load

LEMMA AbandonKeepsClient == ASSUME ClientInv, NEW l \in loads, Client!Abandon(l) PROVE ClientInv'
BY DEF ClientInv, Client!Abandon, Someone, Handler, Load

\* Whoever signs in and out meanwhile, the page never shows what belongs to somebody who
\* was signed in only before its account came, and in the end its account is Firebase's
\* user (components/shared/providers and lib/credit/services, ClientSession).
THEOREM PageShowsItsOwn == Spec => []ShownIsOwn
<1>1. Client!Init => ClientInv
  BY DEF Client!Init, ClientInv, Someone, Handler, Load
<1>2. ClientInv /\ [Client!Next]_(Client!vars) => ClientInv'
  <2> SUFFICES ASSUME ClientInv, [Client!Next]_(Client!vars) PROVE ClientInv'
    OBVIOUS
  <2>1. CASE \E u \in Accounts \cup {Nobody} : Client!TokenChanged(u)
    BY <2>1, TokenKeepsClient
  <2>2. CASE \E h \in handlers : Client!SignedIn(h) \/ Client!Failed(h)
    BY <2>2, AnswerKeepsClient DEF Client!SignedIn, Client!Failed
  <2>3. CASE Client!Retry
    BY <2>3, RetryKeepsClient
  <2>4. CASE Client!Refresh \/ Client!Sync
    BY <2>4, BeginKeepsClient
  <2>5. CASE \E l \in loads : Client!Fetch(l) \/ Client!Arrive(l) \/ Client!Abandon(l) \/ Client!Expired(l)
    BY <2>5, FetchKeepsClient, ArriveKeepsClient, AbandonKeepsClient, ExpiredKeepsClient
  <2>6. CASE UNCHANGED Client!vars
    BY <2>6 DEF ClientInv, Client!vars
  <2> QED
    BY <2>1, <2>2, <2>3, <2>4, <2>5, <2>6 DEF Client!Next
<1>3. ClientInv => ShownIsOwn
  BY DEF ClientInv, ShownIsOwn, Client!ShownIsOwn
<1> QED
  BY <1>1, <1>2, <1>3, ClientIsThere, PTL DEF Client!Spec

-----------------------------------------------------------------------------
(* SignIn *)

LEMMA SigningIsThere == Spec => Signing!Spec
<1>1. Init => Signing!Init
  BY DEF Init
<1>2. [Next]_vars => [Signing!Next]_(Signing!vars)
  BY DEF Next, vars, signing, Signing!vars
<1> QED
  BY <1>1, <1>2, PTL DEF Spec, Signing!Spec

Begun == {"begun", "success", "cancelled"}
Truth == {<<"success", "success">>}
Failures == {<<"failure", "begun">>, <<"failure", "cancelled">>}
AttemptType == [outcome : Begun \cup {"none"}, asked : {"/dashboard", "/admin", "none"},
                read : BOOLEAN, told : SUBSET (Truth \cup Failures)]
FormType == [role : {"owner", "admin"}, next : {"/dashboard", "/admin", "elsewhere"},
             pending : 0..MaxAttempts, busy : BOOLEAN, checking : BOOLEAN,
             destination : {"/dashboard", "/admin", "none"}]
MarkerType == [of : 0..MaxAttempts, old : BOOLEAN]
Ask == [of : Signing!Attempts, heard : BOOLEAN]
Asking == {<<>>} \cup {<<c>> : c \in Ask}
Users == {Owner, Admin, Nobody}

SigningType ==
    /\ page \in {"form", "protected"} /\ path \in {"/dashboard", "/admin"}
    /\ away \in 0..MaxAttempts /\ redirecting \in 0..MaxAttempts
    /\ form \in FormType /\ marker \in MarkerType /\ completions \in Asking
    /\ firebase \in Users /\ provider \in [user : Users, ready : BOOLEAN, demo : BOOLEAN]
    /\ attempt \in [Signing!Attempts -> AttemptType]

AsksOf(asked, n) == \E c \in Ask : asked = <<c>> /\ c.of = n
Hears(asked) == \E c \in Ask : asked = <<c>> /\ c.heard

\* What the form has told of an attempt, and Firebase, it cannot tell again.
ToldOnce ==
    \A n \in Signing!Attempts :
        /\ attempt[n].told \subseteq Truth \/ attempt[n].told \subseteq Failures
        /\ marker.of = n \/ AsksOf(completions, n) =>
              attempt[n].outcome # "none" /\ attempt[n].told = {} /\ ~attempt[n].read
        /\ attempt[n].outcome = "none" => attempt[n].told = {} /\ ~attempt[n].read

NotStuck ==
    /\ page = "form" /\ form.checking => Hears(completions)
    /\ page = "form" /\ form.pending # 0 => form.pending \in {redirecting, away}

StaysIn ==
    /\ arrived => firebase # Nobody
    /\ page = "protected" /\ arrived => provider.ready /\ Signing!User # Nobody

SigningInv == SigningType /\ ToldOnce /\ NotStuck /\ StaysIn

LEMMA UnheardAsksTheSame ==
    ASSUME NEW asked \in Asking
    PROVE  /\ Signing!Unheard(asked) \in Asking
           /\ \A n \in Signing!Attempts : AsksOf(Signing!Unheard(asked), n) => AsksOf(asked, n)
<1>1. CASE asked = <<>>
  <2>1. Signing!Unheard(asked) = <<>>
    BY <1>1 DEF Signing!Unheard
  <2> QED
    BY <1>1, <2>1 DEF Asking
<1>2. ASSUME NEW c \in Ask, asked = <<c>>
      PROVE  /\ Signing!Unheard(asked) \in Asking
             /\ \A n \in Signing!Attempts : AsksOf(Signing!Unheard(asked), n) => AsksOf(asked, n)
  <2> DEFINE d == [c EXCEPT !.heard = FALSE]
  <2>1. d \in Ask /\ d.of = c.of
    BY DEF Ask
  <2>2. Signing!Unheard(asked) = <<d>>
    <3>1. DOMAIN asked = 1..1 /\ asked[1] = c
      BY <1>2
    <3>2. Signing!Unheard(asked) = [i \in 1..1 |-> [asked[i] EXCEPT !.heard = FALSE]]
      BY <3>1 DEF Signing!Unheard
    <3>3. \A i \in 1..1 : [asked[i] EXCEPT !.heard = FALSE] = d
      <4>1. \A i \in 1..1 : asked[i] = c
        BY <3>1
      <4> QED
        BY <4>1
    <3> HIDE DEF d
    <3>4. Signing!Unheard(asked) = [i \in 1..1 |-> d]
      BY <3>2, <3>3
    <3> QED
      BY <3>4
  <2> HIDE DEF d
  <2>3. \A n \in Signing!Attempts : AsksOf(<<d>>, n) => AsksOf(<<c>>, n)
    BY <2>1 DEF AsksOf
  <2> QED
    BY <1>2, <2>1, <2>2, <2>3 DEF Asking
<1> QED
  BY <1>1, <1>2 DEF Asking

LEMMA SharedIsHeard ==
    ASSUME NEW asked \in Asking, NEW m \in Signing!Attempts
    PROVE  /\ Signing!Shared(asked, m) \in Asking /\ Hears(Signing!Shared(asked, m))
           /\ \A n \in Signing!Attempts : AsksOf(Signing!Shared(asked, m), n) => AsksOf(asked, n) \/ n = m
<1>1. CASE asked = <<>>
  <2> DEFINE d == [of |-> m, heard |-> TRUE]
  <2>1. d \in Ask /\ d.of = m /\ d.heard
    BY DEF Ask
  <2>2. Signing!Shared(asked, m) = <<d>>
    BY <1>1 DEF Signing!Shared
  <2> HIDE DEF d
  <2> QED
    BY <2>1, <2>2 DEF Asking, Hears, AsksOf
<1>2. ASSUME NEW c \in Ask, asked = <<c>>
      PROVE  /\ Signing!Shared(asked, m) \in Asking /\ Hears(Signing!Shared(asked, m))
             /\ \A n \in Signing!Attempts : AsksOf(Signing!Shared(asked, m), n) => AsksOf(asked, n)
  <2> DEFINE d == [c EXCEPT !.heard = TRUE]
  <2>1. d \in Ask /\ d.of = c.of /\ d.heard
    BY DEF Ask
  <2>2. asked # <<>> /\ asked[1] = c
    BY <1>2
  <2>3. Signing!Shared(asked, m) = <<d>>
    BY <2>2 DEF Signing!Shared
  <2> HIDE DEF d
  <2> QED
    BY <1>2, <2>1, <2>3 DEF Asking, Hears, AsksOf
<1> QED
  BY <1>1, <1>2 DEF Asking

\* A form that appears asks for nothing but what is remembered or asked for already.
LEMMA RestoredAsks ==
    ASSUME SigningType, NEW f \in FormType, NEW asked \in Asking, Signing!Restored(f, asked)
    PROVE  /\ form' \in FormType /\ form'.pending = f.pending
           /\ marker' \in MarkerType /\ completions' \in Asking
           /\ form'.checking => Hears(completions')
           /\ \A n \in Signing!Attempts :
                marker'.of = n \/ AsksOf(completions', n) => marker.of = n \/ AsksOf(asked, n)
<1>1. CASE marker.of = 0 \/ marker.old
  <2>1. /\ form' = [f EXCEPT !.checking = FALSE] /\ completions' = asked
        /\ marker' = [of |-> 0, old |-> FALSE]
    BY <1>1 DEF Signing!Restored, Signing!NoMarker
  <2>2. form' \in FormType /\ form'.pending = f.pending /\ ~form'.checking
    BY <2>1 DEF FormType
  <2>3. marker' \in MarkerType /\ \A n \in Signing!Attempts : marker'.of # n
    BY <2>1, AttemptsAssumption DEF MarkerType, Signing!Attempts
  <2> QED
    BY <2>1, <2>2, <2>3
<1>2. CASE ~(marker.of = 0 \/ marker.old)
  <2> DEFINE m == marker.of
             once == Signing!Shared(asked, m)
             again == Signing!Shared(Signing!Unheard(once), m)
  <2>1. m \in Signing!Attempts
    BY <1>2, AttemptsAssumption DEF SigningType, MarkerType, Signing!Attempts
  <2>2. form' = [f EXCEPT !.checking = TRUE] /\ marker' = marker /\ completions' \in {once, again}
    BY <1>2 DEF Signing!Restored
  <2>3. form' \in FormType /\ form'.pending = f.pending
    BY <2>2 DEF FormType
  <2> HIDE DEF m
  <2>4. /\ once \in Asking /\ Hears(once)
        /\ \A n \in Signing!Attempts : AsksOf(once, n) => AsksOf(asked, n) \/ n = m
    BY <2>1, SharedIsHeard
  <2> HIDE DEF once
  <2>5. /\ Signing!Unheard(once) \in Asking
        /\ \A n \in Signing!Attempts : AsksOf(Signing!Unheard(once), n) => AsksOf(once, n)
    BY <2>4, UnheardAsksTheSame
  <2>6. /\ again \in Asking /\ Hears(again)
        /\ \A n \in Signing!Attempts : AsksOf(again, n) => AsksOf(Signing!Unheard(once), n) \/ n = m
    BY <2>1, <2>5, SharedIsHeard
  <2> HIDE DEF again
  <2> QED
    BY <2>2, <2>3, <2>4, <2>5, <2>6 DEF SigningType, m
<1> QED
  BY <1>1, <1>2
LEMMA NewFormIsOne ==
    ASSUME NEW role \in {"owner", "admin"}, NEW next \in {"/dashboard", "/admin", "elsewhere"}
    PROVE  Signing!NewForm(role, next) \in FormType /\ Signing!NewForm(role, next).pending = 0
BY AttemptsAssumption DEF Signing!NewForm, FormType

LEMMA MountedAsks ==
    ASSUME SigningInv, NEW role \in {"owner", "admin"}, NEW next \in {"/dashboard", "/admin", "elsewhere"},
           Signing!Mounted(role, next)
    PROVE  /\ page' = "form" /\ form' \in FormType /\ form'.pending = 0
           /\ marker' \in MarkerType /\ completions' \in Asking
           /\ form'.checking => Hears(completions')
           /\ \A n \in Signing!Attempts :
                marker'.of = n \/ AsksOf(completions', n) => marker.of = n \/ AsksOf(completions, n)
<1>1. completions \in Asking
  BY DEF SigningInv, SigningType
<1>2. /\ Signing!Unheard(completions) \in Asking
      /\ \A n \in Signing!Attempts : AsksOf(Signing!Unheard(completions), n) => AsksOf(completions, n)
  BY <1>1, UnheardAsksTheSame
<1>3. Signing!Restored(Signing!NewForm(role, next), Signing!Unheard(completions)) /\ page' = "form"
  BY DEF Signing!Mounted
<1> QED
  BY <1>2, <1>3, NewFormIsOne, RestoredAsks DEF SigningInv

LEMMA VisitKeepsSigning ==
    ASSUME SigningInv, NEW role \in {"owner", "admin"}, NEW next \in Signing!Destinations \cup {"elsewhere"},
           Signing!Visit(role, next)
    PROVE  SigningInv'
<1>1. next \in {"/dashboard", "/admin", "elsewhere"}
  BY DEF Signing!Destinations
<1>2. Signing!Mounted(role, next)
  BY DEF Signing!Visit
<1>3. SigningType'
  BY <1>1, <1>2, MountedAsks DEF SigningInv, SigningType, Signing!Visit
<1>4. ToldOnce'
  BY <1>1, <1>2, MountedAsks DEF SigningInv, ToldOnce, Signing!Visit
<1>5. NotStuck'
  BY <1>1, <1>2, MountedAsks DEF SigningInv, NotStuck, Signing!Visit
<1>6. StaysIn'
  BY <1>1, <1>2, MountedAsks DEF SigningInv, StaysIn, Signing!Visit, Signing!User
<1> QED
  BY <1>3, <1>4, <1>5, <1>6 DEF SigningInv

LEMMA GuardKeepsSigning ==
    ASSUME SigningInv, Signing!Guard PROVE SigningInv'
<1>1. CASE /\ Signing!User = Nobody /\ arrived' = FALSE /\ UNCHANGED path
           /\ Signing!Mounted(IF path = "/admin" THEN "admin" ELSE "owner", path)
  <2> DEFINE role == IF path = "/admin" THEN "admin" ELSE "owner"
  <2>1. role \in {"owner", "admin"} /\ path \in {"/dashboard", "/admin", "elsewhere"}
    BY DEF SigningInv, SigningType
  <2>2. Signing!Mounted(role, path)
    BY <1>1
  <2> HIDE DEF role
  <2>3. /\ page' = "form" /\ form' \in FormType /\ form'.pending = 0
        /\ marker' \in MarkerType /\ completions' \in Asking
        /\ form'.checking => Hears(completions')
        /\ \A n \in Signing!Attempts :
             marker'.of = n \/ AsksOf(completions', n) => marker.of = n \/ AsksOf(completions, n)
    BY <2>1, <2>2, MountedAsks
  <2>4. SigningType'
    BY <1>1, <2>3 DEF SigningInv, SigningType, Signing!Guard
  <2>5. ToldOnce'
    BY <2>3 DEF SigningInv, ToldOnce, Signing!Guard
  <2>6. NotStuck'
    BY <2>3 DEF SigningInv, NotStuck, Signing!Guard
  <2>7. StaysIn'
    BY <1>1, <2>3 DEF SigningInv, StaysIn, Signing!Guard, Signing!User
  <2> QED
    BY <2>4, <2>5, <2>6, <2>7 DEF SigningInv
<1>2. CASE path' = "/admin" /\ UNCHANGED <<page, form, marker, completions, arrived>>
  BY <1>2 DEF SigningInv, SigningType, ToldOnce, NotStuck, StaysIn, Signing!Guard, Signing!User
<1> QED
  BY <1>1, <1>2 DEF Signing!Guard

\* A new outcome of an attempt that has begun is no other answer.
LEMMA OutcomeTellsNothing ==
    ASSUME SigningInv, NEW m \in Signing!Attempts, NEW outcome \in Begun,
           attempt' = [attempt EXCEPT ![m].outcome = outcome],
           \A n \in Signing!Attempts :
              marker'.of = n \/ AsksOf(completions', n) => marker.of = n \/ AsksOf(completions, n)
    PROVE  attempt' \in [Signing!Attempts -> AttemptType] /\ ToldOnce'
<1> DEFINE r == [attempt[m] EXCEPT !.outcome = outcome]
<1>1. attempt[m] \in AttemptType
  BY DEF SigningInv, SigningType
<1>2. r \in AttemptType /\ r.outcome = outcome /\ r.told = attempt[m].told /\ r.read = attempt[m].read
  BY <1>1 DEF AttemptType
<1>3. attempt' = [attempt EXCEPT ![m] = r] /\ outcome # "none"
  BY DEF Begun
<1> HIDE DEF r
<1>4. \A n \in Signing!Attempts : attempt'[n] = IF n = m THEN r ELSE attempt[n]
  BY <1>3 DEF SigningInv, SigningType
<1> QED
  BY <1>1, <1>2, <1>3, <1>4 DEF SigningInv, SigningType, ToldOnce

LEMMA ResumeKeepsSigning ==
    ASSUME SigningInv, Signing!Resume PROVE SigningInv'
<1> DEFINE f == [form EXCEPT !.pending = 0, !.busy = FALSE]
<1>1. away \in Signing!Attempts
  BY AttemptsAssumption DEF SigningInv, SigningType, Signing!Resume, Signing!Attempts
<1>2. f \in FormType /\ f.pending = 0 /\ completions \in Asking
  <2> DEFINE g == [form EXCEPT !.pending = 0]
  <2>1. g \in FormType /\ g.pending = 0 /\ f = [g EXCEPT !.busy = FALSE]
    BY AttemptsAssumption DEF SigningInv, SigningType, FormType
  <2> HIDE DEF g
  <2>2. f \in FormType /\ f.pending = 0
    BY <2>1 DEF FormType
  <2> QED
    BY <2>2 DEF SigningInv, SigningType
<1>3. /\ form' \in FormType /\ marker' \in MarkerType /\ completions' \in Asking
      /\ page = "form" => form'.pending = 0
      /\ page = "form" /\ form'.checking => Hears(completions')
      /\ \A n \in Signing!Attempts :
           marker'.of = n \/ AsksOf(completions', n) => marker.of = n \/ AsksOf(completions, n)
  <2>1. CASE page = "form"
    <3>1. Signing!Restored(f, completions)
      BY <2>1 DEF Signing!Resume
    <3> HIDE DEF f
    <3> QED
      BY <1>2, <3>1, RestoredAsks DEF SigningInv
  <2>2. CASE page # "form"
    BY <2>2 DEF SigningInv, SigningType, Signing!Resume
  <2> QED
    BY <2>1, <2>2
<1>4. attempt' \in [Signing!Attempts -> AttemptType] /\ ToldOnce'
  BY <1>1, <1>3, OutcomeTellsNothing DEF Signing!Resume, Begun
<1>5. SigningType'
  BY <1>3, <1>4, AttemptsAssumption DEF SigningInv, SigningType, Signing!Resume
<1>6. NotStuck' /\ StaysIn'
  BY <1>3 DEF SigningInv, NotStuck, StaysIn, Signing!Resume, Signing!User
<1> QED
  BY <1>4, <1>5, <1>6 DEF SigningInv

LEMMA ReturnKeepsSigning ==
    ASSUME SigningInv, NEW u \in Signing!Known \cup {Nobody}, Signing!Return(u) PROVE SigningInv'
<1> DEFINE f == Signing!NewForm("owner", form.next)
<1>1. away \in Signing!Attempts
  BY AttemptsAssumption DEF SigningInv, SigningType, Signing!Return, Signing!Attempts
<1>2. f \in FormType /\ f.pending = 0 /\ <<>> \in Asking
  <2>1. form.next \in {"/dashboard", "/admin", "elsewhere"}
    BY DEF SigningInv, SigningType, FormType
  <2> QED
    BY <2>1, NewFormIsOne DEF Asking
<1>3. Signing!Restored(f, <<>>)
  BY DEF Signing!Return
<1> HIDE DEF f
<1>4. /\ form' \in FormType /\ marker' \in MarkerType /\ completions' \in Asking
      /\ form'.pending = 0 /\ (form'.checking => Hears(completions'))
      /\ \A n \in Signing!Attempts :
           marker'.of = n \/ AsksOf(completions', n) => marker.of = n \/ AsksOf(completions, n)
  <2>1. \A n : ~AsksOf(<<>>, n)
    BY DEF AsksOf
  <2> QED
    BY <1>2, <1>3, <2>1, RestoredAsks DEF SigningInv
<1>5. attempt' \in [Signing!Attempts -> AttemptType] /\ ToldOnce'
  <2> DEFINE outcome == IF u = Nobody THEN "cancelled" ELSE "success"
  <2>1. outcome \in Begun /\ attempt' = [attempt EXCEPT ![away].outcome = outcome]
    BY DEF Signing!Return, Begun
  <2> HIDE DEF outcome
  <2> QED
    BY <1>1, <1>4, <2>1, OutcomeTellsNothing
<1>6. firebase' \in Users /\ provider' \in [user : Users, ready : BOOLEAN, demo : BOOLEAN]
  BY DEF SigningInv, SigningType, Signing!Return, Signing!Known, Users
<1>7. SigningType'
  BY <1>4, <1>5, <1>6, AttemptsAssumption DEF SigningInv, SigningType, Signing!Return
<1>8. NotStuck' /\ StaysIn'
  BY <1>4 DEF SigningInv, NotStuck, StaysIn, Signing!Return, Signing!User
<1> QED
  BY <1>5, <1>7, <1>8 DEF SigningInv

LEMMA RedirectFailsKeepsSigning ==
    ASSUME SigningInv, Signing!RedirectFails PROVE SigningInv'
<1>1. redirecting \in Signing!Attempts
  BY AttemptsAssumption DEF SigningInv, SigningType, Signing!RedirectFails, Signing!Attempts
<1>2. /\ form' \in FormType /\ form'.checking = form.checking
      /\ form'.pending \in {form.pending, 0} /\ (form.pending = redirecting => form'.pending = 0)
  BY AttemptsAssumption DEF SigningInv, SigningType, FormType, Signing!RedirectFails
<1>3. marker' \in MarkerType /\ \A n \in Signing!Attempts : marker'.of # n
  BY AttemptsAssumption DEF Signing!RedirectFails, Signing!NoMarker, MarkerType, Signing!Attempts
<1>4. attempt' \in [Signing!Attempts -> AttemptType] /\ ToldOnce'
  <2>1. completions' = completions /\ attempt' = [attempt EXCEPT ![redirecting].outcome = "cancelled"]
    BY DEF Signing!RedirectFails
  <2> QED
    BY <1>1, <1>3, <2>1, OutcomeTellsNothing DEF Begun
<1>5. SigningType'
  BY <1>2, <1>3, <1>4, AttemptsAssumption DEF SigningInv, SigningType, Signing!RedirectFails
<1>6. NotStuck' /\ StaysIn'
  BY <1>2 DEF SigningInv, NotStuck, StaysIn, Signing!RedirectFails, Signing!User
<1> QED
  BY <1>4, <1>5, <1>6 DEF SigningInv

LEMMA GoogleKeepsSigning ==
    ASSUME SigningInv, NEW m \in Signing!Attempts, Signing!Google(m) PROVE SigningInv'
<1> DEFINE r == [attempt[m] EXCEPT !.outcome = "begun"]
           asked == Signing!SafeDestination(form.next)
           q == [r EXCEPT !.asked = asked]
<1>1. attempt[m] \in AttemptType /\ attempt[m].outcome = "none"
  BY DEF SigningInv, SigningType, Signing!Google
<1>2. r \in AttemptType /\ r.outcome = "begun" /\ r.told = attempt[m].told /\ r.read = attempt[m].read
  BY <1>1 DEF AttemptType, Begun
<1>3. attempt' = [attempt EXCEPT ![m] = q]
  BY <1>1 DEF Signing!Google, SigningInv, SigningType
<1>4. asked \in {"/dashboard", "/admin"}
  BY DEF Signing!SafeDestination, Signing!Destinations
<1> HIDE DEF r, asked
<1>5. q \in AttemptType /\ q.outcome = "begun" /\ q.told = attempt[m].told /\ q.read = attempt[m].read
  BY <1>2, <1>4 DEF AttemptType
<1> HIDE DEF q
<1>6. \A n \in Signing!Attempts : attempt'[n] = IF n = m THEN q ELSE attempt[n]
  BY <1>3 DEF SigningInv, SigningType
<1>7. attempt' \in [Signing!Attempts -> AttemptType]
  BY <1>3, <1>5 DEF SigningInv, SigningType
<1>8. marker' \in MarkerType /\ marker'.of = m /\ completions' = completions
  BY AttemptsAssumption DEF Signing!Google, MarkerType, Signing!Attempts
<1>9. form' \in FormType /\ form'.pending = m /\ form'.checking = form.checking
  <2> DEFINE g == [form EXCEPT !.pending = m]
  <2>1. form' = [g EXCEPT !.busy = TRUE]
    BY DEF Signing!Google, SigningInv, SigningType, FormType
  <2>2. g \in FormType /\ g.pending = m /\ g.checking = form.checking
    BY AttemptsAssumption DEF SigningInv, SigningType, FormType, Signing!Attempts
  <2> HIDE DEF g
  <2> QED
    BY <2>1, <2>2 DEF FormType
<1>10. ToldOnce'
  BY <1>1, <1>5, <1>6, <1>8 DEF SigningInv, ToldOnce
<1>11. SigningType'
  BY <1>7, <1>8, <1>9, AttemptsAssumption
  DEF SigningInv, SigningType, Signing!Google, Signing!Attempts
<1>12. NotStuck' /\ StaysIn'
  BY <1>9 DEF SigningInv, NotStuck, StaysIn, Signing!Google, Signing!User
<1> QED
  BY <1>10, <1>11, <1>12 DEF SigningInv

LEMMA CompleteKeepsSigning ==
    ASSUME SigningInv, Signing!Complete PROVE SigningInv'
<1>1. PICK c \in Ask : completions = <<c>>
  BY DEF SigningInv, SigningType, Signing!Complete, Asking
<1> DEFINE m == c.of
           row == attempt[m]
           success == row.outcome = "success" /\ ~row.read
           says == IF success THEN "success" ELSE "failure"
           told == IF c.heard THEN row.told \cup {<<says, row.outcome>>} ELSE row.told
           r == [row EXCEPT !.read = row.read \/ success]
           q == [r EXCEPT !.told = told]
<1>2. Head(completions) = c /\ Tail(completions) = <<>> /\ m \in Signing!Attempts
  BY <1>1 DEF Ask
<1>3. row \in AttemptType /\ row.outcome # "none" /\ row.told = {} /\ ~row.read
  <2>1. AsksOf(completions, m)
    BY <1>1 DEF AsksOf
  <2> QED
    BY <1>2, <2>1 DEF SigningInv, SigningType, ToldOnce
<1>4. /\ completions' = <<>> /\ marker' = Signing!NoMarker
      /\ attempt' = [attempt EXCEPT ![m] = q]
      /\ form' = IF ~c.heard THEN form
                 ELSE [form EXCEPT !.checking = FALSE,
                                   !.destination = IF success THEN row.asked ELSE form.destination]
      /\ UNCHANGED <<firebase, provider, page, path, away, redirecting, arrived>>
  <2>1. /\ completions' = <<>> /\ marker' = Signing!NoMarker
        /\ form' = IF ~c.heard THEN form
                   ELSE [form EXCEPT !.checking = FALSE,
                                     !.destination = IF success THEN row.asked ELSE form.destination]
        /\ UNCHANGED <<firebase, provider, page, path, away, redirecting, arrived>>
    BY <1>2 DEF Signing!Complete, SigningInv, SigningType, FormType
  <2>2. attempt' = [attempt EXCEPT ![m] = [row EXCEPT !.read = row.read \/ success, !.told = told]]
    BY <1>2, <1>3 DEF Signing!Complete, SigningInv, SigningType, AttemptType
  <2>3. [row EXCEPT !.read = row.read \/ success, !.told = told] = q
    <3>1. row \in AttemptType
      BY <1>3
    <3> HIDE DEF row, told, success
    <3> QED
      BY <3>1 DEF AttemptType
  <2> QED
    BY <2>1, <2>2, <2>3
<1>5. told \subseteq Truth \/ told \subseteq Failures
  BY <1>3 DEF AttemptType, Begun, Truth, Failures
<1>6. r \in AttemptType /\ r.outcome = row.outcome
  BY <1>3 DEF AttemptType
<1>7. q \in AttemptType /\ q.outcome # "none" /\ q.told = told
  <2>1. told \in SUBSET (Truth \cup Failures)
    BY <1>5
  <2> HIDE DEF r, told
  <2> QED
    BY <1>3, <1>6, <2>1 DEF AttemptType
<1>8. form' \in FormType /\ form'.pending = form.pending /\ (form'.checking => form.checking /\ ~c.heard)
  <2>1. CASE ~c.heard
    BY <1>4, <2>1 DEF SigningInv, SigningType
  <2>2. CASE c.heard
    <3> DEFINE g == [form EXCEPT !.checking = FALSE]
               to == IF success THEN row.asked ELSE form.destination
    <3>1. form' = [g EXCEPT !.destination = to]
      BY <1>4, <2>2 DEF SigningInv, SigningType, FormType
    <3>2. g \in FormType /\ g.pending = form.pending /\ ~g.checking
      BY DEF SigningInv, SigningType, FormType
    <3>3. to \in {"/dashboard", "/admin", "none"}
      BY <1>3 DEF SigningInv, SigningType, FormType, AttemptType
    <3> HIDE DEF g, to
    <3> QED
      BY <3>1, <3>2, <3>3 DEF FormType
  <2> QED
    BY <2>1, <2>2
<1>9. page = "form" => ~form'.checking
  <2>1. Hears(completions) => c.heard
    BY <1>1 DEF Hears
  <2> QED
    BY <1>8, <2>1 DEF SigningInv, NotStuck
<1> HIDE DEF m, row, success, says, told, r, q
<1>10. \A n \in Signing!Attempts : attempt'[n] = IF n = m THEN q ELSE attempt[n]
  BY <1>2, <1>4 DEF SigningInv, SigningType
<1>11. attempt' \in [Signing!Attempts -> AttemptType]
  BY <1>4, <1>7 DEF SigningInv, SigningType
<1>12. marker' \in MarkerType /\ \A n \in Signing!Attempts : marker'.of # n /\ ~AsksOf(completions', n)
  BY <1>4, AttemptsAssumption DEF Signing!NoMarker, MarkerType, Signing!Attempts, AsksOf
<1>13. ToldOnce'
  BY <1>5, <1>7, <1>10, <1>12 DEF SigningInv, ToldOnce
<1>14. SigningType'
  BY <1>4, <1>8, <1>11, <1>12 DEF SigningInv, SigningType, Asking
<1>15. NotStuck' /\ StaysIn'
  BY <1>4, <1>8, <1>9 DEF SigningInv, NotStuck, StaysIn, Signing!User
<1> QED
  BY <1>13, <1>14, <1>15 DEF SigningInv

\* A page other than the form listens to no answer.
LEMMA EnterKeepsSigning ==
    ASSUME SigningInv, NEW destination \in {"/dashboard", "/admin"}, Signing!Enter(destination),
           UNCHANGED <<away, redirecting, form, marker, attempt>>
    PROVE  /\ page' = "protected" /\ path' \in {"/dashboard", "/admin"} /\ completions' \in Asking
           /\ ToldOnce' /\ NotStuck'
<1>1. completions \in Asking
  BY DEF SigningInv, SigningType
<1>2. /\ completions' \in Asking
      /\ \A n \in Signing!Attempts : AsksOf(completions', n) => AsksOf(completions, n)
  BY <1>1, UnheardAsksTheSame DEF Signing!Enter
<1> QED
  BY <1>2 DEF SigningInv, ToldOnce, NotStuck, Signing!Enter

LEMMA LeaveKeepsSigning ==
    ASSUME SigningInv,
           \/ \E s \in submitted, u \in Signing!Known : Signing!LoggedIn(s, u)
           \/ Signing!StartDemo \/ Signing!RedirectTo
    PROVE  SigningInv'
<1>1. \A next : Signing!SafeDestination(next) \in {"/dashboard", "/admin"}
  BY DEF Signing!SafeDestination, Signing!Destinations
<1>2. ASSUME NEW s \in submitted, NEW u \in Signing!Known, Signing!LoggedIn(s, u) PROVE SigningInv'
  <2>1. /\ page' = "protected" /\ path' \in {"/dashboard", "/admin"} /\ completions' \in Asking
        /\ ToldOnce' /\ NotStuck'
    BY <1>1, <1>2, EnterKeepsSigning DEF Signing!LoggedIn
  <2> QED
    BY <1>2, <2>1 DEF SigningInv, SigningType, StaysIn, Signing!LoggedIn, Signing!Known, Users
<1>3. CASE Signing!StartDemo
  <2>1. /\ page' = "protected" /\ path' \in {"/dashboard", "/admin"} /\ completions' \in Asking
        /\ ToldOnce' /\ NotStuck'
    BY <1>1, <1>3, EnterKeepsSigning DEF Signing!StartDemo
  <2> QED
    BY <1>3, <2>1 DEF SigningInv, SigningType, StaysIn, Signing!StartDemo
<1>4. CASE Signing!RedirectTo
  <2>1. form.destination \in {"/dashboard", "/admin"}
    BY <1>4 DEF SigningInv, SigningType, FormType, Signing!RedirectTo
  <2>2. /\ page' = "protected" /\ path' \in {"/dashboard", "/admin"} /\ completions' \in Asking
        /\ ToldOnce' /\ NotStuck'
    BY <1>4, <2>1, EnterKeepsSigning DEF Signing!RedirectTo
  <2> QED
    BY <1>4, <2>2 DEF SigningInv, SigningType, StaysIn, Signing!RedirectTo, Signing!User
<1> QED
  BY <1>2, <1>3, <1>4

LEMMA PageKeepsSigning ==
    ASSUME SigningInv,
           \/ Signing!Redirect \/ Signing!Submit \/ Signing!Publish \/ Signing!SignOut \/ Signing!Age
           \/ \E s \in submitted : Signing!LoginFails(s)
    PROVE  SigningInv'
<1>1. CASE Signing!Redirect
  BY <1>1 DEF SigningInv, SigningType, ToldOnce, NotStuck, StaysIn, Signing!Redirect, Signing!User
<1>2. CASE Signing!Submit
  BY <1>2 DEF SigningInv, SigningType, ToldOnce, NotStuck, StaysIn, Signing!Submit, Signing!User, FormType
<1>3. CASE Signing!Publish
  BY <1>3 DEF SigningInv, SigningType, ToldOnce, NotStuck, StaysIn, Signing!Publish, Signing!User
<1>4. CASE Signing!SignOut
  BY <1>4 DEF SigningInv, SigningType, ToldOnce, NotStuck, StaysIn, Signing!SignOut, Signing!User, Users
<1>5. CASE Signing!Age
  <2>1. marker' \in MarkerType /\ marker'.of = marker.of
    BY <1>5 DEF SigningInv, SigningType, MarkerType, Signing!Age
  <2> QED
    BY <1>5, <2>1 DEF SigningInv, SigningType, ToldOnce, NotStuck, StaysIn, Signing!Age, Signing!User
<1>6. CASE \E s \in submitted : Signing!LoginFails(s)
  <2>1. form' \in FormType /\ form'.pending = form.pending /\ form'.checking = form.checking
    BY <1>6 DEF SigningInv, SigningType, Signing!LoginFails, FormType
  <2> QED
    BY <1>6, <2>1 DEF SigningInv, SigningType, ToldOnce, NotStuck, StaysIn, Signing!LoginFails, Signing!User
<1> QED
  BY <1>1, <1>2, <1>3, <1>4, <1>5, <1>6

\* The sign-in form tells of every attempt with Google once and rightly, and does not stay
\* locked; who has come with Google is not sent back (lib/firebase/google-flow and
\* redirect-state, components/auth/auth-form, SignIn).
THEOREM GoogleIsAnswered == Spec => []AttemptIsAnswered
<1>1. Signing!Init => SigningInv
  <2> SUFFICES ASSUME Signing!Init PROVE SigningInv
    OBVIOUS
  <2>1. form \in FormType /\ form.pending = 0 /\ ~form.checking
    <3> DEFINE f == Signing!NewForm("owner", "/dashboard")
    <3>1. f \in FormType /\ f.pending = 0 /\ form = [f EXCEPT !.checking = FALSE]
      BY NewFormIsOne DEF Signing!Init
    <3> HIDE DEF f
    <3> QED
      BY <3>1 DEF FormType
  <2>2. marker \in MarkerType /\ \A n \in Signing!Attempts : marker.of # n /\ ~AsksOf(completions, n)
    BY AttemptsAssumption DEF Signing!Init, Signing!NoMarker, MarkerType, Signing!Attempts, AsksOf
  <2>3. /\ attempt \in [Signing!Attempts -> AttemptType]
        /\ \A n \in Signing!Attempts : attempt[n].told = {} /\ ~attempt[n].read
    BY DEF Signing!Init, AttemptType
  <2> QED
    BY <2>1, <2>2, <2>3, AttemptsAssumption
    DEF Signing!Init, SigningInv, SigningType, ToldOnce, NotStuck, StaysIn, Asking, Users
<1>2. SigningInv /\ [Signing!Next]_(Signing!vars) => SigningInv'
  <2> SUFFICES ASSUME SigningInv, [Signing!Next]_(Signing!vars) PROVE SigningInv'
    OBVIOUS
  <2>1. CASE \E role \in {"owner", "admin"}, next \in Signing!Destinations \cup {"elsewhere"} :
                 Signing!Visit(role, next)
    BY <2>1, VisitKeepsSigning
  <2>2. CASE \E n \in Signing!Attempts : Signing!Google(n)
    BY <2>2, GoogleKeepsSigning
  <2>3. CASE Signing!RedirectFails
    BY <2>3, RedirectFailsKeepsSigning
  <2>4. CASE Signing!Resume
    BY <2>4, ResumeKeepsSigning
  <2>5. CASE Signing!Complete
    BY <2>5, CompleteKeepsSigning
  <2>6. CASE \E u \in Signing!Known \cup {Nobody} : Signing!Return(u)
    BY <2>6, ReturnKeepsSigning
  <2>7. CASE \/ \E s \in submitted : \E u \in Signing!Known : Signing!LoggedIn(s, u)
             \/ Signing!StartDemo \/ Signing!RedirectTo
    BY <2>7, LeaveKeepsSigning
  <2>8. CASE \/ Signing!Redirect \/ Signing!Submit \/ Signing!Publish \/ Signing!SignOut \/ Signing!Age
             \/ \E s \in submitted : Signing!LoginFails(s)
    BY <2>8, PageKeepsSigning
  <2>9. CASE Signing!Guard
    BY <2>9, GuardKeepsSigning
  <2>10. CASE UNCHANGED Signing!vars
    BY <2>10 DEF SigningInv, SigningType, ToldOnce, NotStuck, StaysIn, Signing!vars, Signing!User
  <2> QED
    BY <2>1, <2>2, <2>3, <2>4, <2>5, <2>6, <2>7, <2>8, <2>9, <2>10 DEF Signing!Next
<1>3. SigningInv => AttemptIsAnswered
  BY DEF SigningInv, ToldOnce, NotStuck, StaysIn, AttemptIsAnswered, Signing!AttemptIsAnswered,
         Truth, Failures, Hears
<1> QED
  BY <1>1, <1>2, <1>3, SigningIsThere, PTL DEF Signing!Spec
-----------------------------------------------------------------------------
(* EnergyDispatch *)

LEMMA StationIsThere == Spec => Station!Spec
<1>1. Init => Station!Init
  BY DEF Init
<1>2. [Next]_vars => [Station!Next]_(Station!vars)
  BY DEF Next, vars, station, Station!vars
<1> QED
  BY <1>1, <1>2, PTL DEF Spec, Station!Spec

LastHour == Station!HourOf(LastTick)
RowType == [duration : Int, solar : Int, ev : Int, imported : Int, exported : Int, battery : Int, ending : Int]
FlowType == [solar : Int, ev : Int, imported : Int, exported : Int, battery : Int]
Stored(rows) == Station!FoldSet(LAMBDA h, sum : rows[h].battery + sum, 0, Station!HoursKept)
BatteryOf(rows) == [h \in Station!HoursKept |-> rows[h].battery]

\* Of an hour, what has passed at a time; and how far an interval is before an hour begins.
Passed(h, time) == Station!Smaller(HourLength, Station!Positive(time - h * HourLength))
Before(h, start, length) == Station!Smaller(length, Station!Positive(h * HourLength - start))

RowIsFair(row) ==
    /\ row.solar + row.imported >= row.ev + row.battery + row.exported
    /\ row.ending \in 0..(Capacity * Slices)

\* No hour has more time in it than has passed of it, at the fastest speed.
StationInv ==
    /\ charge \in 0..Capacity /\ byHand \in Int /\ now \in 0..LastTick
    /\ limits \in [min : 0..Capacity, max : 0..Capacity]
    /\ history \in [Station!HoursKept -> RowType]
    /\ charge * Slices = byHand * Slices + Stored(history)
    /\ \A h \in Station!HoursKept :
          history[h].duration <= Passed(h, now) * Station!Fastest /\ RowIsFair(history[h])

LEMMA FastestIsSpeed == Station!Fastest \in Speeds /\ Station!Fastest \in Nat /\ \A s \in Speeds : s \in Nat /\ s <= Station!Fastest
BY StationAssumption DEF Station!Fastest

\* At any speed the time that passes is no more than at the fastest.
LEMMA PassedFaster ==
    ASSUME NEW d \in Int, NEW p \in Nat, NEW q \in Nat, d <= p * Station!Fastest, NEW part \in Nat, part <= q - p,
           NEW speed \in Speeds
    PROVE  part * speed \in Nat /\ d + part * speed <= q * Station!Fastest
<1>1. PICK f \in Nat : f = Station!Fastest
  BY FastestIsSpeed
<1>2. PICK y \in Nat : f = speed + y
  BY <1>1, FastestIsSpeed, f - speed \in Nat
<1>3. PICK z \in Nat : q = p + part + z
  BY q - p - part \in Nat
<1>4. speed \in Nat
  BY FastestIsSpeed
<1>5. q * f = p * f + part * f + z * f
  BY <1>3
<1>6. part * f = part * speed + part * y
  BY <1>2, <1>4
<1>7. /\ p * f \in Nat /\ part * f \in Nat /\ z * f \in Nat
      /\ part * speed \in Nat /\ part * y \in Nat /\ q * f \in Nat
  BY <1>4
<1> QED
  BY <1>1, <1>5, <1>6, <1>7

LEMMA HoursAreFinite ==
    /\ LastHour \in Nat /\ Station!HoursKept = 0..LastHour /\ IsFiniteSet(0..LastHour)
    /\ LastTick < (LastHour + 1) * HourLength
<1>1. LastHour \in Nat /\ LastTick < (LastHour + 1) * HourLength
  BY StationAssumption DEF LastHour, Station!HourOf
<1>2. IsFiniteSet(0..LastHour)
  BY <1>1, FS_Interval
<1> QED
  BY <1>1, <1>2 DEF Station!HoursKept, LastHour

\* The fold of the invariant is the recursion FiniteSums speaks of.
LEMMA StoredAccumulates ==
    ASSUME NEW rows \in [Station!HoursKept -> RowType]
    PROVE  \E g : /\ Accumulates(g, BatteryOf(rows), Station!HoursKept)
                  /\ Stored(rows) = g[Station!HoursKept]
<1> DEFINE S == Station!HoursKept
           B(g) == [R \in SUBSET S |->
                       IF R = {} THEN 0
                       ELSE LET x == CHOOSE x \in R : TRUE
                            IN  rows[x].battery + g[R \ {x}]]
<1>1. BatteryOf(rows) \in [S -> Int] /\ IsFiniteSet(S)
  BY HoursAreFinite DEF BatteryOf, RowType
<1>2. PICK g : Accumulates(g, BatteryOf(rows), S)
  BY <1>1, SumExists
<1>3. g = B(g)
  <2>1. ASSUME NEW R \in SUBSET S PROVE g[R] = B(g)[R]
    BY <1>2, FirstIsOne DEF Accumulates, Follows, Summed, First, BatteryOf
  <2> QED
    BY <1>2, <2>1 DEF Accumulates
<1>4. \A h : h = B(h) => h[S] = g[S]
  <2> SUFFICES ASSUME NEW h, h = B(h) PROVE h[S] = g[S]
    OBVIOUS
  <2>1. Follows(h, BatteryOf(rows), S)
    <3>1. ASSUME NEW R \in SUBSET S PROVE h[R] = Summed(h, BatteryOf(rows), R)
      BY FirstIsOne DEF Summed, First, BatteryOf
    <3> QED
      BY <3>1 DEF Follows
  <2> QED
    BY <1>1, <1>2, <2>1, SumUnique DEF Accumulates
<1>5. Stored(rows) = g[S]
  BY <1>3, <1>4 DEF Stored, Station!FoldSet, Station!MapThenFoldSet
<1> QED
  BY <1>2, <1>5

\* What the rows gain in all.
LEMMA StoredGains ==
    ASSUME NEW rows \in [Station!HoursKept -> RowType], NEW later \in [Station!HoursKept -> RowType],
           NEW c, Telescopes(LastHour, BatteryOf(rows), BatteryOf(later), c)
    PROVE  Stored(later) = Stored(rows) + c[LastHour + 1] - c[0]
<1>1. Station!HoursKept = 0..LastHour
  BY HoursAreFinite
<1>2. PICK g : Accumulates(g, BatteryOf(rows), 0..LastHour) /\ Stored(rows) = g[0..LastHour]
  BY <1>1, StoredAccumulates
<1>3. PICK h : Accumulates(h, BatteryOf(later), 0..LastHour) /\ Stored(later) = h[0..LastHour]
  BY <1>1, StoredAccumulates
<1>4. h[0..LastHour] = g[0..LastHour] + c[LastHour + 1] - c[0]
  BY <1>2, <1>3, SumsDiffer
<1> QED
  BY <1>2, <1>3, <1>4, Zenon

\* The parts of an interval add up, and each fits into what is left of its hour.
LEMMA PartsFit ==
    ASSUME NEW h \in Nat, NEW start \in Nat, NEW end \in Nat, start <= end
    PROVE  /\ Station!PartIn(h, start, end) = Before(h + 1, start, end - start) - Before(h, start, end - start)
           /\ Station!PartIn(h, start, end) = Passed(h, end) - Passed(h, start)
           /\ Station!PartIn(h, start, end) \in 0..(end - start)
           /\ Station!PartIn(h, start, end) > 0 => (h + 1) * HourLength > start
<1> DEFINE a == h * HourLength
           b == (h + 1) * HourLength
<1>1. a \in Nat /\ b = a + HourLength /\ HourLength \in Nat
  BY StationAssumption
<1> HIDE DEF a, b
<1>2. /\ Station!PartIn(h, start, end) =
            Station!Smaller(end - start, Station!Positive(b - start))
              - Station!Smaller(end - start, Station!Positive(a - start))
      /\ Passed(h, end) = Station!Smaller(HourLength, Station!Positive(end - a))
      /\ Passed(h, start) = Station!Smaller(HourLength, Station!Positive(start - a))
  BY DEF Station!PartIn, Passed, a, b
<1>3. Station!PartIn(h, start, end) = Passed(h, end) - Passed(h, start)
  BY <1>1, <1>2 DEF Station!Smaller, Station!Positive
<1>4. Station!PartIn(h, start, end) \in 0..(end - start) /\ (Station!PartIn(h, start, end) > 0 => b > start)
  BY <1>1, <1>2 DEF Station!Smaller, Station!Positive
<1> QED
  BY <1>3, <1>4 DEF Station!PartIn, Before, b

LEMMA PassedGrows ==
    ASSUME NEW h \in Nat, NEW s \in Nat, NEW t \in Nat, s <= t
    PROVE  Passed(h, s) \in 0..HourLength /\ Passed(h, s) <= Passed(h, t)
<1>1. h * HourLength \in Nat /\ HourLength \in Nat
  BY StationAssumption
<1> QED
  BY <1>1 DEF Passed, Station!Smaller, Station!Positive

\* The same energies of the battery have the same sum.
LEMMA StoredStays ==
    ASSUME NEW rows \in [Station!HoursKept -> RowType], NEW later \in [Station!HoursKept -> RowType],
           BatteryOf(later) = BatteryOf(rows)
    PROVE  Stored(later) = Stored(rows)
<1>1. PICK g : Accumulates(g, BatteryOf(rows), Station!HoursKept) /\ Stored(rows) = g[Station!HoursKept]
  BY StoredAccumulates
<1>2. PICK h : Accumulates(h, BatteryOf(rows), Station!HoursKept) /\ Stored(later) = h[Station!HoursKept]
  BY StoredAccumulates
<1>3. BatteryOf(rows) \in [Station!HoursKept -> Int] /\ IsFiniteSet(Station!HoursKept)
  BY HoursAreFinite DEF BatteryOf, RowType
<1>4. h[Station!HoursKept] = g[Station!HoursKept]
  BY <1>1, <1>2, <1>3, SumUnique DEF Accumulates
<1> QED
  BY <1>1, <1>2, <1>4

LEMMA TimesIsNatural == \A m, n \in Nat : m * n \in Nat
OBVIOUS

\* An interval gives no more than it gets, and what it stores there is room for.
LEMMA DispatchIsFair ==
    ASSUME StationInv, NEW input \in Station!Inputs, NEW length \in Nat,
           NEW flow, flow = Station!Dispatch(input, length)
    PROVE  /\ flow \in FlowType
           /\ flow.solar + flow.imported >= flow.ev + flow.battery + flow.exported
           /\ charge + flow.battery \in 0..Capacity
           /\ length = 0 => flow.battery = 0
<1> DEFINE demand == input.demand * length
           solar == input.solar * length
           own == Auxiliary * length
           out == MaxDischarge * length
           in == MaxCharge * length
           solarToEv == Station!Smaller(solar, demand)
           auxiliary == Station!Smaller(own, solar - solarToEv)
           deficit == demand - solarToEv
           discharge == Station!Smaller(Station!Smaller(deficit, out), Station!Positive(charge - limits.min))
           imported == IF input.grid THEN deficit - discharge ELSE 0
           surplus == solar - auxiliary - solarToEv
           stored == Station!Smaller(Station!Smaller(surplus, in), Station!Positive(limits.max - charge))
           exported == IF input.grid /\ input.export THEN surplus - stored ELSE 0
<1>1. /\ demand \in Nat /\ solar \in Nat /\ own \in Nat /\ out \in Nat /\ in \in Nat
  <2>1. input.demand \in Nat /\ input.solar \in Nat /\ length \in Nat
    BY StationAssumption DEF Station!Inputs
  <2> QED
    BY <2>1, StationAssumption, TimesIsNatural
<1>2. /\ charge \in 0..Capacity /\ Capacity \in Nat
      /\ limits.min \in 0..Capacity /\ limits.max \in 0..Capacity
  BY StationAssumption DEF StationInv
<1>3. flow = IF ~input.online \/ length = 0
             THEN [solar |-> 0, ev |-> 0, imported |-> 0, exported |-> 0, battery |-> 0]
             ELSE [solar |-> solar, ev |-> solarToEv + discharge + imported, imported |-> imported,
                   exported |-> exported, battery |-> stored - discharge]
  BY DEF Station!Dispatch
<1> HIDE DEF demand, solar, own, out, in
<1>4. solarToEv \in Nat /\ solarToEv <= solar /\ deficit \in Nat
  BY <1>1 DEF Station!Smaller
<1> HIDE DEF solarToEv, deficit
<1>5. auxiliary \in Nat /\ surplus \in Nat /\ surplus <= solar - solarToEv
  BY <1>1, <1>4 DEF Station!Smaller
<1>6. discharge \in Nat /\ discharge <= deficit /\ discharge <= Station!Positive(charge - limits.min)
  BY <1>1, <1>2, <1>4 DEF Station!Smaller, Station!Positive
<1> HIDE DEF auxiliary, surplus, discharge
<1>7. stored \in Nat /\ stored <= surplus /\ stored <= Station!Positive(limits.max - charge)
  BY <1>1, <1>2, <1>5 DEF Station!Smaller, Station!Positive
<1> HIDE DEF stored
<1>8. imported \in Nat /\ exported \in Nat /\ exported <= surplus - stored
  BY <1>4, <1>5, <1>6, <1>7
<1> HIDE DEF imported, exported
<1>9. charge + (stored - discharge) \in 0..Capacity
  BY <1>2, <1>6, <1>7 DEF Station!Positive
<1>10. CASE ~input.online \/ length = 0
  BY <1>2, <1>3, <1>10 DEF FlowType
<1>11. CASE ~(~input.online \/ length = 0)
  <2>1. /\ flow.solar = solar /\ flow.ev = solarToEv + discharge + imported /\ flow.imported = imported
        /\ flow.exported = exported /\ flow.battery = stored - discharge
        /\ flow = [solar |-> solar, ev |-> solarToEv + discharge + imported, imported |-> imported,
                   exported |-> exported, battery |-> stored - discharge]
    BY <1>3, <1>11
  <2>2. flow \in FlowType
    BY <1>1, <1>4, <1>6, <1>7, <1>8, <2>1 DEF FlowType
  <2>3. solar + imported >= solarToEv + discharge + imported + (stored - discharge) + exported
    BY <1>1, <1>4, <1>5, <1>6, <1>7, <1>8
  <2> QED
    BY <1>9, <1>11, <2>1, <2>2, <2>3
<1> QED
  BY <1>10, <1>11

LEMMA TimesKeepsOrder == \A x, y \in Int : \A m \in Nat : x >= y => x * m >= y * m
OBVIOUS

LEMMA TimesSpreads ==
    /\ \A x, y, m \in Int : (x + y) * m = x * m + y * m /\ (x - y) * m = x * m - y * m
    /\ \A x, y, m \in Int : (x * y) * m = x * (y * m)
OBVIOUS

\* What an interval adds to a row.
LEMMA RecordedIsFair ==
    ASSUME StationInv, NEW h \in Station!HoursKept,
           NEW flow \in FlowType,
           flow.solar + flow.imported >= flow.ev + flow.battery + flow.exported,
           charge + flow.battery \in 0..Capacity,
           NEW start \in Nat, NEW end \in Nat, now <= start, NEW length \in 1..MaxInterval, end - start = length,
           NEW speed \in Speeds, NEW row, row = Station!Recorded(history[h], h, flow, speed, start, end)
    PROVE  /\ row \in RowType /\ row.duration <= Passed(h, end) * Station!Fastest /\ RowIsFair(row)
           /\ row.battery - history[h].battery =
                (flow.battery * Before(h + 1, start, length)) * (Slices \div length)
                    - (flow.battery * Before(h, start, length)) * (Slices \div length)
<1> DEFINE old == history[h]
           part == Station!PartIn(h, start, end)
           k == Slices \div length
           m == part * k
           share(energy) == (energy * part) * k
           gap == Station!Positive(end - (h + 1) * HourLength)
           after == (flow.battery * gap) * k
           new == [duration |-> old.duration + part * speed,
                   solar |-> old.solar + share(flow.solar), ev |-> old.ev + share(flow.ev),
                   imported |-> old.imported + share(flow.imported),
                   exported |-> old.exported + share(flow.exported),
                   battery |-> old.battery + share(flow.battery),
                   ending |-> (charge + flow.battery) * Slices - after]
<1>1. /\ h \in Nat /\ start <= end /\ end # start /\ length \in Nat
      /\ now \in Nat /\ old \in RowType /\ old.duration <= Passed(h, now) * Station!Fastest /\ RowIsFair(old)
  <2>1. h \in Nat
    BY HoursAreFinite
  <2> QED
    BY <2>1, StationAssumption DEF StationInv
<1>2. k \in Nat /\ length * k = Slices /\ Slices \in Nat
  BY StationAssumption
<1>3. /\ part = Before(h + 1, start, length) - Before(h, start, length)
      /\ part = Passed(h, end) - Passed(h, start)
      /\ part \in 0..length
      /\ part > 0 => (h + 1) * HourLength > start
  <2>1. /\ part = Before(h + 1, start, end - start) - Before(h, start, end - start)
        /\ part = Passed(h, end) - Passed(h, start)
        /\ part \in 0..(end - start)
        /\ part > 0 => (h + 1) * HourLength > start
    BY <1>1, PartsFit
  <2> HIDE DEF part
  <2> QED
    BY <2>1
<1>4. row = IF part = 0 THEN old ELSE new
  BY <1>1 DEF Station!Recorded
<1>5. /\ flow.solar \in Int /\ flow.ev \in Int /\ flow.imported \in Int /\ flow.exported \in Int
      /\ flow.battery \in Int
      /\ old.duration \in Int /\ old.solar \in Int /\ old.ev \in Int /\ old.imported \in Int
      /\ old.exported \in Int /\ old.battery \in Int
  BY <1>1 DEF FlowType, RowType
<1>6. Passed(h, now) <= Passed(h, start) /\ Passed(h, now) \in Int /\ Passed(h, start) \in Int
      /\ Passed(h, end) \in Int
  <2>1. HourLength \in Nat /\ h \in Nat /\ now \in Nat /\ now <= start /\ start <= end /\ end <= end
    BY <1>1, StationAssumption
  <2>2. Passed(h, now) \in 0..HourLength /\ Passed(h, now) <= Passed(h, start)
    BY <2>1, PassedGrows
  <2>3. Passed(h, start) \in 0..HourLength
    BY <2>1, PassedGrows
  <2>4. Passed(h, end) \in 0..HourLength
    BY <2>1, PassedGrows
  <2> QED
    BY <2>1, <2>2, <2>3, <2>4
<1>7. Before(h + 1, start, length) \in Int /\ Before(h, start, length) \in Int
  <2>1. (h + 1) * HourLength \in Int /\ h * HourLength \in Int
    BY <1>1, StationAssumption
  <2> QED
    BY <1>1, <2>1 DEF Before, Station!Smaller, Station!Positive
<1>13. part * speed \in Nat /\ old.duration + part * speed <= Passed(h, end) * Station!Fastest
  <2>1. Passed(h, now) \in Nat /\ Passed(h, end) \in Nat
    BY <1>1, PassedGrows
  <2>2. part \in Nat /\ part <= Passed(h, end) - Passed(h, now)
    BY <1>1, <1>3, <1>6
  <2> QED
    BY <1>1, <1>5, <2>1, <2>2, PassedFaster
<1> HIDE DEF part, k
<1>8. m \in Nat /\ \A x \in Int : share(x) = x * m /\ share(x) \in Int /\ (part = 0 => share(x) = 0)
  <2>1. part \in Nat /\ k \in Nat
    BY <1>1, <1>2, <1>3
  <2>2. m \in Nat
    BY <2>1, TimesIsNatural
  <2>3. \A x \in Int : share(x) = x * m /\ share(x) \in Int
    BY <2>1, <2>2, TimesSpreads
  <2>4. part = 0 => \A x \in Int : share(x) = 0
    BY <2>1
  <2> QED
    BY <2>2, <2>3, <2>4
<1>9. after \in Int /\ (part > 0 => (charge + flow.battery) * Slices - after \in 0..(Capacity * Slices))
  <2> DEFINE b == flow.battery
             w == (length - gap) * k
  <2>1. gap \in Nat /\ (part > 0 => gap <= length)
    <3>1. (h + 1) * HourLength \in Int
      BY <1>1, StationAssumption
    <3> QED
      BY <1>1, <1>3, <3>1 DEF Station!Positive
  <2>2. after = b * (gap * k) /\ gap * k \in Nat /\ after \in Int
    BY <1>2, <1>5, <2>1, TimesSpreads, TimesIsNatural
  <2>3. ASSUME part > 0 PROVE (charge + b) * Slices - after \in 0..(Capacity * Slices)
    <3>1. length - gap \in Nat /\ w \in Nat
      BY <1>1, <1>2, <2>1, <2>3, TimesIsNatural
    <3>2. w = Slices - gap * k
      <4>1. length \in Int /\ gap \in Int /\ k \in Int
        BY <1>1, <1>2, <2>1
      <4> HIDE DEF gap
      <4>2. (length - gap) * k = length * k - gap * k
        BY <4>1, TimesSpreads
      <4> QED
        BY <1>2, <4>2
    <3> HIDE DEF gap, w
    <3>3. w <= Slices /\ 0 <= w
      BY <1>2, <2>2, <3>1, <3>2
    <3>4. charge \in Nat /\ b \in Int /\ charge + b \in Nat /\ charge <= Capacity /\ charge + b <= Capacity
          /\ Capacity \in Nat
      BY <1>5, StationAssumption DEF StationInv
    <3>5. (charge + b) * Slices - after = charge * Slices + b * w
      <4>1. b * w = b * Slices - b * (gap * k)
        <5>1. \A x, y, z \in Int : x * (y - z) = x * y - x * z
          OBVIOUS
        <5> QED
          BY <1>2, <2>2, <3>2, <3>4, <5>1
      <4>2. (charge + b) * Slices = charge * Slices + b * Slices
        BY <1>2, <3>4, TimesSpreads
      <4>3. charge * Slices \in Int /\ b * Slices \in Int /\ b * (gap * k) \in Int
        BY <1>2, <2>2, <3>4
      <4> QED
        BY <2>2, <4>1, <4>2, <4>3
    <3>6. 0 <= charge * Slices /\ charge * Slices <= Capacity * Slices
          /\ 0 <= (charge + b) * Slices /\ (charge + b) * Slices <= Capacity * Slices
      <4>1. 0 * Slices = 0
        BY <1>2
      <4> QED
        BY <1>2, <3>4, <4>1, TimesKeepsOrder
    <3>7. (b >= 0 => 0 <= b * w /\ b * w <= b * Slices) /\ (b <= 0 => b * Slices <= b * w /\ b * w <= 0)
      BY <1>2, <3>1, <3>3, <3>4
    <3>8. (charge + b) * Slices = charge * Slices + b * Slices
      BY <1>2, <3>4, TimesSpreads
    <3>9. charge * Slices \in Int /\ b * Slices \in Int /\ b * w \in Int /\ Capacity * Slices \in Int
      BY <1>2, <3>1, <3>4
    <3> QED
      BY <3>4, <3>5, <3>6, <3>7, <3>8, <3>9
  <2> QED
    BY <2>2, <2>3
<1>10. /\ share(flow.battery) = (flow.battery * Before(h + 1, start, length)) * k
                                  - (flow.battery * Before(h, start, length)) * k
  <2> DEFINE x == Before(h + 1, start, length)
             y == Before(h, start, length)
             b == flow.battery
  <2>1. x \in Int /\ y \in Int /\ b \in Int /\ part = x - y /\ k \in Int
    BY <1>2, <1>3, <1>5, <1>7
  <2> HIDE DEF x, y, b
  <2>2. b * part = b * x - b * y /\ b * x \in Int /\ b * y \in Int
    BY <2>1
  <2>3. (b * x - b * y) * k = (b * x) * k - (b * y) * k
    BY <2>1, <2>2, TimesSpreads
  <2> QED
    BY <2>2, <2>3 DEF x, y, b
<1> HIDE DEF m, share, after, gap, old
<1>11. CASE part = 0
  <2>1. share(flow.battery) = 0
    BY <1>5, <1>8, <1>11
  <2>2. old.duration <= Passed(h, end) * Station!Fastest
    BY <1>5, <1>11, <1>13, FastestIsSpeed
  <2> QED
    BY <1>1, <1>4, <1>5, <1>10, <1>11, <2>1, <2>2 DEF old, k
<1>12. CASE part # 0
  <2>1. /\ row.duration = old.duration + part * speed /\ row.battery = old.battery + share(flow.battery)
        /\ row.solar = old.solar + share(flow.solar) /\ row.ev = old.ev + share(flow.ev)
        /\ row.imported = old.imported + share(flow.imported)
        /\ row.exported = old.exported + share(flow.exported)
        /\ row.ending = (charge + flow.battery) * Slices - after
        /\ row = new
    BY <1>4, <1>12
  <2>2. part > 0 /\ part \in Nat
    BY <1>1, <1>3, <1>12
  <2>3. row.ending \in 0..(Capacity * Slices)
    BY <1>9, <2>1, <2>2
  <2>4. row.duration <= Passed(h, end) * Station!Fastest
    BY <1>13, <2>1
  <2>5. /\ share(flow.solar) \in Int /\ share(flow.ev) \in Int /\ share(flow.imported) \in Int
        /\ share(flow.exported) \in Int /\ share(flow.battery) \in Int
    BY <1>5, <1>8
  <2>6. (charge + flow.battery) * Slices - after \in Int
    BY <1>2, <1>5, <1>9 DEF StationInv
  <2>7. row \in RowType
    BY <1>5, <1>13, <2>1, <2>5, <2>6 DEF RowType
  <2>8. share(flow.solar) + share(flow.imported) >= share(flow.ev) + share(flow.battery) + share(flow.exported)
    <3>1. /\ share(flow.solar) + share(flow.imported) = (flow.solar + flow.imported) * m
          /\ share(flow.ev) + share(flow.battery) + share(flow.exported)
                = (flow.ev + flow.battery + flow.exported) * m
      BY <1>5, <1>8, TimesSpreads
    <3> QED
      BY <1>5, <1>8, <3>1, TimesKeepsOrder
  <2>9. row.solar + row.imported >= row.ev + row.battery + row.exported
    BY <1>1, <1>5, <2>1, <2>5, <2>8 DEF RowIsFair
  <2>10. row.battery - old.battery = share(flow.battery)
    BY <1>5, <2>1, <2>5
  <2> QED
    BY <1>10, <2>3, <2>4, <2>7, <2>9, <2>10 DEF RowIsFair, old, k
<1> QED
  BY <1>11, <1>12

LEMMA AdvanceKeepsStation ==
    ASSUME StationInv, NEW input \in Station!Inputs, NEW elapsed \in 0..MaxElapsed,
           NEW speed \in Speeds, Station!Advance(input, elapsed, speed)
    PROVE  StationInv'
<1> DEFINE length == Station!Smaller(elapsed, MaxInterval)
           flow == Station!Dispatch(input, length * speed)
           start == now' - length
           k == Slices \div length
           c == [i \in 0..(LastHour + 1) |-> (flow.battery * Before(i, start, length)) * k]
<1>1. /\ length \in 0..MaxInterval /\ length \in Nat /\ now \in Nat /\ now' \in 0..LastTick /\ now' \in Nat
      /\ start \in Nat /\ now <= start /\ now <= now' /\ now' - start = length
      /\ charge \in Nat /\ Capacity \in Nat
  BY StationAssumption DEF StationInv, Station!Advance, Station!Smaller
<1>2. /\ charge' = Station!Smaller(Capacity, Station!Positive(charge + flow.battery))
      /\ history' = [h \in Station!HoursKept |-> Station!Recorded(history[h], h, flow, speed, start, now')]
      /\ UNCHANGED <<limits, byHand>>
  BY DEF Station!Advance
<1> HIDE DEF length, flow, start
<1>3. /\ flow \in FlowType
      /\ flow.solar + flow.imported >= flow.ev + flow.battery + flow.exported
      /\ charge + flow.battery \in 0..Capacity
      /\ length = 0 => flow.battery = 0
  <2>1. length * speed \in Nat /\ (length = 0 => length * speed = 0)
    BY <1>1, FastestIsSpeed
  <2> QED
    BY <2>1, DispatchIsFair DEF flow
<1>4. charge' = charge + flow.battery /\ flow.battery \in Int
  BY <1>1, <1>2, <1>3 DEF Station!Smaller, Station!Positive, FlowType
<1>5. CASE length = 0
  <2>1. start = now'
    BY <1>5, StationAssumption DEF start, Station!Advance, StationInv
  <2>2. ASSUME NEW h \in Station!HoursKept
        PROVE  history'[h] = history[h] \/ history'[h] = [history[h] EXCEPT !.ending = charge * Slices]
    BY <1>2, <2>1 DEF Station!Recorded
  <2>3. charge' = charge
    BY <1>1, <1>3, <1>4, <1>5
  <2>4. charge * Slices \in 0..(Capacity * Slices)
    BY StationAssumption, 0 * Slices = 0, TimesKeepsOrder DEF StationInv
  <2>5. ASSUME NEW h \in Station!HoursKept
        PROVE  /\ history'[h] \in RowType /\ RowIsFair(history'[h])
               /\ history'[h].duration = history[h].duration /\ history'[h].battery = history[h].battery
    <3>1. history[h] \in RowType /\ RowIsFair(history[h])
      BY DEF StationInv
    <3>2. CASE history'[h] = history[h]
      BY <3>1, <3>2
    <3>3. CASE history'[h] = [history[h] EXCEPT !.ending = charge * Slices]
      <4>1. charge * Slices \in Int
        BY <1>1, StationAssumption
      <4> QED
        BY <2>4, <3>1, <3>3, <4>1 DEF RowType, RowIsFair
    <3> QED
      BY <2>2, <3>2, <3>3
  <2>6. history' \in [Station!HoursKept -> RowType]
    BY <1>2, <2>5
  <2>7. Stored(history') = Stored(history)
    <3>1. BatteryOf(history') = BatteryOf(history)
      BY <2>5 DEF BatteryOf
    <3> QED
      BY <2>6, <3>1, StoredStays DEF StationInv
  <2>8. ASSUME NEW h \in Station!HoursKept
        PROVE  history'[h].duration <= Passed(h, now') * Station!Fastest
    <3>1. h \in Nat
      BY HoursAreFinite
    <3>2. Passed(h, now) \in 0..HourLength /\ Passed(h, now) <= Passed(h, now')
      BY <1>1, <3>1, PassedGrows
    <3>3. Passed(h, now') \in 0..HourLength
      BY <1>1, <3>1, PassedGrows
    <3>4. history[h].duration \in Int /\ history[h].duration <= Passed(h, now) * Station!Fastest
      BY DEF StationInv, RowType
    <3>5. Passed(h, now) * Station!Fastest <= Passed(h, now') * Station!Fastest
      BY <3>2, <3>3, StationAssumption, FastestIsSpeed, TimesKeepsOrder
    <3>6. /\ Passed(h, now) * Station!Fastest \in Int
          /\ Passed(h, now') * Station!Fastest \in Int
      BY <3>2, <3>3, StationAssumption, FastestIsSpeed
    <3> QED
      BY <2>5, <3>4, <3>5, <3>6
  <2> QED
    BY <1>1, <1>2, <2>3, <2>5, <2>6, <2>7, <2>8 DEF StationInv
<1>6. CASE length # 0
  <2>1. length \in 1..MaxInterval /\ k \in Nat /\ length * k = Slices
    <3>1. length \in 1..MaxInterval
      BY <1>1, <1>6, StationAssumption
    <3>2. Slices \div length \in Nat /\ length * (Slices \div length) = Slices
      BY <3>1, StationAssumption
    <3> QED
      BY <3>1, <3>2
  <2>2. ASSUME NEW h \in Station!HoursKept
        PROVE  /\ history'[h] \in RowType /\ history'[h].duration <= Passed(h, now') * Station!Fastest
               /\ RowIsFair(history'[h])
               /\ history'[h].battery - history[h].battery =
                    (flow.battery * Before(h + 1, start, length)) * k - (flow.battery * Before(h, start, length)) * k
    <3>1. history'[h] = Station!Recorded(history[h], h, flow, speed, start, now')
      BY <1>2
    <3>2. /\ start \in Nat /\ now' \in Nat /\ now <= start /\ now' - start = length
          /\ length \in 1..MaxInterval
      BY <1>1, <2>1
    <3>3. /\ flow \in FlowType /\ charge + flow.battery \in 0..Capacity
          /\ flow.solar + flow.imported >= flow.ev + flow.battery + flow.exported
      BY <1>3
    <3> QED
      BY <3>1, <3>2, <3>3, RecordedIsFair, SMTT(60)
  <2>3. history' \in [Station!HoursKept -> RowType]
    BY <1>2, <2>2
  <2>4. \A i \in 0..(LastHour + 1) : Before(i, start, length) \in Nat
    <3> SUFFICES ASSUME NEW i \in 0..(LastHour + 1) PROVE Before(i, start, length) \in Nat
      OBVIOUS
    <3>1. i * HourLength \in Int
      BY HoursAreFinite, StationAssumption
    <3> QED
      BY <1>1, <3>1 DEF Before, Station!Smaller, Station!Positive
  <2>5. Telescopes(LastHour, BatteryOf(history), BatteryOf(history'), c)
    <3>1. LastHour \in Nat /\ Station!HoursKept = 0..LastHour
      BY HoursAreFinite
    <3>2. BatteryOf(history) \in [0..LastHour -> Int] /\ BatteryOf(history') \in [0..LastHour -> Int]
      BY <2>3, <3>1 DEF BatteryOf, StationInv, RowType
    <3>3. c \in [0..(LastHour + 1) -> Int]
      BY <1>4, <2>1, <2>4
    <3>4. \A i \in 0..LastHour : BatteryOf(history')[i] - BatteryOf(history)[i] = c[i + 1] - c[i]
      BY <2>2, <3>1 DEF BatteryOf
    <3> HIDE DEF c
    <3> QED
      BY <3>1, <3>2, <3>3, <3>4 DEF Telescopes
  <2>6. c[0] = 0 /\ c[LastHour + 1] = flow.battery * Slices
    <3>1. LastHour \in Nat /\ 0 \in 0..(LastHour + 1) /\ LastHour + 1 \in 0..(LastHour + 1)
      BY HoursAreFinite
    <3>2. Before(0, start, length) = 0
      BY <1>1, StationAssumption DEF Before, Station!Smaller, Station!Positive
    <3>3. Before(LastHour + 1, start, length) = length
      <4>1. (LastHour + 1) * HourLength \in Int /\ LastTick < (LastHour + 1) * HourLength
        BY HoursAreFinite, StationAssumption
      <4> DEFINE e == (LastHour + 1) * HourLength
      <4>2. Before(LastHour + 1, start, length) = Station!Smaller(length, Station!Positive(e - start))
        BY DEF Before
      <4>3. e \in Int /\ LastTick < e /\ LastTick \in Nat
        BY <4>1, StationAssumption
      <4> HIDE DEF e
      <4>4. e - start > 0 /\ ~(e - start < length) /\ e - start \in Int
        <5>1. /\ e \in Int /\ start \in Int /\ length \in Nat /\ now' \in Int
              /\ now' - start = length /\ now' < e
          <6>1. now' \in 0..LastTick /\ LastTick \in Int /\ LastTick < e /\ e \in Int
            BY <1>1, <4>3, StationAssumption
          <6>2. \A x \in 0..LastTick : x <= LastTick /\ x \in Int
            OBVIOUS
          <6>3. \A x, y, z \in Int : x <= y /\ y < z => x < z
            OBVIOUS
          <6>4. now' < e /\ now' \in Int
            BY <6>1, <6>2, <6>3, Zenon
          <6>5. start \in Int /\ length \in Nat /\ now' - start = length
            <7>1. \A n \in Nat : n \in Int
              OBVIOUS
            <7> QED
              BY <1>1, <7>1, Zenon
          <6> QED
            BY <6>1, <6>4, <6>5, Zenon
        <5>2. \A w, x, z \in Int : \A y \in Nat :
                z - x = y /\ z < w => w - x > 0 /\ ~(w - x < y) /\ w - x \in Int
          OBVIOUS
        <5> QED
          BY <5>1, <5>2, Zenon
      <4>5. Station!Positive(e - start) = e - start
        BY <4>4 DEF Station!Positive
      <4> QED
        BY <1>1, <4>2, <4>4, <4>5 DEF Station!Smaller
    <3>4. (flow.battery * length) * k = flow.battery * (length * k)
      BY <1>1, <1>4, <2>1, TimesSpreads
    <3> QED
      BY <1>4, <2>1, <3>1, <3>2, <3>3, <3>4
  <2>7. Stored(history') = Stored(history) + flow.battery * Slices
    <3>1. c[0] = 0 /\ Stored(history') = Stored(history) + c[LastHour + 1] - c[0]
      <4> HIDE DEF c
      <4> QED
        BY <2>3, <2>5, <2>6, StoredGains DEF StationInv
    <3>2. Stored(history) \in Int
      <4>1. PICK g : /\ Accumulates(g, BatteryOf(history), Station!HoursKept)
                     /\ Stored(history) = g[Station!HoursKept]
        BY StoredAccumulates DEF StationInv
      <4> QED
        BY <4>1 DEF Accumulates
    <3>3. flow.battery * Slices \in Int
      BY <1>4, StationAssumption
    <3> HIDE DEF c
    <3> QED
      BY <2>6, <3>1, <3>2, <3>3
  <2>8. charge' * Slices = byHand' * Slices + Stored(history')
    <3>1. (charge + flow.battery) * Slices = charge * Slices + flow.battery * Slices
      <4>1. charge \in Int /\ flow.battery \in Int /\ Slices \in Int
        BY <1>1, <1>4, StationAssumption
      <4> QED
        BY <4>1, TimesSpreads, Zenon
    <3>2. charge * Slices = byHand * Slices + Stored(history) /\ byHand \in Int /\ byHand' = byHand
      BY <1>2 DEF StationInv
    <3>3. Stored(history) \in Int /\ byHand * Slices \in Int /\ flow.battery * Slices \in Int
      <4>1. PICK g : /\ Accumulates(g, BatteryOf(history), Station!HoursKept)
                     /\ Stored(history) = g[Station!HoursKept]
        BY StoredAccumulates DEF StationInv
      <4> QED
        BY <1>4, <3>2, <4>1, StationAssumption DEF Accumulates
    <3> QED
      BY <1>4, <2>7, <3>1, <3>2, <3>3
  <2> QED
    BY <1>1, <1>2, <1>3, <1>4, <2>2, <2>3, <2>8 DEF StationInv
<1> QED
  BY <1>5, <1>6

\* What is set by hand is counted as such.
LEMMA SetKeepsStation ==
    ASSUME StationInv, NEW energy \in 0..Capacity, Station!SetBattery(energy) PROVE StationInv'
<1>1. /\ charge' = energy /\ byHand' = byHand + energy - charge /\ UNCHANGED <<limits, now, history>>
      /\ charge \in Int /\ energy \in Int /\ byHand \in Int /\ Slices \in Int
  BY StationAssumption DEF StationInv, Station!SetBattery
<1>2. Stored(history) \in Int
  <2>1. PICK g : Accumulates(g, BatteryOf(history), Station!HoursKept) /\ Stored(history) = g[Station!HoursKept]
    BY StoredAccumulates DEF StationInv
  <2> QED
    BY <2>1 DEF Accumulates
<1>3. charge' * Slices = byHand' * Slices + Stored(history')
  <2>1. (byHand + energy - charge) * Slices = byHand * Slices + energy * Slices - charge * Slices
    BY <1>1, TimesSpreads
  <2>2. charge * Slices = byHand * Slices + Stored(history)
    BY DEF StationInv
  <2>3. charge * Slices \in Int /\ byHand * Slices \in Int /\ energy * Slices \in Int
    BY <1>1
  <2> QED
    BY <1>1, <1>2, <2>1, <2>2, <2>3
<1> QED
  BY <1>1, <1>3 DEF StationInv, RowIsFair

\* At the beginning nothing is recorded.
LEMMA StationBegins == Station!Init => StationInv
<1> SUFFICES ASSUME Station!Init PROVE StationInv
  OBVIOUS
<1>1. /\ charge \in 0..Capacity /\ charge \in Int /\ limits \in [min : 0..Capacity, max : 0..Capacity]
      /\ now = 0 /\ byHand = charge
      /\ history = [h \in Station!HoursKept |-> Station!EmptyRow]
  BY StationAssumption DEF Station!Init
<1>2. history \in [Station!HoursKept -> RowType] /\ \A h \in Station!HoursKept : history[h].duration = 0
  BY <1>1 DEF RowType, Station!EmptyRow
<1>3. \A h \in Station!HoursKept : RowIsFair(history[h])
  <2>1. 0 \in 0..(Capacity * Slices)
    BY StationAssumption
  <2> QED
    BY <1>1, <2>1 DEF Station!EmptyRow, RowIsFair
<1>4. \A h \in Station!HoursKept : history[h].duration <= Passed(h, now) * Station!Fastest
  <2>1. \A h \in Station!HoursKept : h \in Nat
    BY HoursAreFinite
  <2>2. \A h \in Nat : Passed(h, 0) \in 0..HourLength
    BY PassedGrows
  <2>3. \A x \in 0..HourLength : 0 <= x * Station!Fastest
    BY FastestIsSpeed, StationAssumption
  <2> QED
    BY <1>1, <1>2, <2>1, <2>2, <2>3
<1>5. Stored(history) = 0
  <2> DEFINE S == Station!HoursKept
             e == BatteryOf(history)
             zero == [R \in SUBSET S |-> 0]
  <2>1. PICK g : Accumulates(g, e, S) /\ Stored(history) = g[S]
    BY <1>2, StoredAccumulates
  <2>2. e \in [S -> Int] /\ IsFiniteSet(S) /\ \A h \in S : e[h] = 0
    BY <1>1, <1>2, HoursAreFinite DEF BatteryOf, RowType, Station!EmptyRow
  <2>3. Follows(zero, e, S)
    <3>1. ASSUME NEW R \in SUBSET S PROVE zero[R] = Summed(zero, e, R)
      <4>1. R # {} => First(R) \in R
        BY FirstIsOne
      <4>2. CASE R = {}
        BY <4>2 DEF Summed
      <4>3. CASE R # {}
        <5>1. e[First(R)] = 0 /\ zero[R \ {First(R)}] = 0
          BY <2>2, <4>1, <4>3
        <5> QED
          BY <4>3, <5>1 DEF Summed
      <4> QED
        BY <4>2, <4>3
    <3> QED
      BY <3>1 DEF Follows
  <2>4. zero[S] = 0
    OBVIOUS
  <2>5. zero[S] = g[S]
    <3> HIDE DEF zero, e, S
    <3> QED
      BY <2>1, <2>2, <2>3, SumUnique DEF Accumulates
  <2> QED
    BY <2>1, <2>4, <2>5
<1>6. charge * Slices = byHand * Slices + Stored(history)
  BY <1>1, <1>5, StationAssumption
<1> QED
  BY <1>1, <1>2, <1>3, <1>4, <1>6, StationAssumption DEF StationInv

\* Other limits of the battery change none of this.
LEMMA PolicyKeepsStation ==
    ASSUME StationInv, NEW min \in 0..Capacity, NEW max \in 0..Capacity, Station!ConfigurePolicy(min, max)
    PROVE  StationInv'
<1>1. limits' = [min |-> min, max |-> max] /\ UNCHANGED <<charge, now, history, byHand>>
  BY DEF Station!ConfigurePolicy
<1>2. limits' \in [min : 0..Capacity, max : 0..Capacity]
  BY <1>1
<1>3. Stored(history') = Stored(history)
  BY <1>1
<1> QED
  BY <1>1, <1>2, <1>3 DEF StationInv, RowIsFair

\* What the hours of a station say explains its battery's charge: the energy an
\* interval stores or takes is divided among the hours it falls in with nothing
\* left over, whatever the demo's speed; no moment of the clock is recorded twice, no
\* hour gives more than it got, and no charge is cut off at the battery's ends.
THEOREM HoursExplainTheBattery == Spec => []HoursExplainBattery
<1>1. Station!Init => StationInv
  BY StationBegins
<1>2. StationInv /\ [Station!Next]_(Station!vars) => StationInv'
  <2> SUFFICES ASSUME StationInv, [Station!Next]_(Station!vars) PROVE StationInv'
    OBVIOUS
  <2>1. CASE \E input \in Station!Inputs, elapsed \in 0..MaxElapsed, speed \in Speeds :
                Station!Advance(input, elapsed, speed)
    BY <2>1, AdvanceKeepsStation
  <2>2. CASE \E min, max \in 0..Capacity : Station!ConfigurePolicy(min, max)
    BY <2>2, PolicyKeepsStation
  <2>3. CASE \E energy \in 0..Capacity : Station!SetBattery(energy)
    BY <2>3, SetKeepsStation
  <2>4. CASE UNCHANGED Station!vars
    <3>1. UNCHANGED <<charge, limits, now, history, byHand>>
      BY <2>4 DEF Station!vars
    <3>2. Stored(history') = Stored(history)
      BY <3>1
    <3> QED
      BY <3>1, <3>2 DEF StationInv, RowIsFair
  <2> QED
    BY <2>1, <2>2, <2>3, <2>4 DEF Station!Next
<1>3. StationInv => HoursExplainBattery
  <2> SUFFICES ASSUME StationInv PROVE HoursExplainBattery
    OBVIOUS
  <2>1. charge * Slices
            = byHand * Slices + Station!FoldSet(LAMBDA h, sum : history[h].battery + sum, 0, Station!HoursKept)
    BY DEF StationInv, Stored
  <2>2. ASSUME NEW h \in Station!HoursKept
        PROVE  /\ history[h].duration <= HourLength * Station!Fastest
               /\ history[h].solar + history[h].imported
                        >= history[h].ev + history[h].battery + history[h].exported
               /\ history[h].ending \in 0..(Capacity * Slices)
    <3>1. Passed(h, now) \in 0..HourLength /\ HourLength \in Nat
      <4>1. h \in Nat /\ now \in Nat
        BY HoursAreFinite, StationAssumption DEF StationInv
      <4>2. now <= now /\ HourLength \in Nat
        BY <4>1, StationAssumption
      <4>3. Passed(h, now) \in 0..HourLength
        BY <4>1, <4>2, PassedGrows
      <4> QED
        BY <4>2, <4>3
    <3>2. history[h].duration <= Passed(h, now) * Station!Fastest /\ history[h].duration \in Int
      BY DEF StationInv, RowType
    <3>3. Passed(h, now) * Station!Fastest <= HourLength * Station!Fastest
      BY <3>1, FastestIsSpeed, TimesKeepsOrder
    <3>4. Passed(h, now) * Station!Fastest \in Int /\ HourLength * Station!Fastest \in Int
      BY <3>1, FastestIsSpeed
    <3>5. history[h].duration <= HourLength * Station!Fastest
      BY <3>2, <3>3, <3>4
    <3> QED
      BY <3>5 DEF StationInv, RowIsFair
  <2> QED
    BY <2>1, <2>2 DEF HoursExplainBattery, Station!HoursExplainBattery
<1> QED
  BY <1>1, <1>2, <1>3, StationIsThere, PTL DEF Station!Spec

=============================================================================
