------------------------------ MODULE Realtime ------------------------------
(***************************************************************************)
(* One browser and its socket: attachRealtime() (modules/realtime) with    *)
(* PlatformRuntime of the frontend (components/credit) at the other end.   *)
(*                                                                         *)
(* The server does the work of a socket one piece after the other: a       *)
(* message of the client, an event of the bus the socket was interested in *)
(* when it was published, or a check of the heartbeat.  Every piece first  *)
(* awaits the account (current()); what it read is kept in checked while   *)
(* the account and the rooms may change.                                   *)
(***************************************************************************)
EXTENDS Integers, Sequences, FiniteSets

CONSTANTS
    MaxEvents,    \* bound: events published
    MaxQueue,     \* what a socket may have pending (100)
    MaxRooms,     \* rooms a socket may be in (32)
    MaxRetries,   \* attempts to connect again (6)
    NoAccount

VARIABLES
    client,      \* "off", "token", "open", "waiting" to retry, or "stopped"
    retries,
    socket,      \* the server's end: "none", "open" (nobody yet), "user" or "closed"
    rooms, work,
    checked,     \* the account current() has read for the work at the head
    account,     \* User row: active, and whether an administrator
    token,       \* "good", "revoked" or "expired"
    verified,    \* the token was verified less than 30 seconds ago
    events,      \* what the bus has published
    delivered,   \* what the socket was sent, in order
    entitled     \* history: events the user was entitled to at some time since

realtime == <<client, retries, socket, rooms, work, checked, account, token, verified, events,
              delivered, entitled>>

\* The room of one's own session changes nothing: the user hears of it anyway.
Rooms == {"admin", "other session", "station"}

\* What an event is about: the user, somebody else's session, or a station.
Subjects == {"own session", "other session", "station"}

Init ==
    /\ client = "off" /\ retries = 0 /\ socket = "none" /\ rooms = {} /\ work = <<>>
    /\ checked = NoAccount
    /\ \E admin \in BOOLEAN : account = [active |-> TRUE, admin |-> admin]
    /\ token = "good" /\ verified = FALSE
    /\ events = <<>> /\ delivered = <<>> /\ entitled = {}

-----------------------------------------------------------------------------
(* Who may hear what *)

\* Mutant of Allowed: a room once entered is enough.
AllowedByRoom(subject, admin, joined) ==
    subject = "own session" \/ subject \in joined \/ "admin" \in joined

Allowed(subject, admin, joined) ==
    \/ subject = "own session"
    \/ admin /\ ("admin" \in joined \/ (subject = "other session" /\ subject \in joined))
    \/ subject = "station" /\ "station" \in joined

Interested(subject) == subject = "own session" \/ "admin" \in rooms \/ subject \in rooms

Joinable(room, admin) == room = "station" \/ admin

\* Who should hear: an active user, and of somebody else's session an administrator.
MayKnow(acc, subject) == acc.active /\ (subject = "other session" => acc.admin)

Due(acc) == {i \in 1..Len(events) : MayKnow(acc, events[i])}

-----------------------------------------------------------------------------
(* The server *)

Close == socket' = "closed" /\ rooms' = {} /\ work' = <<>> /\ checked' = NoAccount

Enqueue(item) ==
    IF Len(work) >= MaxQueue THEN Close
    ELSE work' = Append(work, item) /\ UNCHANGED <<socket, rooms, checked>>

\* A message of the browser: it authenticates first, the rest the user asks for.
Message(item) ==
    /\ client = "open" /\ socket \in {"open", "user"} /\ Len(work) < MaxQueue
    /\ Enqueue(item)
    /\ UNCHANGED <<client, retries, account, token, verified, events, delivered, entitled>>

Heartbeat ==
    /\ socket = "user" /\ work = <<>>
    /\ Enqueue([kind |-> "check"])
    /\ UNCHANGED <<client, retries, account, token, verified, events, delivered, entitled>>

Publish(subject) ==
    /\ Len(events) < MaxEvents
    /\ events' = Append(events, subject)
    /\ IF socket = "user" /\ Interested(subject)
       THEN Enqueue([kind |-> "event", number |-> Len(events) + 1])
       ELSE UNCHANGED <<socket, rooms, work, checked>>
    /\ entitled' = IF MayKnow(account, subject)
                   THEN entitled \cup {Len(events) + 1} ELSE entitled
    /\ UNCHANGED <<client, retries, account, token, verified, delivered>>

\* Five seconds have passed and nobody has authenticated.
AuthTimeout ==
    /\ socket = "open" /\ Close
    /\ UNCHANGED <<client, retries, account, token, verified, events, delivered, entitled>>

Authenticate ==
    /\ socket = "open" /\ work # <<>> /\ Head(work).kind = "authenticate"
    /\ IF token = "good" /\ account.active
       THEN socket' = "user" /\ verified' = TRUE /\ work' = Tail(work) /\ UNCHANGED <<rooms, checked>>
       ELSE Close /\ UNCHANGED verified
    /\ UNCHANGED <<client, retries, account, token, events, delivered, entitled>>

\* Anything but a first authentication while there is no user closes the socket.
Refuse ==
    /\ work # <<>>
    /\ \/ socket = "open" /\ Head(work).kind # "authenticate" /\ Close
       \/ /\ socket = "user" /\ Head(work).kind = "authenticate"
          /\ work' = Tail(work) /\ UNCHANGED <<socket, rooms, checked>>
    /\ UNCHANGED <<client, retries, account, token, verified, events, delivered, entitled>>

\* current(): the token, verified again every 30 seconds, and the account.
Current ==
    /\ socket = "user" /\ work # <<>> /\ Head(work).kind # "authenticate" /\ checked = NoAccount
    /\ IF token = "expired" \/ (~verified /\ token = "revoked") \/ ~account.active
       THEN Close /\ UNCHANGED verified
       ELSE verified' = TRUE /\ checked' = account /\ UNCHANGED <<socket, rooms, work>>
    /\ UNCHANGED <<client, retries, account, token, events, delivered, entitled>>

Done == work' = Tail(work) /\ checked' = NoAccount /\ UNCHANGED socket

\* A room that may not be entered is answered with an error.
Enter(room) ==
    IF Cardinality(rooms) < MaxRooms /\ Joinable(room, checked.admin) THEN rooms \cup {room} ELSE rooms

Work ==
    /\ socket = "user" /\ checked # NoAccount
    /\ LET item == Head(work)
           heard == item.kind = "event" /\ Allowed(events[item.number], checked.admin, rooms)
       IN  /\ rooms' = CASE item.kind = "subscribe"   -> Enter(item.room)
                         [] item.kind = "unsubscribe" -> rooms \ {item.room}
                         [] OTHER                     -> rooms
           /\ delivered' = IF heard THEN Append(delivered, item.number) ELSE delivered
           /\ entitled' = entitled \cup Due(account)
    /\ Done
    /\ UNCHANGED <<client, retries, account, token, verified, events>>

\* The network, a slow consumer, too many messages or a missed pong.
Drop ==
    /\ socket \in {"open", "user"} /\ Close
    /\ UNCHANGED <<client, retries, account, token, verified, events, delivered, entitled>>

-----------------------------------------------------------------------------
(* The browser *)

\* connect(): a token that has expired is replaced by a new one.
Fetch(again) ==
    /\ IF again THEN client = "waiting" ELSE client = "off"
    /\ client' = "token"
    /\ token' = IF token = "expired" THEN "good" ELSE token
    /\ UNCHANGED <<retries, socket, rooms, work, checked, account, verified, events, delivered,
                   entitled>>

\* onopen: the first message is the token.
Open ==
    /\ client = "token" /\ socket \in {"none", "closed"}
    /\ client' = "open"
    /\ socket' = "open" /\ rooms' = {} /\ checked' = NoAccount
    /\ work' = <<[kind |-> "authenticate"]>>
    /\ UNCHANGED <<retries, account, token, verified, events, delivered, entitled>>

\* onmessage, "authenticated": the retries start again.
Welcome ==
    /\ client = "open" /\ socket = "user" /\ retries > 0 /\ retries' = 0
    /\ UNCHANGED <<client, socket, rooms, work, checked, account, token, verified, events,
                   delivered, entitled>>

\* onclose: an inactive account (4403) is not tried again, anything else is, six times.
Closed(inactive) ==
    /\ \/ client = "open" /\ socket = "closed"
       \/ client = "token" /\ ~inactive
    /\ IF ~inactive /\ retries < MaxRetries
       THEN client' = "waiting" /\ retries' = retries + 1
       ELSE client' = "stopped" /\ UNCHANGED retries
    /\ UNCHANGED <<socket, rooms, work, checked, account, token, verified, events, delivered,
                   entitled>>

\* The page is left, or the user asks to connect again.
Dispose(again) ==
    /\ client # "off"
    /\ client' = (IF again THEN "off" ELSE "stopped") /\ retries' = 0
    /\ IF socket \in {"open", "user"} THEN Close ELSE UNCHANGED <<socket, rooms, work, checked>>
    /\ UNCHANGED <<account, token, verified, events, delivered, entitled>>

-----------------------------------------------------------------------------
(* The account and the token *)

Change(acc) ==
    /\ account' = acc /\ acc # account
    /\ entitled' = entitled \cup Due(acc)
    /\ UNCHANGED <<client, retries, socket, rooms, work, checked, token, verified, events, delivered>>

Clock ==
    /\ \/ token' \in {"revoked", "expired"} /\ token = "good" /\ UNCHANGED verified
       \/ verified /\ verified' = FALSE /\ UNCHANGED token
    /\ UNCHANGED <<client, retries, socket, rooms, work, checked, account, events, delivered, entitled>>

Next ==
    \/ \E room \in Rooms, kind \in {"subscribe", "unsubscribe"} :
           Message([kind |-> kind, room |-> room])
    \/ Heartbeat \/ AuthTimeout \/ Authenticate \/ Refuse \/ Current \/ Work \/ Drop
    \/ \E subject \in Subjects : Publish(subject)
    \/ \E again \in BOOLEAN : Fetch(again) \/ Closed(again) \/ Dispose(again)
    \/ Open \/ Welcome \/ Clock
    \/ \E active, admin \in BOOLEAN : Change([active |-> active, admin |-> admin])

Spec == Init /\ [][Next]_realtime

-----------------------------------------------------------------------------
\* An event reaches only someone who was entitled to it at some time since it was
\* published: a blocked user or a former administrator hears nothing of what happened
\* later, though the event was queued before and the room entered.
HeardIsDue == \A i \in 1..Len(delivered) : delivered[i] \in entitled
=============================================================================
