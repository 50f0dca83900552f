--------------------------- MODULE DeviceIngress ---------------------------
(***************************************************************************)
(* How the messages of one device reach the engine (modules/iot): the      *)
(* broker may deliver what it has not seen acknowledged again and in any   *)
(* order; receive() decides in one transaction what is accepted, and       *)
(* drain() hands the accepted rows over, each deleted once handled.        *)
(*                                                                         *)
(* What receive() turns away before its transaction - size, topic, schema, *)
(* signature, data source, a message too old or from the future - leaves   *)
(* no trace, so it is a message that is never accepted.  Every reading is  *)
(* of one bay.                                                             *)
(***************************************************************************)
EXTENDS Integers, Sequences, FiniteSets, SequencesExt

CONSTANTS
    MaxSent,    \* bound: messages the device sends
    MaxClock,   \* bound: the times of its readings
    BatchSize   \* how many rows drain() reads at a time

VARIABLES
    sender,     \* the device: its boot and its last sequence number
    carried,    \* what the broker holds of what was sent
    row,        \* Device row: bootId, lastSequence, status; Bay.lastTelemetry.at
    inboxRows,  \* DeviceInbox in order of acceptance
    working,    \* how many rows drain() has read and not deleted, the oldest
    given       \* history: the message the engine was given last, and the numbers
                \* and the times of those before it that count

ingress == <<sender, carried, row, inboxRows, working, given>>

Message(kind, boot, seq, at, online) ==
    [kind |-> kind, boot |-> boot, seq |-> seq, at |-> at, online |-> online]

NoMessage == Message("none", 0, 0, 0, TRUE)

Init ==
    /\ sender = [boot |-> 1, seq |-> 0]
    /\ carried = {} /\ inboxRows = <<>> /\ working = 0
    /\ given = [message |-> NoMessage, seq |-> 0, inOrder |-> TRUE, at |-> 0, inTime |-> TRUE]
    /\ row = [boot |-> 0, seq |-> 0, status |-> "OFFLINE", at |-> 0]

-----------------------------------------------------------------------------
(* The device and the broker *)

\* A connection, of this boot or a new one: the will, then the status, numbered on.
Connect(boot) ==
    /\ sender.seq + 2 <= MaxSent /\ boot \in {sender.boot, sender.boot + 1} \cap {1, 2}
    /\ sender' = [boot |-> boot, seq |-> sender.seq + 2]
    /\ carried' = carried \cup {Message("status", boot, sender.seq + 1, 0, FALSE),
                                Message("status", boot, sender.seq + 2, 0, TRUE)}
    /\ UNCHANGED <<row, inboxRows, working, given>>

\* The clock of the device may have been set back.
Send(kind, at, online) ==
    /\ sender.seq < MaxSent
    /\ sender' = [sender EXCEPT !.seq = @ + 1]
    /\ carried' = carried \cup {Message(kind, sender.boot, sender.seq + 1, at, online)}
    /\ UNCHANGED <<row, inboxRows, working, given>>

-----------------------------------------------------------------------------
(* receive() *)

WillMessage(m) == m.kind = "status" /\ ~m.online

\* Mutant of Fresh: the sequence number is not looked at.
FreshUnnumbered(m) ==
    /\ m.kind # "status" => m.boot = row.boot
    /\ m.kind = "telemetry" => m.at >= row.at

\* Only a status starts a boot; a reading is not older than its bay's last.
Fresh(m) ==
    /\ m.seq > row.seq
    /\ m.kind # "status" => m.boot = row.boot
    /\ m.kind = "telemetry" => m.at >= row.at

\* The last will says only that the device of this boot has gone.
ReceiveWill(m) ==
    /\ WillMessage(m) /\ m.boot = row.boot
    /\ row' = [row EXCEPT !.status = "OFFLINE"]

ReceiveMessage(m) ==
    /\ ~WillMessage(m) /\ Fresh(m)
    /\ row' = [boot |-> m.boot, seq |-> m.seq,
               at |-> IF m.kind = "telemetry" THEN m.at ELSE row.at,
               status |-> IF m.kind = "telemetry" /\ ~m.online THEN "OFFLINE" ELSE "ONLINE"]

\* A transaction that fails is not acknowledged: the broker still has the message.
Receive(m) ==
    /\ Len(inboxRows) < MaxSent
    /\ ReceiveWill(m) \/ ReceiveMessage(m)
    /\ inboxRows' = Append(inboxRows, m)
    /\ carried' \in {carried, carried \ {m}}
    /\ UNCHANGED <<sender, working, given>>

\* Turned away and acknowledged.
Drop(m) ==
    /\ IF WillMessage(m) THEN m.boot # row.boot ELSE ~Fresh(m)
    /\ carried' = carried \ {m}
    /\ UNCHANGED <<sender, row, inboxRows, working, given>>

-----------------------------------------------------------------------------
(* drain() *)

\* The draining flag lets one pass run at a time.
Drain ==
    /\ working = 0 /\ inboxRows # <<>>
    /\ working' = IF Len(inboxRows) < BatchSize THEN Len(inboxRows) ELSE BatchSize
    /\ UNCHANGED <<sender, carried, row, inboxRows, given>>

\* The engine is given a message: it is numbered, timed, or says a device is gone.
Give(m) ==
    given' = [message |-> m,
              seq |-> IF WillMessage(m) THEN given.seq ELSE m.seq,
              inOrder |-> WillMessage(m) \/ m.seq >= given.seq,
              at |-> IF m.kind = "telemetry" THEN m.at ELSE given.at,
              inTime |-> m.kind = "telemetry" => m.at >= given.at]

\* Mutant of HandleNext: the row is deleted before it is handled.
HandleNextDeleted ==
    /\ working > 0 /\ inboxRows' = Tail(inboxRows)
    /\ Give(Head(inboxRows)) \/ UNCHANGED given
    /\ working' = working - 1
    /\ UNCHANGED <<sender, carried, row>>

HandleNext ==
    /\ working > 0 /\ inboxRows' = Tail(inboxRows)
    /\ Give(Head(inboxRows))
    /\ working' = working - 1
    /\ UNCHANGED <<sender, carried, row>>

\* The handler throws, or the process dies, before or after its own transaction:
\* the rows stay, and the next pass begins with the oldest.
Abandon ==
    /\ working > 0 /\ working' = 0
    /\ Give(Head(inboxRows)) \/ UNCHANGED given
    /\ UNCHANGED <<sender, carried, row, inboxRows>>

Next ==
    \/ \E boot \in {1, 2} : Connect(boot)
    \/ \E at \in 1..MaxClock, online \in BOOLEAN : Send("telemetry", at, online)
    \/ Send("ack", 0, TRUE)
    \/ \E m \in carried : Receive(m) \/ Drop(m)
    \/ Drain \/ HandleNext \/ Abandon

Spec == Init /\ [][Next]_ingress

-----------------------------------------------------------------------------
(* What reaches the engine *)

\* The engine sees a device's messages in the order it numbered them, and readings in
\* the order of their times, whatever the broker repeats or delays; one that was
\* interrupted may be seen twice, in place.
HandledInOrder == given.inOrder /\ given.inTime

\* What is accepted is not lost: a row leaves the inbox once the engine has been given
\* it, though the handler may throw or the process stop at any point.
NothingIsLost ==
    [][\A m \in ToSet(inboxRows) \ ToSet(inboxRows') : given'.message = m]_ingress
=============================================================================
