------------------------ MODULE ChargingSystemProofs ------------------------
(***************************************************************************)
(* Proofs about ChargingSystem: what ChargingEngine promises with a free    *)
(* device it still promises with the firmware's, and power is on only for  *)
(* credit that is held as long as the controller reads no command of a     *)
(* settled session.                                                        *)
(*                                                                         *)
(* A step is a step of the controller, which is told by what becomes of    *)
(* its session and what the new messages say (LEMMA RunMoves, ObeyMoves),  *)
(* or one of the backend, which is told by which sessions it closes        *)
(* (LEMMA KeepsOpen and those after it).                                   *)
(***************************************************************************)
EXTENDS ChargingSystem, ChargingEngineControlProofs

Items(q) == {q[i] : i \in 1..Len(q)}

Ids == (Sessions \X CommandIds) \cup ({"TEST", "RESTART"} \X {0})

Commands == [id : Ids, session : Sessions \cup {None},
             type : {"START", "STOP", "TEST", "RESTART"}, limit : Nat]

Statements == [kind : {"status"}, online : BOOLEAN]
Events == [kind : {"event"}]
Measurements == [kind : {"reading"}, session : Sessions \cup {None}, relay : BOOLEAN, energy : Nat,
                 at : Nat, final : BOOLEAN, alarm : BOOLEAN]
Answers == [kind : {"ack"}, id : Ids, accepted : BOOLEAN, relay : BOOLEAN, metered : BOOLEAN]
Messages == Statements \cup Events \cup Measurements \cup Answers

\* The shape of what the controller keeps and of what is under way.
DeviceOK ==
    /\ relay \in BOOLEAN /\ alarm \in BOOLEAN
    /\ energy \in Nat /\ saved \in Nat /\ now \in Nat
    /\ active \in Sessions \cup {None}
    /\ last.accepted \in BOOLEAN
    /\ downlink \in Seq(Commands) /\ uplink \in Seq(Messages) /\ inbox \in Seq(Messages)

-----------------------------------------------------------------------------
(* Queues *)

LEMMA ItemsOfHead ==
    ASSUME NEW S, NEW q \in Seq(S), q # <<>>
    PROVE  Head(q) \in S /\ Head(q) \in Items(q)
<1>1. Len(q) \in Nat /\ Len(q) # 0 /\ Head(q) = q[1] /\ q[1] \in S
  OBVIOUS
<1>2. 1 \in 1..Len(q)
  BY <1>1
<1> QED
  BY <1>1, <1>2 DEF Items

LEMMA ItemsOfTail ==
    ASSUME NEW S, NEW q \in Seq(S), q # <<>>
    PROVE  /\ Tail(q) \in Seq(S) /\ Items(Tail(q)) \subseteq Items(q)
           /\ \A i \in 1..Len(Tail(q)) : i + 1 \in 1..Len(q) /\ i + 1 # 1 /\ Tail(q)[i] = q[i + 1]
<1>1. /\ Tail(q) \in Seq(S)
      /\ \A i \in 1..Len(Tail(q)) : i + 1 \in 1..Len(q) /\ i + 1 # 1 /\ Tail(q)[i] = q[i + 1]
  OBVIOUS
<1> QED
  BY <1>1, Zenon DEF Items

LEMMA ItemsOfAppend ==
    ASSUME NEW S, NEW q \in Seq(S), NEW m \in S
    PROVE  /\ Append(q, m) \in Seq(S) /\ Items(Append(q, m)) = Items(q) \cup {m}
           /\ Len(Append(q, m)) = Len(q) + 1 /\ Append(q, m)[Len(q) + 1] = m
           /\ \A i \in 1..Len(q) : Append(q, m)[i] = q[i]
<1> DEFINE p == Append(q, m)
<1>1. /\ p \in Seq(S) /\ Len(p) = Len(q) + 1 /\ Len(q) \in Nat
      /\ p[Len(q) + 1] = m /\ \A i \in 1..Len(q) : p[i] = q[i]
  OBVIOUS
<1>2. 1..(Len(q) + 1) = 1..Len(q) \cup {Len(q) + 1}
  BY <1>1
<1> HIDE DEF p
<1>3. Items(p) = Items(q) \cup {m}
  BY <1>1, <1>2 DEF Items
<1> QED
  BY <1>1, <1>3 DEF p

LEMMA ItemsOfJoin ==
    ASSUME NEW S, NEW q \in Seq(S), NEW r \in Seq(S)
    PROVE  q \o r \in Seq(S) /\ Items(q \o r) = Items(q) \cup Items(r)
<1> DEFINE p == q \o r
<1>1. /\ p \in Seq(S) /\ Len(p) = Len(q) + Len(r) /\ Len(q) \in Nat /\ Len(r) \in Nat
      /\ \A i \in 1..Len(p) : p[i] = IF i <= Len(q) THEN q[i] ELSE r[i - Len(q)]
  OBVIOUS
<1> HIDE DEF p
<1>2. Items(q) \subseteq Items(p)
  <2>1. \A i \in 1..Len(q) : i \in 1..Len(p) /\ p[i] = q[i]
    BY <1>1
  <2> QED
    BY <2>1 DEF Items
<1>3. Items(r) \subseteq Items(p)
  <2>1. ASSUME NEW i \in 1..Len(r) PROVE i + Len(q) \in 1..Len(p) /\ p[i + Len(q)] = r[i]
    <3>1. i + Len(q) \in 1..Len(p) /\ ~(i + Len(q) <= Len(q)) /\ (i + Len(q)) - Len(q) = i
      BY <1>1
    <3> QED
      BY <1>1, <3>1
  <2> QED
    BY <2>1, Zenon DEF Items
<1>4. Items(p) \subseteq Items(q) \cup Items(r)
  <2>1. \A i \in 1..Len(p) : \/ i \in 1..Len(q) /\ p[i] = q[i]
                             \/ i - Len(q) \in 1..Len(r) /\ p[i] = r[i - Len(q)]
    BY <1>1
  <2> QED
    BY <2>1, Zenon DEF Items
<1> QED
  BY <1>1, <1>2, <1>3, <1>4 DEF p

LEMMA MessagesJoined ==
    \A q, r \in Seq(Messages) :
        q \o r \in Seq(Messages) /\ Items(q \o r) = Items(q) \cup Items(r)
BY ItemsOfJoin

\* What stays a queue of commands or of messages.
LEMMA StaysQueue ==
    ASSUME NEW S
    PROVE  /\ <<>> \in Seq(S)
           /\ \A q \in Seq(S) : q # <<>> => Tail(q) \in Seq(S)
           /\ \A q \in Seq(S), m \in S : Append(q, m) \in Seq(S)
           /\ \A m \in S : <<m>> \in Seq(S)
OBVIOUS

LEMMA QueuesTyped ==
    /\ <<>> \in Seq(Commands) /\ <<>> \in Seq(Messages)
    /\ \A q \in Seq(Commands) : q # <<>> => Tail(q) \in Seq(Commands)
    /\ \A q \in Seq(Messages) : q # <<>> => Tail(q) \in Seq(Messages)
    /\ \A q \in Seq(Commands), m \in Commands : Append(q, m) \in Seq(Commands)
    /\ \A q \in Seq(Messages), m \in Messages : Append(q, m) \in Seq(Messages)
    /\ \A m \in Commands : <<m>> \in Seq(Commands)
BY StaysQueue, Zenon

LEMMA ItemsOfNone == Items(<<>>) = {}
<1>1. 1..Len(<<>>) = {}
  OBVIOUS
<1> QED
  BY <1>1 DEF Items

LEMMA ItemsOfOne == ASSUME NEW S, NEW m \in S PROVE <<m>> \in Seq(S) /\ Items(<<m>>) = {m}
<1>1. Len(<<m>>) = 1 /\ <<m>>[1] = m /\ 1..1 = {1} /\ <<m>> \in Seq(S)
  OBVIOUS
<1> QED
  BY <1>1 DEF Items

LEMMA ItemsOfTwo ==
    ASSUME NEW S, NEW m \in S, NEW n \in S
    PROVE  <<m, n>> \in Seq(S) /\ Items(<<m, n>>) = {m, n}
<1>1. Len(<<m, n>>) = 2 /\ <<m, n>>[1] = m /\ <<m, n>>[2] = n /\ 1..2 = {1, 2} /\ <<m, n>> \in Seq(S)
  OBVIOUS
<1> QED
  BY <1>1 DEF Items
-----------------------------------------------------------------------------
(* What a step of the controller may do *)

\* The session goes on or nothing runs, is over, or begins.
GoesOn == active' = active /\ completed' = completed /\ (relay' => relay)
Ends == active # None /\ active' = None /\ completed' = active /\ ~relay'
Begins(c) ==
    /\ active = None /\ active' = c.session /\ relay' /\ completed' = completed
    /\ c.type = "START" /\ c.session # completed
    /\ last' = [id |-> c.id, accepted |-> TRUE]

\* What a new message says is so: a reading is of the session that runs, ran or begins,
\* a final one of the session that ended, an answer is the one last given.
Tells(m) ==
    /\ m.kind = "reading" =>
          /\ m.session \in {None, active, active'}
          /\ m.final => active # None /\ m.session = active /\ active' = None
    /\ m.kind = "ack" => m.id = last'.id /\ m.accepted = last'.accepted

Says(news) ==
    /\ uplink' \in Seq(Messages)
    /\ \A m \in Items(uplink') : m \in Items(uplink) \/ m \in news

TellsTruth == \A m \in Items(uplink') : m \in Items(uplink) \/ Tells(m)

Shaped ==
    /\ relay' \in BOOLEAN /\ alarm' \in BOOLEAN
    /\ energy' \in Nat /\ saved' \in Nat /\ now' \in Nat
    /\ active' \in Sessions \cup {None}
    /\ last'.accepted \in BOOLEAN
    /\ uplink' \in Seq(Messages)

OffWhenDown == link = "down" => ~relay

LEMMA StatementsAndEvents ==
    /\ Fw!Online \in Messages /\ Fw!Will \in Messages /\ Fw!SensorFault \in Messages
    /\ Tells(Fw!Online) /\ Tells(Fw!Will) /\ Tells(Fw!SensorFault)
BY DEF Messages, Statements, Events, Fw!Online, Fw!Will, Fw!SensorFault, Tells

LEMMA AnswerMessage ==
    ASSUME NEW id \in Ids, NEW accepted \in BOOLEAN, NEW on \in BOOLEAN, NEW metered \in BOOLEAN
    PROVE  /\ Fw!Ack(id, accepted, on, metered) \in Messages
           /\ Fw!Ack(id, accepted, on, metered).kind = "ack"
           /\ Fw!Ack(id, accepted, on, metered).id = id
           /\ Fw!Ack(id, accepted, on, metered).accepted = accepted
BY DEF Messages, Answers, Fw!Ack

\* Nothing new is said, or one or two messages after what is under way.
LEMMA SaysNothing == ASSUME DeviceOK, uplink' = uplink PROVE Says({})
BY DEF DeviceOK, Says

LEMMA SaysOne ==
    ASSUME DeviceOK, NEW m \in Messages, uplink' = Append(uplink, m)
    PROVE  Says({m})
BY ItemsOfAppend DEF DeviceOK, Says

LEMMA SaysTwo ==
    ASSUME DeviceOK, NEW m \in Messages, NEW n \in Messages, uplink' = uplink \o <<m, n>>
    PROVE  Says({m, n})
<1> DEFINE r == <<m, n>>
<1>1. r \in Seq(Messages) /\ Items(r) = {m, n} /\ uplink' = uplink \o r
  BY ItemsOfTwo
<1> HIDE DEF r
<1>2. uplink \in Seq(Messages)
  BY DEF DeviceOK
<1>3. uplink' \in Seq(Messages) /\ Items(uplink') = Items(uplink) \cup {m, n}
  BY <1>1, <1>2, MessagesJoined, Zenon
<1> QED
  BY <1>3 DEF Says

LEMMA TruthOfNews ==
    ASSUME NEW news, Says(news), \A m \in news : Tells(m)
    PROVE  uplink' \in Seq(Messages) /\ TellsTruth
BY DEF Says, TellsTruth

\* The end of a session, however it comes about: the cut, its event, its final reading
\* and the answer that caused it.
LEMMA StopChargingMoves ==
    ASSUME DeviceOK, NEW before \in Seq(Messages), NEW after \in Seq(Messages),
           \A m \in Items(before) : Tells(m), \A m \in Items(after) : Tells(m),
           Fw!StopCharging(before, after)
    PROVE  /\ relay' = FALSE /\ alarm' = TRUE /\ saved' \in Nat
           /\ uplink' \in Seq(Messages) /\ TellsTruth
           /\ GoesOn \/ Ends
           /\ active' \in Sessions \cup {None}
           /\ link = "up" => active' = None
<1> DEFINE report == IF active = None THEN <<>> ELSE <<Fw!Reading(FALSE, TRUE, TRUE)>>
<1>1. relay' = FALSE /\ alarm' = TRUE /\ saved' \in Nat
  BY DEF Fw!StopCharging, DeviceOK
<1>2. /\ GoesOn \/ Ends
      /\ active' \in Sessions \cup {None}
      /\ link = "up" => active' = None
  BY <1>1 DEF Fw!StopCharging, Fw!Forget, GoesOn, Ends, DeviceOK
<1>3. CASE link # "up"
  <2>1. uplink' = uplink
    BY <1>3 DEF Fw!StopCharging
  <2> QED
    BY <1>1, <1>2, <2>1, SaysNothing, TruthOfNews
<1>4. CASE link = "up"
  <2>1. report \in Seq(Messages) /\ \A m \in Items(report) : Tells(m)
    <3>1. CASE active = None
      BY <3>1, ItemsOfNone
    <3>2. CASE active # None
      <4> DEFINE m == Fw!Reading(FALSE, TRUE, TRUE)
      <4>1. /\ m \in Messages /\ m.kind = "reading" /\ m.session = active /\ m.final = TRUE
        <5>1. energy \in Nat /\ active \in Sessions \cup {None}
          BY DEF DeviceOK
        <5>2. now \in Nat /\ TRUE \in BOOLEAN /\ FALSE \in BOOLEAN
          BY DEF DeviceOK
        <5> QED
          BY <5>1, <5>2 DEF Fw!Reading, Fw!Measured, Messages, Measurements
      <4> HIDE DEF m
      <4>2. <<m>> \in Seq(Messages) /\ Items(<<m>>) = {m}
        BY <4>1, ItemsOfOne
      <4>3. Tells(m)
        BY <1>2, <1>4, <3>2, <4>1 DEF Tells
      <4> QED
        BY <3>2, <4>2, <4>3 DEF m
    <3> QED
      BY <3>1, <3>2
  <2>2. uplink' = ((uplink \o before) \o report) \o after
    BY <1>4 DEF Fw!StopCharging
  <2> HIDE DEF report
  <2>3. /\ uplink \o before \in Seq(Messages)
        /\ Items(uplink \o before) = Items(uplink) \cup Items(before)
    BY MessagesJoined, Zenon DEF DeviceOK
  <2>4. /\ (uplink \o before) \o report \in Seq(Messages)
        /\ Items((uplink \o before) \o report) = Items(uplink) \cup Items(before) \cup Items(report)
    BY <2>1, <2>3, MessagesJoined, Zenon
  <2>5. /\ uplink' \in Seq(Messages)
        /\ Items(uplink') = Items(uplink) \cup Items(before) \cup Items(report) \cup Items(after)
    BY <2>2, <2>4, MessagesJoined, Zenon
  <2> QED
    BY <1>1, <1>2, <2>1, <2>5 DEF TellsTruth
<1> QED
  BY <1>3, <1>4
\* What every step of the controller does by itself.
RunEffect ==
    /\ Shaped /\ TellsTruth /\ OffWhenDown'
    /\ GoesOn \/ Ends
    /\ last' = last /\ downlink' \in {downlink, <<>>}

LEMMA RunMoves ==
    ASSUME DeviceOK, OffWhenDown, Fw!Run
    PROVE  RunEffect
<1> USE DEF DeviceOK
<1>1. CASE Fw!Invalid
  <2>1. Fw!StopCharging(<<>>, <<>>) /\ <<>> \in Seq(Messages) /\ Items(<<>>) = {}
    BY <1>1, ItemsOfNone DEF Fw!Invalid
  <2>2. UNCHANGED <<energy, limit, last, link, downlink, now>>
    BY <1>1 DEF Fw!Invalid
  <2> QED
    BY <2>1, <2>2, StopChargingMoves DEF RunEffect, Shaped, OffWhenDown
<1>2. CASE Fw!Deliver \/ Fw!Tick \/ Fw!Persist
  <2>1. uplink' = uplink /\ UNCHANGED <<relay, active, completed, last, link, downlink, alarm>>
    BY <1>2 DEF Fw!Deliver, Fw!Tick, Fw!Persist
  <2>2. energy' \in Nat /\ saved' \in Nat /\ now' \in Nat
    BY <1>2 DEF Fw!Deliver, Fw!Tick, Fw!Persist
  <2>3. uplink' \in Seq(Messages) /\ TellsTruth
    BY <2>1, SaysNothing, TruthOfNews
  <2> QED
    BY <2>1, <2>2, <2>3 DEF RunEffect, Shaped, GoesOn, OffWhenDown
<1>3. CASE Fw!Telemetry
  <2> DEFINE m == Fw!Reading(relay, FALSE, alarm)
  <2>1. /\ uplink' = Append(uplink, m)
        /\ UNCHANGED <<relay, active, energy, saved, completed, last, alarm, link, downlink, now>>
    BY <1>3 DEF Fw!Telemetry
  <2>2. m \in Messages /\ m.kind = "reading" /\ m.session = active /\ m.final = FALSE
    <3>1. energy \in Nat /\ active \in Sessions \cup {None} /\ relay \in BOOLEAN /\ alarm \in BOOLEAN
      OBVIOUS
    <3>2. FALSE \in BOOLEAN /\ now \in Nat
      OBVIOUS
    <3> QED
      BY <3>1, <3>2 DEF Fw!Reading, Fw!Measured, Messages, Measurements
  <2> HIDE DEF m
  <2>3. Tells(m)
    BY <2>2 DEF Tells
  <2>4. uplink' \in Seq(Messages) /\ TellsTruth
    BY <2>1, <2>2, <2>3, SaysOne, TruthOfNews
  <2> QED
    BY <2>1, <2>4 DEF RunEffect, Shaped, GoesOn, OffWhenDown
<1>4. CASE \E event \in BOOLEAN : Fw!Trip(event)
  <2>1. PICK event \in BOOLEAN : Fw!Trip(event)
    BY <1>4
  <2> DEFINE before == IF event THEN <<Fw!SensorFault>> ELSE <<>>
  <2>2. before \in Seq(Messages) /\ \A m \in Items(before) : Tells(m)
    BY ItemsOfOne, ItemsOfNone, StatementsAndEvents
  <2>3. Fw!StopCharging(before, <<>>) /\ <<>> \in Seq(Messages) /\ Items(<<>>) = {}
    BY <2>1, ItemsOfNone DEF Fw!Trip
  <2>4. UNCHANGED <<energy, limit, last, link, downlink, now>>
    BY <2>1 DEF Fw!Trip
  <2> HIDE DEF before
  <2> QED
    BY <2>2, <2>3, <2>4, StopChargingMoves DEF RunEffect, Shaped, OffWhenDown
<1>5. CASE Fw!Break
  <2>1. /\ uplink' = Append(uplink, Fw!Will) /\ link' = "broken" /\ downlink' = <<>>
        /\ UNCHANGED <<relay, active, energy, saved, completed, last, alarm, now>>
    BY <1>5 DEF Fw!Break
  <2>2. uplink' \in Seq(Messages) /\ TellsTruth
    BY <2>1, StatementsAndEvents, SaysOne, TruthOfNews
  <2> QED
    BY <2>1, <2>2 DEF RunEffect, Shaped, GoesOn, OffWhenDown
<1>6. CASE Fw!NoticeLoss
  <2>1. UNCHANGED <<energy, limit, last, downlink, now>> /\ link' = "down" /\ link = "broken"
    BY <1>6 DEF Fw!NoticeLoss
  <2>2. CASE relay \/ active # None
    <3>1. Fw!StopCharging(<<>>, <<>>) /\ <<>> \in Seq(Messages) /\ Items(<<>>) = {}
      BY <1>6, <2>2, ItemsOfNone DEF Fw!NoticeLoss
    <3> QED
      BY <2>1, <3>1, StopChargingMoves DEF RunEffect, Shaped, OffWhenDown
  <2>3. CASE ~(relay \/ active # None)
    <3>1. UNCHANGED <<relay, active, saved, completed, alarm>> /\ uplink' = uplink
      BY <1>6, <2>3 DEF Fw!NoticeLoss
    <3>2. uplink' \in Seq(Messages) /\ TellsTruth
      BY <3>1, SaysNothing, TruthOfNews
    <3> QED
      BY <2>1, <2>3, <3>1, <3>2 DEF RunEffect, Shaped, GoesOn, OffWhenDown
  <2> QED
    BY <2>2, <2>3
<1>7. CASE Fw!Connect
  <2>1. /\ link = "down" /\ link' = "up" /\ alarm' = FALSE /\ ~relay
        /\ UNCHANGED <<relay, energy, saved, limit, last, downlink, now>>
    BY <1>7 DEF Fw!Connect, OffWhenDown
  <2>2. CASE active # None
    <3> DEFINE m == Fw!Reading(FALSE, TRUE, TRUE)
    <3>1. active' = None /\ completed' = active /\ uplink' = uplink \o <<Fw!Online, m>>
      BY <1>7, <2>2 DEF Fw!Connect, Fw!Forget
    <3>2. m \in Messages /\ m.kind = "reading" /\ m.session = active /\ m.final = TRUE
      <4>1. energy \in Nat /\ now \in Nat /\ active \in Sessions \cup {None}
        BY DEF DeviceOK
      <4> QED
        BY <4>1 DEF Fw!Reading, Fw!Measured, Messages, Measurements
    <3> HIDE DEF m
    <3>3. Tells(m)
      BY <2>2, <3>1, <3>2 DEF Tells
    <3>4. Says({Fw!Online, m})
      BY <3>1, <3>2, StatementsAndEvents, SaysTwo
    <3>5. uplink' \in Seq(Messages) /\ TellsTruth
      BY <3>3, <3>4, StatementsAndEvents, TruthOfNews
    <3> QED
      BY <2>1, <2>2, <3>1, <3>5 DEF RunEffect, Shaped, Ends, OffWhenDown
  <2>3. CASE active = None
    <3>1. UNCHANGED <<active, completed>> /\ uplink' = Append(uplink, Fw!Online)
      BY <1>7, <2>3 DEF Fw!Connect
    <3>2. uplink' \in Seq(Messages) /\ TellsTruth
      BY <3>1, StatementsAndEvents, SaysOne, TruthOfNews
    <3> QED
      BY <2>1, <3>1, <3>2 DEF RunEffect, Shaped, GoesOn, OffWhenDown
  <2> QED
    BY <2>2, <2>3
<1>8. CASE Fw!PowerLoss
  <2>1. /\ relay' = FALSE /\ energy' = saved /\ alarm' = FALSE /\ link' = "down"
        /\ downlink' = <<>> /\ UNCHANGED <<active, saved, completed, last, now>>
    BY <1>8 DEF Fw!PowerLoss, Fw!Reboot
  <2>2. uplink' = Append(uplink, Fw!Will) \/ uplink' = uplink
    BY <1>8 DEF Fw!PowerLoss
  <2>3. uplink' \in Seq(Messages) /\ TellsTruth
    BY <2>2, StatementsAndEvents, SaysOne, SaysNothing, TruthOfNews
  <2> QED
    BY <2>1, <2>3 DEF RunEffect, Shaped, GoesOn, OffWhenDown
<1> QED
  BY <1>1, <1>2, <1>3, <1>4, <1>5, <1>6, <1>7, <1>8 DEF Fw!Run
\* What reading command c does.
ObeyEffect(c) ==
    /\ Shaped /\ TellsTruth /\ OffWhenDown'
    /\ GoesOn \/ Ends \/ Begins(c)
    /\ downlink' = Tail(downlink) \/ downlink' = <<>>
    /\ \/ last.id = c.id /\ last' = last /\ GoesOn
       \/ last.id # c.id /\ last'.id = c.id /\ (~last'.accepted => active' = None)

LEMMA ObeyMoves ==
    ASSUME DeviceOK, OffWhenDown, downlink # <<>>, NEW c, c = Head(downlink),
           NEW expired \in BOOLEAN, NEW plug \in BOOLEAN, Fw!Obey(c, expired, plug)
    PROVE  ObeyEffect(c)
<1> USE DEF DeviceOK
<1>1. c \in Commands
  BY ItemsOfHead
<1>2. c.id \in Ids /\ c.session \in Sessions \cup {None}
  BY <1>1 DEF Commands
<1> HIDE DEF DeviceOK
<1>3. \A accepted, on, metered \in BOOLEAN :
          LET m == Fw!Ack(c.id, accepted, on, metered)
          IN  m \in Messages /\ m.kind = "ack" /\ m.id = c.id /\ m.accepted = accepted
  BY <1>2, AnswerMessage
<1>4. (energy > 0) \in BOOLEAN /\ TRUE \in BOOLEAN /\ FALSE \in BOOLEAN
  OBVIOUS
<1>5. CASE Fw!Repeat(c)
  <2> DEFINE m == Fw!Ack(c.id, last.accepted, relay, energy > 0)
  <2>1. /\ c.id = last.id /\ uplink' = Append(uplink, m)
        /\ UNCHANGED <<relay, active, energy, saved, completed, last, alarm, link, now>>
        /\ downlink' = Tail(downlink)
    BY <1>5 DEF Fw!Repeat, Fw!Received
  <2>2. m \in Messages /\ m.kind = "ack" /\ m.id = c.id /\ m.accepted = last.accepted
    <3>1. last.accepted \in BOOLEAN /\ relay \in BOOLEAN
      BY DEF DeviceOK
    <3> QED
      BY <1>2, <3>1 DEF Fw!Ack, Messages, Answers
  <2> HIDE DEF m
  <2>3. Tells(m)
    BY <2>1, <2>2 DEF Tells
  <2>4. uplink' \in Seq(Messages) /\ TellsTruth
    BY <2>1, <2>2, <2>3, SaysOne, TruthOfNews
  <2> QED
    BY <2>1, <2>4 DEF ObeyEffect, Shaped, GoesOn, OffWhenDown, DeviceOK
<1>6. CASE Fw!Reject(c, expired, plug)
  <2> DEFINE m == Fw!Ack(c.id, FALSE, FALSE, energy > 0)
  <2>1. /\ c.id # last.id /\ last' = [id |-> c.id, accepted |-> FALSE]
        /\ Fw!StopCharging(<<>>, <<m>>) /\ link = "up"
        /\ UNCHANGED <<energy, limit, link, now>> /\ downlink' = Tail(downlink)
    BY <1>6 DEF Fw!Reject, Fw!Received
  <2>2. m \in Messages /\ m.kind = "ack" /\ m.id = c.id /\ m.accepted = FALSE
    BY <1>3, <1>4, Zenon
  <2> HIDE DEF m
  <2>3. Tells(m)
    BY <2>1, <2>2 DEF Tells
  <2>4. <<m>> \in Seq(Messages) /\ Items(<<m>>) = {m} /\ <<>> \in Seq(Messages) /\ Items(<<>>) = {}
    BY <2>2, ItemsOfOne, ItemsOfNone
  <2>5. /\ relay' = FALSE /\ alarm' = TRUE /\ saved' \in Nat
        /\ uplink' \in Seq(Messages) /\ TellsTruth
        /\ GoesOn \/ Ends
        /\ active' \in Sessions \cup {None} /\ active' = None
    BY <2>1, <2>3, <2>4, StopChargingMoves
  <2> QED
    BY <2>1, <2>5 DEF ObeyEffect, Shaped, OffWhenDown, DeviceOK
<1>7. CASE Fw!AcceptStart(c, expired, plug)
  <2> DEFINE m == Fw!Ack(c.id, TRUE, TRUE, FALSE)
             n == Fw!Measured(c.session, TRUE, 0, FALSE, FALSE)
  <2>1. /\ c.type = "START" /\ c.id # last.id /\ Fw!Admissible(c, expired, plug)
        /\ last' = [id |-> c.id, accepted |-> TRUE]
        /\ active' = c.session /\ energy' = 0 /\ saved' = 0 /\ relay' = TRUE /\ alarm' = FALSE
        /\ uplink' = uplink \o <<m, n>> /\ completed' = completed /\ link = "up"
        /\ UNCHANGED <<link, now>> /\ downlink' = Tail(downlink)
    BY <1>7 DEF Fw!AcceptStart, Fw!Accept, Fw!Received
  <2>2. active = None /\ c.session # completed
    BY <2>1 DEF Fw!Admissible, Fw!Startable
  <2>3. m \in Messages /\ m.kind = "ack" /\ m.id = c.id /\ m.accepted = TRUE
    BY <1>3, <1>4, Zenon
  <2>4. n \in Messages /\ n.kind = "reading" /\ n.session = c.session /\ n.final = FALSE
    <3>1. 0 \in Nat /\ now \in Nat
      BY DEF DeviceOK
    <3> QED
      BY <1>2, <3>1 DEF Fw!Measured, Messages, Measurements
  <2> HIDE DEF m, n
  <2>5. Tells(m) /\ Tells(n)
    BY <2>1, <2>3, <2>4 DEF Tells
  <2>6. uplink' \in Seq(Messages) /\ TellsTruth
    BY <2>1, <2>3, <2>4, <2>5, SaysTwo, TruthOfNews
  <2> QED
    BY <1>2, <2>1, <2>2, <2>6 DEF ObeyEffect, Shaped, Begins, OffWhenDown, DeviceOK
<1>8. CASE \E emergency \in BOOLEAN : Fw!AcceptStop(c, expired, emergency)
  <2>0. PICK emergency \in BOOLEAN : Fw!AcceptStop(c, expired, emergency)
    BY <1>8
  <2> DEFINE m == Fw!Ack(c.id, TRUE, FALSE, energy > 0)
             n == Fw!Reading(FALSE, TRUE, emergency)
  <2>1. /\ c.type = "STOP" /\ c.id # last.id /\ Fw!Admissible(c, expired, FALSE)
        /\ last' = [id |-> c.id, accepted |-> TRUE]
        /\ active' = None /\ completed' = active /\ energy' = energy /\ saved' = energy
        /\ relay' = FALSE /\ alarm' = emergency
        /\ uplink' = uplink \o <<m, n>> /\ link = "up"
        /\ UNCHANGED <<link, now>> /\ downlink' = Tail(downlink)
    BY <2>0 DEF Fw!AcceptStop, Fw!Accept, Fw!Received, Fw!Forget
  <2>2. active # None
    BY <2>1 DEF Fw!Admissible
  <2>3. m \in Messages /\ m.kind = "ack" /\ m.id = c.id /\ m.accepted = TRUE
    BY <1>3, <1>4, Zenon
  <2>4. n \in Messages /\ n.kind = "reading" /\ n.session = active /\ n.final = TRUE
    <3>1. energy \in Nat /\ now \in Nat /\ active \in Sessions \cup {None}
      BY DEF DeviceOK
    <3> QED
      BY <3>1 DEF Fw!Reading, Fw!Measured, Messages, Measurements
  <2> HIDE DEF m, n
  <2>5. Tells(m) /\ Tells(n)
    BY <2>1, <2>2, <2>3, <2>4 DEF Tells
  <2>6. uplink' \in Seq(Messages) /\ TellsTruth
    BY <2>1, <2>3, <2>4, <2>5, SaysTwo, TruthOfNews
  <2> QED
    BY <2>1, <2>2, <2>6 DEF ObeyEffect, Shaped, Ends, OffWhenDown, DeviceOK
<1>9. CASE Fw!AcceptTest(c, expired)
  <2> DEFINE m == Fw!Ack(c.id, TRUE, FALSE, energy > 0)
  <2>1. /\ c.id # last.id /\ last' = [id |-> c.id, accepted |-> TRUE]
        /\ uplink' = Append(uplink, m) /\ downlink' = Tail(downlink)
        /\ UNCHANGED <<relay, active, energy, saved, completed, alarm, link, now>>
    BY <1>9 DEF Fw!AcceptTest, Fw!Accept, Fw!Received
  <2>2. m \in Messages /\ m.kind = "ack" /\ m.id = c.id /\ m.accepted = TRUE
    BY <1>3, <1>4, Zenon
  <2> HIDE DEF m
  <2>3. Tells(m)
    BY <2>1, <2>2 DEF Tells
  <2>4. uplink' \in Seq(Messages) /\ TellsTruth
    BY <2>1, <2>2, <2>3, SaysOne, TruthOfNews
  <2> QED
    BY <2>1, <2>4 DEF ObeyEffect, Shaped, GoesOn, OffWhenDown, DeviceOK
<1>10. CASE Fw!AcceptRestart(c, expired)
  <2> DEFINE m == Fw!Ack(c.id, TRUE, FALSE, energy > 0)
  <2>1. /\ c.id # last.id /\ last' = [id |-> c.id, accepted |-> TRUE]
        /\ uplink' = uplink \o <<m, Fw!Will>> /\ downlink' = <<>>
        /\ relay' = FALSE /\ energy' = saved /\ alarm' = FALSE /\ link' = "down"
        /\ UNCHANGED <<active, saved, completed, now>>
    BY <1>10 DEF Fw!AcceptRestart, Fw!Reboot
  <2>2. m \in Messages /\ m.kind = "ack" /\ m.id = c.id /\ m.accepted = TRUE
    BY <1>3, <1>4, Zenon
  <2> HIDE DEF m
  <2>3. Tells(m)
    BY <2>1, <2>2 DEF Tells
  <2>4. Says({m, Fw!Will})
    BY <2>1, <2>2, StatementsAndEvents, SaysTwo
  <2>5. uplink' \in Seq(Messages) /\ TellsTruth
    BY <2>3, <2>4, StatementsAndEvents, TruthOfNews
  <2> QED
    BY <2>1, <2>5 DEF ObeyEffect, Shaped, GoesOn, OffWhenDown, DeviceOK
<1> QED
  BY <1>5, <1>6, <1>7, <1>8, <1>9, <1>10 DEF Fw!Obey
-----------------------------------------------------------------------------
(* What a step of the backend may do *)

Used(s) == Open(s) \/ session[s].completed

\* Sessions are closed only where said, opened only when new, and reasons stay.
Lively(closed) ==
    \A s \in Sessions :
        /\ Open(s)' => Open(s) \/ ~Used(s)
        /\ Open(s) /\ s \notin closed => Open(s)'
        /\ Used(s) => Used(s)'
        /\ session[s].reason # "none" => session'[s].reason = session[s].reason
        /\ ~Open(s) /\ ~Open(s)' =>
               \A k \in CommandIds : command'[s][k].status = "PENDING" => command[s][k].status = "PENDING"

Sound(closed) == IInv' /\ CInv' /\ Lively(closed)

LEMMA SoundIsMonotone ==
    ASSUME NEW few, NEW many, few \subseteq many, Sound(few)
    PROVE  Sound(many)
BY DEF Sound, Lively

LEMMA KeepsOpen == ASSUME IInv, Kept, Good PROVE Sound({})
<1>1. \A s \in Sessions : hold'[s] = "HELD" <=> hold[s] = "HELD"
  BY DEF Kept, Promise!vars
<1>2. \A s \in Sessions : Open(s)' <=> Open(s)
  BY <1>1 DEF Kept, IInv, HoldWhileOpen
<1>3. \A s \in Sessions : session[s].completed => session'[s].completed
  BY DEF Good, Orderly, ReceiptStays
<1> QED
  BY <1>2, <1>3 DEF Sound, Lively, Used, Kept, Good, Orderly, Advances, ReceiptStays

LEMMA NothingMoves == ASSUME IInv, CInv, UNCHANGED vars PROVE Sound({})
<1>1. Kept
  <2>1. ControlOK' /\ UNCHANGED <<session, hold, wallet, ledger>>
    BY DEF vars, ControlOK, IInv, TypeOK
  <2> QED
    BY <2>1, Apart DEF Kept
<1>2. Good
  BY Beside DEF vars, Posts, Good
<1> QED
  BY <1>1, <1>2, KeepsOpen

LEMMA NextIsGood == ASSUME IInv, CInv, Next PROVE IInv' /\ Good
<1>1. IInv' /\ CInv' /\ [Orderly]_vars
  BY StepIsSound, StepIsOrderly
<1>2. CASE UNCHANGED vars
  BY <1>1, <1>2, Beside DEF vars, Posts, Good
<1> QED
  BY <1>1, <1>2 DEF Good

LEMMA StartOpens ==
    ASSUME IInv, CInv, NEW s \in Sessions, NEW b \in Bays, Start(s, b)
    PROVE  Sound({})
<1>1. IInv' /\ Good
  BY NextIsGood DEF Next, Request
<1>2. hold' = [hold EXCEPT ![s] = "HELD"] /\ session[s].status = "NONE"
  BY DEF Start, Startable
<1>3. ~Open(s) /\ ~session[s].completed
  BY <1>2 DEF Open, IInv, UnusedIsClean, Unused
<1>4. Open(s)'
  BY <1>1, <1>2 DEF IInv, HoldWhileOpen, TypeOK
<1>5. \A t \in Sessions \ {s} : Open(t)' <=> Open(t)
  BY <1>1, <1>2 DEF IInv, HoldWhileOpen, TypeOK
<1>6. \A t \in Sessions : session[t].completed => session'[t].completed
  BY <1>1 DEF Good, Orderly, ReceiptStays
<1> QED
  BY <1>1, <1>3, <1>4, <1>5, <1>6 DEF Sound, Lively, Used, Good, Orderly, Advances, ReceiptStays

LEMMA FinishCloses ==
    ASSUME IInv, NEW s \in Sessions, Open(s), IInv', Good,
           NEW row \in SessionRow, NEW spent, NEW failed, Finish(s, row, spent, failed)
    PROVE  Sound({s})
<1>1. \A t \in Sessions \ {s} : hold'[t] = hold[t]
  BY DEF Finish, IInv, TypeOK
<1>2. \A t \in Sessions \ {s} : Open(t)' <=> Open(t)
  BY <1>1 DEF IInv, HoldWhileOpen
<1>3. \A t \in Sessions : session[t].completed => session'[t].completed
  BY DEF Good, Orderly, ReceiptStays
<1>4. session'[s].completed
  BY DEF Finish, IInv, TypeOK, SessionRow
<1> QED
  BY <1>2, <1>3, <1>4 DEF Sound, Lively, Used, Good, Orderly, Advances, ReceiptStays

LEMMA BackendSteps == ASSUME IInv, CInv, Backend PROVE Sound({})
<1>1. IInv' /\ Good
  BY NextIsGood DEF Backend, Next, Request, Outside
<1>2. CASE \E s \in Sessions, b \in Bays : Start(s, b)
  BY <1>2, StartOpens
<1>3. CASE \E s \in Sessions : StopRequest(s) \/ Reconcile(s)
  BY <1>1, <1>3, RequestStep, KeepsOpen
<1>4. CASE SweepLists \/ Restart \/ \E b \in Bays : ResolveFault(b)
  BY <1>1, <1>4, SurroundingStep, KeepsOpen
<1>5. CASE SweepRows
  <2>1. Kept
    BY <1>5, SurroundingStep, SweepSessionStep DEF SweepRows
  <2> QED
    BY <1>1, <2>1, KeepsOpen
<1>6. CASE TimeOuts
  BY <1>1, <1>6, TimeOutStep, KeepsOpen DEF TimeOuts
<1>7. CASE Clock
  <2>1. Kept
    BY <1>7, DispatchStep, SessionClockStep, SurroundingStep DEF Clock
  <2> QED
    BY <1>1, <2>1, KeepsOpen
<1> QED
  BY <1>2, <1>3, <1>4, <1>5, <1>6, <1>7 DEF Backend

\* What comes up: only messages of the controller's making.
LEMMA MessageKinds ==
    ASSUME NEW m \in Messages
    PROVE  /\ m.kind = "reading" => m \in Measurements
           /\ m.kind = "ack" => m \in Answers
BY DEF Messages, Statements, Events, Measurements, Answers

LEMMA IngestSteps ==
    ASSUME IInv, CInv, DeviceOK, NEW b \in Bays, NEW stale \in BOOLEAN,
           Ingest(DeviceOf[b], b, stale)
    PROVE  Sound({})
<1> DEFINE m == Head(uplink)
<1>1. m \in Messages
  BY ItemsOfHead DEF Ingest, DeviceOK
<1>2. DeviceOf[b] \in Devices
  BY EngineAssumption
<1> HIDE DEF m
<1>3. \/ UNCHANGED vars
      \/ Heartbeat(DeviceOf[b]) \/ LastWill(DeviceOf[b])
      \/ m.kind = "reading" /\ \E plug \in BOOLEAN : Report(b, plug, TRUE, m.alarm \/ m.relay)
  BY DEF Ingest, m
<1>4. CASE UNCHANGED vars
  BY <1>4, NothingMoves
<1>5. CASE Heartbeat(DeviceOf[b]) \/ LastWill(DeviceOf[b])
  <2>1. Ingress
    BY <1>2, <1>5 DEF Ingress
  <2> QED
    BY <2>1, SurroundingStep, NextIsGood, KeepsOpen DEF Next
<1>6. CASE m.kind = "reading" /\ \E plug \in BOOLEAN : Report(b, plug, TRUE, m.alarm \/ m.relay)
  <2>1. PICK plug \in BOOLEAN : Report(b, plug, TRUE, m.alarm \/ m.relay)
    BY <1>6
  <2>2. m.alarm \in BOOLEAN /\ m.relay \in BOOLEAN
    BY <1>1, <1>6, MessageKinds DEF Measurements
  <2>3. Report(b, plug, TRUE, TRUE) \/ Report(b, plug, TRUE, FALSE)
    <3>1. CASE m.alarm \/ m.relay
      BY <2>1, <3>1 DEF Report
    <3>2. CASE ~(m.alarm \/ m.relay)
      BY <2>1, <3>2 DEF Report
    <3> QED
      BY <3>1, <3>2
  <2>4. Ingress
    BY <2>3 DEF Ingress
  <2> QED
    BY <2>4, SurroundingStep, NextIsGood, KeepsOpen DEF Next
<1> QED
  BY <1>3, <1>4, <1>5, <1>6

LEMMA PublishSteps ==
    ASSUME IInv, CInv, NEW s \in Sessions, NEW k \in CommandIds, Publish(s, k)
    PROVE  Sound({})
<1>1. CASE Dispatch(s, k)
  BY <1>1, DispatchStep, NextIsGood, KeepsOpen DEF Next, Dispatches
<1>2. CASE UNCHANGED vars
  BY <1>2, NothingMoves
<1> QED
  BY <1>1, <1>2 DEF Publish

-----------------------------------------------------------------------------
(* Handling a message *)

\* The refusal of a START that says nothing flowed.
Idle(m, s) == m.kind = "ack" /\ m.id = <<s, 0>> /\ ~m.accepted /\ ~m.relay /\ ~m.metered

\* The sessions message m may close.
Settled(m) ==
    {s \in Sessions : \/ m.kind = "reading" /\ m.final /\ m.session = s
                      \/ Idle(m, s) /\ Open(s) /\ session[s].reason = "none"}

\* No command of the session is waiting to be sent (again).
Silenced(s) == \A k \in CommandIds : command[s][k].status # "PENDING"

LEMMA AnswerSteps ==
    ASSUME IInv, CInv, NEW m \in Answers, Answered(m) \/ NoAnswerDue(m)
    PROVE  Sound(Settled(m)) /\ \A s \in Sessions : Idle(m, s) /\ Open(s) => Open(s)' \/ Silenced(s)'
<1>0. Sound({}) => \A s \in Sessions : Open(s) => Open(s)'
  BY DEF Sound, Lively
<1>1. CASE NoAnswerDue(m)
  BY <1>0, <1>1, NothingMoves, SoundIsMonotone DEF NoAnswerDue
<1>2. CASE Answered(m)
  <2>1. m.accepted \in BOOLEAN /\ m.relay \in BOOLEAN /\ m.metered \in BOOLEAN /\ m.kind = "ack"
    BY DEF Answers
  <2>2. PICK s \in Sessions, k \in CommandIds :
            /\ m.id = <<s, k>>
            /\ \/ k = 0 /\ ~m.accepted /\ ~m.relay /\ ~m.metered /\ StartRefused(s)
               \/ k = 0 /\ m.accepted /\ m.relay /\ StartAccepted(s)
               \/ k = 0 /\ StartUnclear(s, m.accepted, m.relay, m.metered)
               \/ StopAnswered(s, k, m.accepted)
    BY <1>2 DEF Answered
  <2>3. CASE \/ StartAccepted(s)
             \/ StartUnclear(s, m.accepted, m.relay, m.metered)
             \/ StopAnswered(s, k, m.accepted)
    <3>1. \/ StartAccepted(s)
          \/ \E accepted, relays, metered \in BOOLEAN : StartUnclear(s, accepted, relays, metered)
          \/ \E i \in CommandIds, accepted \in BOOLEAN : StopAnswered(s, i, accepted)
      BY <2>1, <2>3
    <3>2. Kept
      BY <3>1, AcknowledgeStep
    <3>3. Good
      BY <3>1, AcknowledgeMoves
    <3> QED
      BY <1>0, <3>2, <3>3, KeepsOpen, SoundIsMonotone
  <2>4. CASE k = 0 /\ ~m.accepted /\ ~m.relay /\ ~m.metered /\ StartRefused(s)
    <3>1. Open(s) /\ session[s].status = "START_PENDING"
      BY <2>4 DEF StartRefused, Answerable, RefusalProvesIdle
    <3>2. session[s].reason = "none" /\ session[s] \in SessionRow
      BY <3>1, OpenIsKnown DEF Controlled
    <3>3. IInv' /\ Good
      BY <2>4, StartRefusedStep, StartRefusedMoves
    <3>4. s \in Settled(m)
      BY <2>1, <2>2, <2>4, <3>1, <3>2 DEF Settled, Idle
    <3> DEFINE row == [session[s] EXCEPT !.reason = "SAFETY_FAULT"]
    <3>5. row \in SessionRow /\ Finish(s, row, 0, TRUE)
      BY <2>4, <3>2 DEF StartRefused, SessionRow, Reasons
    <3> HIDE DEF row
    <3>6. Sound({s})
      BY <3>1, <3>3, <3>5, FinishCloses
    <3>7. Silenced(s)'
      <4>1. /\ command[s] \in [CommandIds -> CommandRow] /\ \A j \in CommandIds \ {0} : j \notin Stops(s)
        BY <3>1, <3>2, OpenIsKnown DEF Controlled
      <4>2. \A j \in CommandIds \ {0} : command[s][j].status = "NONE"
        BY <4>1 DEF Stops
      <4>3. command'[s] = Answer(command[s], 0, FALSE)
        BY <2>4 DEF StartRefused, IInv, TypeOK
      <4> QED
        BY <4>1, <4>2, <4>3 DEF Silenced, Answer, CommandRow
    <3>8. \A t \in Sessions : Idle(m, t) => t = s
      BY <2>2 DEF Idle
    <3> QED
      BY <3>4, <3>6, <3>7, <3>8, SoundIsMonotone
  <2> QED
    BY <2>2, <2>3, <2>4
<1> QED
  BY <1>1, <1>2

LEMMA ReadingSteps ==
    ASSUME IInv, CInv, NEW m \in Measurements, NEW b \in Bays, Applied(m, b)
    PROVE  Sound(Settled(m))
<1>1. /\ m.energy \in Nat /\ m.at \in Nat /\ m.relay \in BOOLEAN /\ m.final \in BOOLEAN
      /\ m.kind = "reading"
  BY DEF Measurements
<1>2. CASE \E s \in Sessions :
               Stray(m, s) /\ StrayReading(s, m.session # None, m.relay, m.alarm, TRUE)
  BY <1>2, StrayStep, StrayMoves, KeepsOpen, SoundIsMonotone
<1>3. CASE \E s \in Sessions : ImplausibleReading(s, m.energy, m.at, m.final, FALSE, m.alarm)
  BY <1>3, ImplausibleStep, ImplausibleMoves, KeepsOpen, SoundIsMonotone
<1>4. CASE \E s \in Sessions, trouble \in Troubles :
               RunningReading(s, m.energy, m.at, m.relay, m.final, trouble)
  BY <1>1, <1>4, RunningReadingStep, RunningReadingMoves, KeepsOpen, SoundIsMonotone
<1>5. CASE \E s \in Sessions, trouble \in Troubles :
               Names(m, s) /\ m.final /\ FinalReading(s, m.energy, m.at, trouble)
  <2>1. PICK s \in Sessions, trouble \in Troubles :
            Names(m, s) /\ m.final /\ FinalReading(s, m.energy, m.at, trouble)
    BY <1>5
  <2> DEFINE row == Judged(s, m.energy, m.at, trouble)
  <2>2. Open(s) /\ Finish(s, row, m.energy, FALSE)
    BY <2>1 DEF FinalReading
  <2>3. IInv' /\ Good
    BY <1>1, <2>1, FinalReadingStep, FinalReadingMoves
  <2>4. row \in SessionRow
    BY <1>1, <2>2, OpenIsKnown, JudgedContinues DEF Continues, Running
  <2> HIDE DEF row
  <2>5. Sound({s})
    BY <2>2, <2>3, <2>4, FinishCloses
  <2>6. s \in Settled(m)
    BY <1>1, <2>1 DEF Settled, Names
  <2> QED
    BY <2>5, <2>6, SoundIsMonotone
<1>6. CASE IgnoredReading(b)
  BY <1>6, HandleStep, HandleMoves, KeepsOpen, SoundIsMonotone
<1>7. CASE UNCHANGED vars
  BY <1>7, NothingMoves, SoundIsMonotone
<1> QED
  BY <1>2, <1>3, <1>4, <1>5, <1>6, <1>7 DEF Applied

LEMMA HandleSteps ==
    ASSUME IInv, CInv, DeviceOK, NEW b \in Bays, Handle1(b)
    PROVE  /\ Sound(Settled(Head(inbox)))
           /\ \A s \in Sessions : Idle(Head(inbox), s) /\ Open(s) => Open(s)' \/ Silenced(s)'
<1> DEFINE m == Head(inbox)
<1>0. Sound({}) => \A s \in Sessions : Open(s) => Open(s)'
  BY DEF Sound, Lively
<1>1. m \in Messages
  BY ItemsOfHead DEF Handle1, DeviceOK
<1>2. \/ m.kind = "ack" /\ (Answered(m) \/ NoAnswerDue(m))
      \/ \E kind \in {"telemetry", "event"} : HandleFault(b, kind)
      \/ \E reason \in {"REQUESTED", "SAFETY_FAULT"} : EventStop(b, reason)
      \/ m.kind = "reading" /\ Applied(m, b)
  BY DEF Handle1
<1> HIDE DEF m
<1>3. CASE \/ \E kind \in {"telemetry", "event"} : HandleFault(b, kind)
           \/ \E reason \in {"REQUESTED", "SAFETY_FAULT"} : EventStop(b, reason)
  BY <1>0, <1>3, HandleStep, HandleMoves, KeepsOpen, SoundIsMonotone DEF m
<1>4. CASE m.kind = "ack" /\ (Answered(m) \/ NoAnswerDue(m))
  BY <1>1, <1>4, MessageKinds, AnswerSteps DEF m
<1>5. CASE m.kind = "reading" /\ Applied(m, b)
  BY <1>1, <1>5, MessageKinds, ReadingSteps DEF m, Idle
<1> QED
  BY <1>2, <1>3, <1>4, <1>5

-----------------------------------------------------------------------------
(* The engine keeps its promises with this controller *)

EngineInv == IInv /\ CInv /\ DeviceOK /\ OffWhenDown

LEMMA LimitTyping == ASSUME NEW reserved \in Nat PROVE MaxEnergyOf(reserved) \in Nat
<1> DEFINE product == reserved * Unit
<1>1. product \in Nat /\ Tariff \in Nat \ {0} /\ EnergyCap \in Nat
  BY EngineAssumption
<1> HIDE DEF product
<1>2. product \div Tariff \in Nat
  BY <1>1
<1> QED
  BY <1>1, <1>2 DEF MaxEnergyOf, CreditEnergy, product

\* What Publish and Maintain put into the queue.
Published(s, k) ==
    [id |-> <<s, k>>, session |-> s, type |-> IF k = 0 THEN "START" ELSE "STOP",
     limit |-> MaxEnergyOf(session[s].reserved)]
Maintaining(type) == [id |-> <<type, 0>>, session |-> None, type |-> type, limit |-> 0]

LEMMA CommandTyping ==
    ASSUME IInv
    PROVE  /\ \A s \in Sessions, k \in CommandIds : Published(s, k) \in Commands
           /\ \A type \in {"TEST", "RESTART"} : Maintaining(type) \in Commands
<1>1. ASSUME NEW s \in Sessions, NEW k \in CommandIds PROVE Published(s, k) \in Commands
  <2>1. session[s].reserved \in Nat
    BY DEF IInv, TypeOK, SessionRow
  <2>2. MaxEnergyOf(session[s].reserved) \in Nat
    BY <2>1, LimitTyping
  <2> QED
    BY <2>2 DEF Published, Commands, Ids
<1>2. ASSUME NEW type \in {"TEST", "RESTART"} PROVE Maintaining(type) \in Commands
  BY DEF Maintaining, Commands, Ids
<1> QED
  BY <1>1, <1>2

LEMMA SystemInitIsSound == SystemInit => EngineInv
<1> SUFFICES ASSUME SystemInit PROVE EngineInv
  OBVIOUS
<1>1. IInv /\ CInv
  BY InitIsSound, InitIsControlled DEF SystemInit
<1>2. downlink \in Seq(Commands) /\ uplink \in Seq(Messages) /\ inbox \in Seq(Messages)
  BY QueuesTyped, Zenon DEF SystemInit, Fw!Init
<1>3. /\ relay = FALSE /\ alarm = FALSE /\ now = 1 /\ energy \in Nat /\ saved = energy
      /\ active = None /\ last.accepted = FALSE
  BY SystemAssumption DEF SystemInit, Fw!Init, Fw!NoAnswer
<1> QED
  BY <1>1, <1>2, <1>3 DEF EngineInv, DeviceOK, OffWhenDown

\* The steps of the composition, by what they do to the engine's side.
LEMMA SoundSteps ==
    ASSUME EngineInv, [SystemNext]_system
    PROVE  \/ Sound({}) /\ ~\E b \in Bays : Handle1(b)
           \/ \E b \in Bays : Handle1(b) /\ Sound(Settled(Head(inbox)))
<1> USE DEF EngineInv
<1>1. CASE \E b \in Bays : Handle1(b)
  BY <1>1, HandleSteps
<1>2. CASE UNCHANGED system
  BY <1>1, <1>2, NothingMoves DEF system
<1>3. CASE Backend
  BY <1>1, <1>3, BackendSteps
<1>4. CASE Controller \/ Obey
  BY <1>1, <1>4, NothingMoves DEF Controller, Obey
<1>5. CASE \E s \in Sessions, k \in CommandIds : Publish(s, k)
  BY <1>1, <1>5, PublishSteps
<1>6. CASE \E b \in Bays, type \in {"TEST", "RESTART"} : Maintain(DeviceOf[b], type)
  BY <1>1, <1>6, NothingMoves DEF Maintain
<1>7. CASE \E b \in Bays, stale \in BOOLEAN : Ingest(DeviceOf[b], b, stale)
  BY <1>1, <1>7, IngestSteps
<1> QED
  BY <1>1, <1>2, <1>3, <1>4, <1>5, <1>6, <1>7 DEF SystemNext

LEMMA DeviceSteps ==
    ASSUME EngineInv, [SystemNext]_system
    PROVE  DeviceOK' /\ OffWhenDown'
<1> USE DEF EngineInv
<1>1. CASE UNCHANGED <<controller, inbox>>
  BY <1>1 DEF controller, DeviceOK, OffWhenDown
<1>2. CASE Controller
  <2>1. RunEffect /\ inbox' = inbox
    BY <1>2, RunMoves DEF Controller
  <2>2. downlink' \in Seq(Commands)
    BY <2>1, QueuesTyped, Zenon DEF RunEffect, DeviceOK
  <2> QED
    BY <2>1, <2>2 DEF RunEffect, Shaped, DeviceOK
<1>3. CASE Obey
  <2> DEFINE c == Head(downlink)
  <2>1. downlink # <<>> /\ Expired(c) \in BOOLEAN /\ inbox' = inbox
    BY <1>3 DEF Obey, Expired
  <2>2. \E plug \in BOOLEAN : Fw!Obey(c, Expired(c), plug)
    BY <1>3 DEF Obey
  <2> HIDE DEF c
  <2>3. ObeyEffect(c)
    BY <2>1, <2>2, ObeyMoves DEF c
  <2>4. downlink' \in Seq(Commands)
    BY <2>1, <2>3, QueuesTyped, Zenon DEF ObeyEffect, DeviceOK
  <2> QED
    BY <2>1, <2>3, <2>4 DEF ObeyEffect, Shaped, DeviceOK
<1>4. CASE /\ \/ \E s \in Sessions, k \in CommandIds : Publish(s, k)
              \/ \E b \in Bays, type \in {"TEST", "RESTART"} : Maintain(DeviceOf[b], type)
           /\ UNCHANGED <<relay, active, energy, saved, limit, completed, last, pendingFinal,
                          alarm, link, uplink, now, inbox, started>>
  <2>1. \/ downlink' = downlink
        \/ \E c \in Commands : downlink' = Append(downlink, c)
        \/ \E c \in Commands : downlink' = <<c>>
    BY <1>4, CommandTyping DEF Publish, Maintain, Published, Maintaining
  <2>2. downlink' \in Seq(Commands)
    BY <2>1, QueuesTyped, Zenon DEF DeviceOK
  <2> QED
    BY <1>4, <2>2 DEF DeviceOK, OffWhenDown
<1>5. CASE \E b \in Bays, stale \in BOOLEAN : Ingest(DeviceOf[b], b, stale)
  <2> DEFINE m == Head(uplink)
  <2>1. /\ uplink # <<>> /\ uplink' = Tail(uplink)
        /\ inbox' = inbox \/ inbox' = Append(inbox, m)
        /\ UNCHANGED <<relay, active, energy, saved, limit, completed, last, pendingFinal, alarm,
                       link, downlink, now, started>>
    BY <1>5 DEF Ingest, Unchanged
  <2>2. m \in Messages
    BY <2>1, ItemsOfHead DEF DeviceOK
  <2> HIDE DEF m
  <2>3. uplink' \in Seq(Messages) /\ inbox' \in Seq(Messages)
    BY <2>1, <2>2, QueuesTyped, Zenon DEF DeviceOK
  <2> QED
    BY <2>1, <2>3 DEF DeviceOK, OffWhenDown
<1>6. CASE \E b \in Bays : Handle1(b)
  <2>1. /\ inbox # <<>> /\ (inbox' = Tail(inbox) \/ inbox' = inbox)
        /\ UNCHANGED <<relay, active, energy, saved, limit, completed, last, pendingFinal, alarm,
                       link, downlink, now, started>>
        /\ UNCHANGED uplink
    BY <1>6 DEF Handle1, Unchanged
  <2>2. inbox' \in Seq(Messages)
    BY <2>1, QueuesTyped, Zenon DEF DeviceOK
  <2> QED
    BY <2>1, <2>2 DEF DeviceOK, OffWhenDown
<1> QED
  BY <1>1, <1>2, <1>3, <1>4, <1>5, <1>6 DEF SystemNext, Backend, Parked, system

\* The engine with the firmware, the broker and the inbox between them: the holds, the
\* settlement and the stops are what they are with a device that may say anything.
THEOREM EngineHoldsInSystem == SystemSpec => []EngineInv
<1>1. SystemInit => EngineInv
  BY SystemInitIsSound
<1>2. EngineInv /\ [SystemNext]_system => EngineInv'
  <2> SUFFICES ASSUME EngineInv, [SystemNext]_system PROVE EngineInv'
    OBVIOUS
  <2>1. IInv' /\ CInv'
    BY SoundSteps DEF Sound
  <2>2. DeviceOK' /\ OffWhenDown'
    BY DeviceSteps
  <2> QED
    BY <2>1, <2>2 DEF EngineInv
<1> QED
  BY <1>1, <1>2, PTL DEF SystemSpec

-----------------------------------------------------------------------------
(* Power is on for credit that is held *)

Coming == Items(inbox) \cup Items(uplink)

\* The controller's own: it is on for one open session that it has not reported ended.
PowerInv ==
    /\ relay => active # None
    /\ active # None => active \in Sessions /\ Open(active) /\ active # completed

Maintenance(c) == c.type \in {"TEST", "RESTART"} /\ c.session = None /\ c.id = <<c.type, 0>>

\* A command on its way is of a session that was started, and a STOP of one that has
\* a reason to stop.
Due(c) ==
    /\ c.session \in Sessions /\ Used(c.session)
    /\ \/ c.type = "START" /\ c.id = <<c.session, 0>>
       \/ /\ c.type = "STOP" /\ \E k \in CommandIds \ {0} : c.id = <<c.session, k>>
          /\ Open(c.session) => session[c.session].reason # "none"

\* Maintenance waits alone in front, and only while no open session has been answered.
WaitInv ==
    /\ \A c \in Items(downlink) : Maintenance(c) \/ Due(c)
    /\ \A i \in 1..Len(downlink) : Maintenance(downlink[i]) => i = 1
    /\ \A c \in Items(downlink) :
           Maintenance(c) => \A s \in Sessions : Open(s) => last.id # <<s, 0>>

\* A final reading that will settle a session is of the one completed last.
FinalInv ==
    \A m \in Coming, s \in Sessions :
        m.kind = "reading" /\ m.final /\ m.session = s /\ Open(s) => completed = s

\* A refusal that will release a hold is what the START would be answered again.
RefusalInv ==
    /\ \A s \in Sessions : last.id = <<s, 0>> /\ ~last.accepted => active # s
    /\ \A m \in Coming, s \in Sessions :
           Idle(m, s) /\ Open(s) /\ session[s].reason = "none" => last.id = <<s, 0>> /\ ~last.accepted

\* Whatever the controller speaks of was started.
UsedInv ==
    /\ \A m \in Coming, s \in Sessions :
           /\ m.kind = "reading" /\ m.session = s => Used(s)
           /\ m.kind = "ack" => \A k \in CommandIds : m.id = <<s, k>> => Used(s)
    /\ \A s \in Sessions, k \in CommandIds : last.id = <<s, k>> => Used(s)
    /\ \A s \in Sessions : started[s] => Used(s)

\* A session that has had power and is open has it still, or was completed last.
OnceInv == \A s \in Sessions : started[s] /\ Open(s) => active = s \/ completed = s

\* The only session there has been: once it is closed without having been completed, its
\* START is not sent again, and what is on its way of it has been answered.
Spent(s) == ~Open(s) /\ completed # s /\ \A t \in Sessions : Used(t) => t = s
SpentInv ==
    \A s \in Sessions : Spent(s) =>
        /\ Silenced(s)
        /\ \A c \in Items(downlink) : c.session = s => c.id = last.id
        /\ \A c, e \in Items(downlink) : Maintenance(c) => e.session # s

PaidInv == PowerInv /\ WaitInv /\ FinalInv /\ RefusalInv /\ UsedInv /\ OnceInv /\ SpentInv

Reads ==
    Obey => LET c == Head(downlink)
            IN  c.session \in Sessions =>
                    \/ Open(c.session) \/ c.id = last.id
                    \/ \A s \in Sessions : session[s].status # "NONE" => s = c.session

\* One bay has one open session.
LEMMA OneOpen ==
    ASSUME IInv, NEW s \in Sessions, NEW t \in Sessions, Open(s), Open(t)
    PROVE  s = t
<1>1. session[s].bay \in Bays /\ session[t].bay \in Bays
  BY OpenIsRunning
<1>2. session[s].bay = session[t].bay
  BY <1>1, SystemAssumption
<1> QED
  BY <1>2 DEF IInv, OneOpenSession

LEMMA UnusedOrUsed ==
    ASSUME IInv, CInv, NEW s \in Sessions, session[s].status # "NONE"
    PROVE  Used(s)
BY DEF CInv, ClosedIsDone, Used, Open

\* A step of the backend, which reads and perhaps drops what has come.
LEMMA BackendKeepsPaid ==
    ASSUME EngineInv, PaidInv, NEW closed, Lively(closed),
           UNCHANGED <<relay, active, completed, last, downlink, started>>,
           Coming' \subseteq Coming,
           active \in Sessions => active \notin closed,
           \A s \in closed : Open(s) /\ ~Open(s)' =>
               \/ completed = s
               \/ Silenced(s)' /\ last.id = <<s, 0>> /\ session[s].reason = "none"
    PROVE  PaidInv'
<1>1. /\ \A s \in Sessions : Used(s) => Used(s)'
      /\ \A s \in Sessions : Used(s) /\ Open(s)' => Open(s)
      /\ \A s \in Sessions : Open(s)' /\ Used(s) /\ session'[s].reason = "none" =>
                                 session[s].reason = "none"
  BY DEF Lively
<1>2. PowerInv'
  BY DEF PaidInv, PowerInv, Lively
<1>3. WaitInv'
  <2>1. ASSUME NEW c \in Items(downlink) PROVE Maintenance(c) \/ Due(c)'
    BY <1>1 DEF PaidInv, WaitInv, Due, Lively
  <2>2. \A c \in Items(downlink) : Maintenance(c) => \A s \in Sessions : Open(s)' => last.id # <<s, 0>>
    <3>1. 0 \in CommandIds
      BY StopIds
    <3> QED
      BY <1>1, <3>1 DEF PaidInv, WaitInv, UsedInv
  <2>3. Items(downlink)' = Items(downlink)
    BY DEF Items
  <2> QED
    BY <2>1, <2>2, <2>3 DEF PaidInv, WaitInv, Maintenance
<1>4. FinalInv'
  BY <1>1 DEF PaidInv, FinalInv, UsedInv
<1>5. RefusalInv'
  BY <1>1, StopIds DEF PaidInv, RefusalInv, UsedInv, Idle
<1>6. UsedInv'
  BY <1>1 DEF PaidInv, UsedInv
<1>7. OnceInv'
  BY <1>1 DEF PaidInv, OnceInv, UsedInv
<1>8. SpentInv'
  <2>1. ASSUME NEW s \in Sessions, Spent(s)'
        PROVE  /\ Silenced(s)'
               /\ \A c \in Items(downlink) : c.session = s => c.id = last.id
               /\ \A c, e \in Items(downlink) : Maintenance(c) => e.session # s
    <3>1. ~Open(s)' /\ completed # s /\ \A t \in Sessions : Used(t) => t = s
      BY <1>1, <2>1 DEF Spent
    <3>2. CASE ~Open(s)
      <4>1. Spent(s)
        BY <3>1, <3>2 DEF Spent
      <4>2. Silenced(s)'
        BY <3>1, <3>2, <4>1 DEF PaidInv, SpentInv, Silenced, Lively
      <4> QED
        BY <4>1, <4>2 DEF PaidInv, SpentInv
    <3>3. CASE Open(s)
      <4>1. s \in closed
        BY <3>1, <3>3 DEF Lively
      <4>2. Silenced(s)' /\ last.id = <<s, 0>> /\ session[s].reason = "none"
        BY <3>1, <3>3, <4>1
      <4>3. \A c \in Items(downlink) : ~Maintenance(c)
        BY <3>3, <4>2 DEF PaidInv, WaitInv
      <4>4. \A c \in Items(downlink) : c.session = s => c.id = <<s, 0>>
        BY <3>3, <4>2, <4>3 DEF PaidInv, WaitInv, Due
      <4> QED
        BY <4>2, <4>3, <4>4
    <3> QED
      BY <3>2, <3>3
  <2>2. Items(downlink)' = Items(downlink)
    BY DEF Items
  <2> QED
    BY <2>1, <2>2 DEF SpentInv, Maintenance
<1> QED
  BY <1>2, <1>3, <1>4, <1>5, <1>6, <1>7, <1>8 DEF PaidInv

\* A step of the controller that ends, begins or leaves its session and tells the truth.
LEMMA ControllerKeepsPaid ==
    ASSUME EngineInv, PaidInv, UNCHANGED <<vars, inbox>>, TellsTruth, PowerInv',
           GoesOn \/ Ends \/ (active = None /\ completed' = completed),
           \A s \in Sessions :
               Open(s) /\ session[s].reason = "none" /\ last.id = <<s, 0>> => last' = last,
           \A s \in Sessions : last'.id = <<s, 0>> /\ ~last'.accepted => active' # s,
           \A s \in Sessions, k \in CommandIds : last'.id = <<s, k>> => Used(s),
           \A s \in Sessions : started'[s] => started[s] \/ active' = s
    PROVE  FinalInv' /\ RefusalInv' /\ UsedInv' /\ OnceInv'
<1>1. /\ \A s \in Sessions : (Open(s)' <=> Open(s)) /\ (Used(s)' <=> Used(s))
      /\ session' = session /\ Items(inbox)' = Items(inbox)
  BY DEF vars, Open, Used, Items
<1>2. \A m \in Coming' : m \in Coming \/ Tells(m)
  BY <1>1 DEF Coming, TellsTruth, Items
<1>3. None \notin Sessions
  BY SystemAssumption
<1>4. active # None => active \in Sessions /\ Open(active) /\ active # completed
  BY DEF PaidInv, PowerInv
<1>5. active' # None => active' \in Sessions /\ Open(active')
  BY <1>1 DEF PowerInv, Open
<1>6. \A s, t \in Sessions : Open(s) /\ Open(t) => s = t
  BY OneOpen DEF EngineInv
<1>7. \A s \in Sessions : Open(s) /\ completed = s => completed' = s
  BY <1>4, <1>6 DEF GoesOn, Ends
<1>8. FinalInv'
  <2>1. ASSUME NEW m \in Coming', NEW s \in Sessions,
               m.kind = "reading", m.final, m.session = s, Open(s)
        PROVE  completed' = s
    <3>1. CASE m \in Coming
      BY <1>7, <2>1, <3>1 DEF PaidInv, FinalInv
    <3>2. CASE Tells(m)
      BY <1>4, <2>1, <3>2 DEF Tells, GoesOn, Ends
    <3> QED
      BY <1>2, <3>1, <3>2
  <2> QED
    BY <1>1, <2>1 DEF FinalInv
<1>9. RefusalInv'
  <2>1. ASSUME NEW m \in Coming', NEW s \in Sessions,
               Idle(m, s), Open(s), session[s].reason = "none"
        PROVE  last'.id = <<s, 0>> /\ ~last'.accepted
    <3>1. CASE m \in Coming
      BY <2>1, <3>1 DEF PaidInv, RefusalInv
    <3>2. CASE Tells(m)
      BY <2>1, <3>2 DEF Tells, Idle
    <3> QED
      BY <1>2, <3>1, <3>2
  <2> QED
    BY <1>1, <2>1 DEF RefusalInv
<1>10. UsedInv'
  <2>1. ASSUME NEW m \in Coming', NEW s \in Sessions
        PROVE  /\ m.kind = "reading" /\ m.session = s => Used(s)
               /\ m.kind = "ack" => \A k \in CommandIds : m.id = <<s, k>> => Used(s)
    <3>1. CASE m \in Coming
      BY <3>1 DEF PaidInv, UsedInv
    <3>2. CASE Tells(m)
      BY <1>3, <1>4, <1>5, <3>2 DEF Tells, Used
    <3> QED
      BY <1>2, <3>1, <3>2
  <2>2. \A s \in Sessions : started'[s] => Used(s)
    BY <1>3, <1>5 DEF PaidInv, UsedInv, Used
  <2> QED
    BY <1>1, <2>1, <2>2 DEF UsedInv
<1>11. OnceInv'
  <2>1. ASSUME NEW s \in Sessions, started'[s], Open(s) PROVE active' = s \/ completed' = s
    <3>1. active = s \/ completed = s \/ active' = s
      BY <2>1 DEF PaidInv, OnceInv
    <3>2. CASE active = s
      BY <1>3, <3>2 DEF GoesOn, Ends
    <3> QED
      BY <1>7, <2>1, <3>1, <3>2
  <2> QED
    BY <1>1, <2>1 DEF OnceInv
<1> QED
  BY <1>8, <1>9, <1>10, <1>11

\* What waits after the controller has read a command, or lost what waited.
LEMMA WaitingIsLess ==
    ASSUME EngineInv, PaidInv, UNCHANGED vars,
           \/ downlink' = downlink /\ last' = last
           \/ downlink' = <<>>
           \/ downlink # <<>> /\ downlink' = Tail(downlink)
    PROVE  WaitInv' /\ Items(downlink') \subseteq Items(downlink)
<1>1. \A s \in Sessions : (Open(s)' <=> Open(s)) /\ (Used(s)' <=> Used(s)) /\ session' = session
  BY DEF vars, Open, Used
<1>2. \A c : (Maintenance(c)' <=> Maintenance(c)) /\ (Due(c)' <=> Due(c))
  BY <1>1 DEF Maintenance, Due
<1>3. CASE downlink' = downlink /\ last' = last
  BY <1>1, <1>2, <1>3 DEF PaidInv, WaitInv, Items
<1>4. CASE downlink' = <<>>
  <2>1. Items(downlink') = {} /\ 1..Len(downlink') = {}
    BY <1>4, ItemsOfNone
  <2> QED
    BY <2>1 DEF WaitInv, Items
<1>5. CASE downlink # <<>> /\ downlink' = Tail(downlink)
  <2>1. /\ Items(downlink') \subseteq Items(downlink)
        /\ \A i \in 1..Len(downlink') :
               i + 1 \in 1..Len(downlink) /\ i + 1 # 1 /\ downlink'[i] = downlink[i + 1]
    BY <1>5, ItemsOfTail DEF EngineInv, DeviceOK
  <2>2. \A i \in 1..Len(downlink') : ~Maintenance(downlink'[i])
    BY <2>1 DEF PaidInv, WaitInv
  <2>3. \A c \in Items(downlink') : ~Maintenance(c)
    BY <2>2 DEF Items
  <2>4. \A c \in Items(downlink') : Due(c)
    BY <2>1, <2>3 DEF PaidInv, WaitInv
  <2> QED
    BY <1>2, <2>1, <2>2, <2>3, <2>4 DEF WaitInv, Items
<1> QED
  BY <1>3, <1>4, <1>5

LEMMA SpentStays ==
    ASSUME EngineInv, PaidInv, UNCHANGED vars, Items(downlink') \subseteq Items(downlink),
           GoesOn \/ Ends \/ (active = None /\ completed' = completed),
           \A s \in Sessions :
               Spent(s) => last' = last \/ \A c \in Items(downlink') : c.session # s
    PROVE  SpentInv'
<1>1. /\ \A s \in Sessions : (Open(s)' <=> Open(s)) /\ (Used(s)' <=> Used(s))
      /\ command' = command /\ Items(downlink)' = Items(downlink')
  BY DEF vars, Open, Used, Items
<1>2. ASSUME NEW s \in Sessions, Spent(s)'
      PROVE  /\ Silenced(s)
             /\ \A c \in Items(downlink') : c.session = s => c.id = last'.id
             /\ \A c, e \in Items(downlink') : Maintenance(c) => e.session # s
  <2>1. ~Open(s) /\ completed' # s /\ \A t \in Sessions : Used(t) => t = s
    BY <1>1, <1>2 DEF Spent
  <2>2. ~Ends
    <3>1. active # None => active \in Sessions /\ Open(active) /\ Used(active)
      BY DEF PaidInv, PowerInv, Used
    <3> QED
      BY <2>1, <3>1 DEF Ends
  <2>3. Spent(s)
    BY <2>1, <2>2 DEF Spent, GoesOn
  <2> QED
    BY <2>3 DEF PaidInv, SpentInv
<1> QED
  BY <1>1, <1>2 DEF SpentInv, Silenced, Maintenance

LEMMA RunKeepsPaid ==
    ASSUME EngineInv, PaidInv, Controller
    PROVE  PaidInv'
<1>1. RunEffect /\ UNCHANGED <<vars, inbox, started>>
  BY RunMoves DEF Controller, EngineInv
<1>2. PowerInv'
  <2>1. \A s \in Sessions : Open(s)' <=> Open(s)
    BY <1>1 DEF vars, Open
  <2> QED
    BY <1>1, <2>1 DEF RunEffect, GoesOn, Ends, PaidInv, PowerInv, Open
<1>3. FinalInv' /\ RefusalInv' /\ UsedInv' /\ OnceInv'
  <2>1. \A s \in Sessions : last'.id = <<s, 0>> /\ ~last'.accepted => active' # s
    BY <1>1, SystemAssumption DEF RunEffect, GoesOn, Ends, PaidInv, RefusalInv
  <2> QED
    BY <1>1, <1>2, <2>1, ControllerKeepsPaid DEF RunEffect, PaidInv, UsedInv
<1>4. WaitInv' /\ Items(downlink') \subseteq Items(downlink)
  BY <1>1, WaitingIsLess DEF RunEffect
<1>5. SpentInv'
  BY <1>1, <1>4, SpentStays DEF RunEffect
<1> QED
  BY <1>2, <1>3, <1>4, <1>5 DEF PaidInv

\* Reading a command: the one answered last, maintenance, or one of the open session.
LEMMA ObeyKeepsPaid ==
    ASSUME EngineInv, PaidInv, Obey, Reads
    PROVE  PaidInv'
<1> DEFINE c == Head(downlink)
<1>1. /\ downlink # <<>> /\ Expired(c) \in BOOLEAN /\ UNCHANGED <<vars, inbox>>
      /\ started' = [s \in Sessions |-> started[s] \/ (active' = s /\ active # s)]
  BY DEF Obey, Expired
<1>2. c \in Items(downlink)
  BY <1>1, ItemsOfHead DEF EngineInv, DeviceOK
<1>3. c.session \in Sessions =>
          \/ Open(c.session) \/ c.id = last.id
          \/ \A s \in Sessions : session[s].status # "NONE" => s = c.session
  BY DEF Reads
<1>4. \E plug \in BOOLEAN : Fw!Obey(c, Expired(c), plug)
  BY DEF Obey
<1> HIDE DEF c
<1>5. ObeyEffect(c)
  BY <1>1, <1>4, ObeyMoves DEF EngineInv, c
<1>6. None \notin Sessions /\ {"TEST", "RESTART"} \cap Sessions = {}
  BY SystemAssumption
<1>7. Maintenance(c) \/ Due(c)
  BY <1>2 DEF PaidInv, WaitInv
<1>8. ASSUME c.id # last.id, Due(c)
       PROVE  Open(c.session) \/ (completed = c.session /\ \A t \in Sessions : ~Open(t))
  <2>1. CASE ~Open(c.session)
    <3>1. \A s \in Sessions : session[s].status # "NONE" => s = c.session
      BY <1>3, <1>8, <2>1 DEF Due
    <3>2. \A s \in Sessions : Used(s) => s = c.session
      BY <3>1 DEF Used, Open, EngineInv, IInv, UnusedIsClean, Unused
    <3>3. ~Spent(c.session)
      BY <1>2, <1>8 DEF PaidInv, SpentInv, Due
    <3>4. \A t \in Sessions : ~Open(t)
      BY <2>1, <3>2 DEF Used
    <3> QED
      BY <2>1, <3>2, <3>3, <3>4 DEF Spent
  <2> QED
    BY <2>1
<1>9. \A s \in Sessions : Open(s)' <=> Open(s)
  BY <1>1 DEF vars, Open
<1>10. PowerInv'
  <2>1. CASE GoesOn \/ Ends
    BY <1>9, <2>1 DEF GoesOn, Ends, PaidInv, PowerInv
  <2>2. CASE Begins(c) /\ last.id # c.id
    <3>1. c.session \in Sessions /\ Open(c.session)
      BY <1>7, <1>8, <2>2 DEF Begins, Maintenance, Due
    <3> QED
      BY <1>6, <1>9, <2>2, <3>1 DEF Begins, PowerInv
  <2> QED
    BY <1>5, <2>1, <2>2 DEF ObeyEffect
<1>11. FinalInv' /\ RefusalInv' /\ UsedInv' /\ OnceInv'
  <2>1. ASSUME NEW s \in Sessions, Open(s), session[s].reason = "none", last.id = <<s, 0>>
        PROVE  last' = last
    <3>1. CASE last.id = c.id
      BY <1>5, <3>1 DEF ObeyEffect
    <3>2. CASE last.id # c.id
      <4>1. ~Maintenance(c)
        BY <1>2, <2>1 DEF PaidInv, WaitInv
      <4>2. Due(c) /\ c.session \in Sessions /\ Open(c.session)
        BY <1>7, <1>8, <2>1, <3>2, <4>1 DEF Due
      <4>3. c.session = s
        BY <2>1, <4>2, OneOpen DEF EngineInv
      <4> QED
        BY <2>1, <3>2, <4>2, <4>3 DEF Due
    <3> QED
      BY <3>1, <3>2
  <2>2. \A s \in Sessions : last'.id = <<s, 0>> /\ ~last'.accepted => active' # s
    BY <1>5, <1>6 DEF ObeyEffect, GoesOn, PaidInv, RefusalInv
  <2>3. ASSUME NEW s \in Sessions, NEW k \in CommandIds, last'.id = <<s, k>>
        PROVE  Used(s)
    <3>1. CASE last' = last
      BY <2>3, <3>1 DEF PaidInv, UsedInv
    <3>2. CASE last'.id = c.id
      BY <1>6, <1>7, <2>3, <3>2 DEF Maintenance, Due
    <3> QED
      BY <1>5, <3>1, <3>2 DEF ObeyEffect
  <2>4. TellsTruth /\ (GoesOn \/ Ends \/ (active = None /\ completed' = completed))
    BY <1>5 DEF ObeyEffect, Begins
  <2>5. \A s \in Sessions : started'[s] => started[s] \/ active' = s
    BY <1>1
  <2> QED
    BY <1>1, <1>10, <2>1, <2>2, <2>3, <2>4, <2>5, ControllerKeepsPaid
<1>12. WaitInv' /\ Items(downlink') \subseteq Items(downlink)
  BY <1>1, <1>5, WaitingIsLess DEF ObeyEffect
<1>13. SpentInv'
  <2>1. ASSUME NEW s \in Sessions, Spent(s)
        PROVE  last' = last \/ \A e \in Items(downlink') : e.session # s
    <3>1. CASE Maintenance(c)
      BY <1>2, <1>12, <2>1, <3>1 DEF PaidInv, SpentInv
    <3>2. CASE Due(c)
      <4>1. c.session = s /\ c.id = last.id
        BY <1>2, <2>1, <3>2 DEF Due, Spent, PaidInv, SpentInv
      <4> QED
        BY <1>5, <4>1 DEF ObeyEffect
    <3> QED
      BY <1>7, <3>1, <3>2
  <2>2. GoesOn \/ Ends \/ (active = None /\ completed' = completed)
    BY <1>5 DEF ObeyEffect, Begins
  <2> QED
    BY <1>1, <1>12, <2>1, <2>2, SpentStays
<1> QED
  BY <1>10, <1>11, <1>12, <1>13 DEF PaidInv

\* The queues the backend reads from hold less, or the same in the other order.
LEMMA ComingShrinks ==
    ASSUME EngineInv,
           \/ UNCHANGED <<inbox, uplink>>
           \/ inbox # <<>> /\ inbox' = Tail(inbox) /\ uplink' = uplink
           \/ /\ uplink # <<>> /\ uplink' = Tail(uplink)
              /\ inbox' = inbox \/ inbox' = Append(inbox, Head(uplink))
    PROVE  Coming' \subseteq Coming
<1>1. CASE UNCHANGED <<inbox, uplink>>
  BY <1>1 DEF Coming, Items
<1>2. CASE inbox # <<>> /\ inbox' = Tail(inbox) /\ uplink' = uplink
  <2>1. Items(inbox') \subseteq Items(inbox)
    BY <1>2, ItemsOfTail DEF EngineInv, DeviceOK
  <2> QED
    BY <1>2, <2>1 DEF Coming, Items
<1>3. CASE /\ uplink # <<>> /\ uplink' = Tail(uplink)
           /\ inbox' = inbox \/ inbox' = Append(inbox, Head(uplink))
  <2> DEFINE m == Head(uplink)
  <2>1. m \in Messages /\ m \in Items(uplink) /\ Items(uplink') \subseteq Items(uplink)
    BY <1>3, ItemsOfHead, ItemsOfTail DEF EngineInv, DeviceOK
  <2>2. inbox' = inbox \/ inbox' = Append(inbox, m)
    BY <1>3
  <2> HIDE DEF m
  <2>3. Items(inbox') \subseteq Items(inbox) \cup {m}
    <3>1. CASE inbox' = inbox
      BY <3>1 DEF Items
    <3>2. CASE inbox' = Append(inbox, m)
      <4>1. inbox \in Seq(Messages)
        BY DEF EngineInv, DeviceOK
      <4> QED
        BY <2>1, <3>2, <4>1, ItemsOfAppend
    <3> QED
      BY <2>2, <3>1, <3>2
  <2> QED
    BY <2>1, <2>3 DEF Coming, Items
<1> QED
  BY <1>1, <1>2, <1>3

\* Handling a message that settles the session whose it is.
LEMMA HandleKeepsPaid ==
    ASSUME EngineInv, PaidInv, NEW b \in Bays, Handle1(b), Sound(Settled(Head(inbox))),
           \A s \in Sessions : Idle(Head(inbox), s) /\ Open(s) => Open(s)' \/ Silenced(s)'
    PROVE  PaidInv'
<1> DEFINE m == Head(inbox)
<1>1. /\ inbox # <<>> /\ (inbox' = Tail(inbox) \/ inbox' = inbox)
      /\ UNCHANGED <<relay, active, completed, last, downlink, started, uplink>>
  BY DEF Handle1, Unchanged
<1>2. m \in Coming
  BY <1>1, ItemsOfHead DEF EngineInv, DeviceOK, Coming
<1>3. Coming' \subseteq Coming
  BY <1>1, ComingShrinks
<1> HIDE DEF m
<1>4. ASSUME active \in Sessions PROVE active \notin Settled(m)
  <2>1. Open(active) /\ active # completed
    BY <1>4, SystemAssumption DEF PaidInv, PowerInv
  <2>2. ~(m.kind = "reading" /\ m.final /\ m.session = active)
    BY <1>2, <1>4, <2>1 DEF PaidInv, FinalInv
  <2>3. ~(Idle(m, active) /\ Open(active) /\ session[active].reason = "none")
    BY <1>2, <1>4, <2>1 DEF PaidInv, RefusalInv
  <2> QED
    BY <2>2, <2>3 DEF Settled
<1>5. ASSUME NEW s \in Settled(m), Open(s), ~Open(s)'
      PROVE  \/ completed = s
             \/ Silenced(s)' /\ last.id = <<s, 0>> /\ session[s].reason = "none"
  <2>1. CASE m.kind = "reading" /\ m.final /\ m.session = s
    BY <1>2, <1>5, <2>1 DEF PaidInv, FinalInv, Settled
  <2>2. CASE Idle(m, s) /\ session[s].reason = "none"
    <3>1. s \in Sessions /\ last.id = <<s, 0>>
      BY <1>2, <1>5, <2>2 DEF PaidInv, RefusalInv, Settled
    <3>2. Silenced(s)'
      BY <1>5, <2>2, <3>1 DEF m
    <3> QED
      BY <2>2, <3>1, <3>2
  <2> QED
    BY <1>5, <2>1, <2>2 DEF Settled
<1> QED
  BY <1>1, <1>3, <1>4, <1>5, BackendKeepsPaid DEF Sound, m

\* A command put into the queue.
LEMMA PublishKeepsPaid ==
    ASSUME EngineInv, PaidInv, NEW s \in Sessions, NEW k \in CommandIds, Publish(s, k), Sound({}),
           UNCHANGED <<relay, active, energy, saved, limit, completed, last, pendingFinal, alarm,
                       link, uplink, now, inbox, started>>
    PROVE  PaidInv'
<1>1. UNCHANGED session /\ command[s][k].status = "PENDING"
  BY DEF Publish, Dispatch, vars
<1>2. Used(s)
  <2>1. session[s].status # "NONE"
    BY <1>1 DEF EngineInv, CInv, UnusedIsSilent, NoCommand
  <2> QED
    BY <2>1, UnusedOrUsed DEF EngineInv
<1>3. \A t \in Sessions : Open(t)' <=> Open(t)
  BY <1>1 DEF Open
<1>4. PowerInv' /\ FinalInv' /\ RefusalInv' /\ UsedInv' /\ OnceInv'
  <2>1. \A t \in Sessions : Used(t)' <=> Used(t)
    BY <1>1 DEF Used, Open
  <2>2. Coming' = Coming
    BY DEF Coming, Items
  <2> QED
    BY <1>1, <1>3, <2>1, <2>2
       DEF PaidInv, PowerInv, FinalInv, RefusalInv, UsedInv, OnceInv, Idle
<1>5. WaitInv'
  <2> DEFINE c == Published(s, k)
  <2>1. c \in Commands /\ (downlink' = Append(downlink, c) \/ downlink' = downlink)
    BY CommandTyping DEF EngineInv, Publish, Published
  <2>2. Due(c) /\ ~Maintenance(c)
    <3>1. /\ c.session = s /\ c.id = <<s, k>>
          /\ (c.type = "START" /\ k = 0) \/ (c.type = "STOP" /\ k # 0)
      BY DEF Published
    <3>2. k # 0 /\ Open(s) => session[s].reason # "none"
      BY <1>1 DEF EngineInv, CInv, OpenIsControlled, Controlled, StopsIn
    <3>3. c.session \in Sessions
      BY <3>1
    <3> HIDE DEF c
    <3> QED
      BY <1>2, <3>1, <3>2, SystemAssumption DEF Due, Maintenance
  <2> HIDE DEF c
  <2>3. \A e : (Maintenance(e)' <=> Maintenance(e)) /\ (Due(e)' <=> Due(e))
    BY <1>1 DEF Maintenance, Due, Used, Open
  <2>4. CASE downlink' = downlink
    BY <1>3, <2>3, <2>4 DEF PaidInv, WaitInv, Items
  <2>5. CASE downlink' = Append(downlink, c)
    <3>1. /\ Items(downlink') = Items(downlink) \cup {c}
          /\ Len(downlink') = Len(downlink) + 1 /\ downlink'[Len(downlink) + 1] = c
          /\ \A i \in 1..Len(downlink) : downlink'[i] = downlink[i]
      BY <2>1, <2>5, ItemsOfAppend DEF EngineInv, DeviceOK
    <3>2. \A i \in 1..Len(downlink') : i \in 1..Len(downlink) \/ i = Len(downlink) + 1
      <4>1. Len(downlink) \in Nat
        BY DEF EngineInv, DeviceOK
      <4> QED
        BY <3>1, <4>1
    <3>3. \A i \in 1..Len(downlink') : Maintenance(downlink'[i]) => i = 1
      BY <2>2, <3>1, <3>2 DEF PaidInv, WaitInv
    <3>4. /\ \A e \in Items(downlink') : Maintenance(e) \/ Due(e)
          /\ \A e \in Items(downlink') :
                 Maintenance(e) => \A t \in Sessions : Open(t) => last.id # <<t, 0>>
      BY <2>2, <3>1 DEF PaidInv, WaitInv
    <3>5. Items(downlink)' = Items(downlink')
      BY DEF Items
    <3> QED
      BY <1>3, <2>3, <3>3, <3>4, <3>5 DEF WaitInv
  <2> QED
    BY <2>1, <2>4, <2>5
<1>6. SpentInv'
  <2>1. ASSUME NEW t \in Sessions, Spent(t)' PROVE FALSE
    <3>1. Spent(t)
      BY <1>1, <2>1 DEF Spent, Open, Used
    <3>2. t = s
      BY <1>2, <3>1 DEF Spent
    <3> QED
      BY <1>1, <3>1, <3>2 DEF PaidInv, SpentInv, Silenced
  <2> QED
    BY <2>1 DEF SpentInv
<1> QED
  BY <1>4, <1>5, <1>6 DEF PaidInv

LEMMA MaintainKeepsPaid ==
    ASSUME EngineInv, PaidInv, NEW b \in Bays, NEW type \in {"TEST", "RESTART"},
           Maintain(DeviceOf[b], type),
           UNCHANGED <<relay, active, energy, saved, limit, completed, last, pendingFinal, alarm,
                       link, uplink, now, inbox, started>>
    PROVE  PaidInv'
<1>1. /\ UNCHANGED <<session, command>> /\ downlink' = <<Maintaining(type)>>
      /\ \A s \in Sessions : Open(s) => DeviceOf[session[s].bay] # DeviceOf[b]
  BY DEF Maintain, vars, Maintaining
<1>2. \A s \in Sessions : ~Open(s) /\ ~Open(s)'
  <2>1. \A s \in Sessions : Open(s) => session[s].bay \in Bays
    BY OpenIsRunning DEF EngineInv
  <2>2. \A a \in Bays : a = b
    BY SystemAssumption
  <2> QED
    BY <1>1, <2>1, <2>2 DEF Open
<1>3. PowerInv' /\ FinalInv' /\ RefusalInv' /\ UsedInv' /\ OnceInv'
  <2>1. \A t \in Sessions : Used(t)' <=> Used(t)
    BY <1>1 DEF Used, Open
  <2>2. Coming' = Coming
    BY DEF Coming, Items
  <2> QED
    BY <1>1, <1>2, <2>1, <2>2
       DEF PaidInv, PowerInv, FinalInv, RefusalInv, UsedInv, OnceInv, Idle
<1>4. WaitInv' /\ SpentInv'
  <2> DEFINE c == Maintaining(type)
  <2>1. c \in Commands
    BY CommandTyping DEF EngineInv
  <2>2. Maintenance(c)
    BY DEF Maintaining, Maintenance
  <2> HIDE DEF c
  <2>3. downlink' = <<c>> /\ Items(downlink') = {c}
    BY <1>1, <2>1, ItemsOfOne DEF c
  <2>4. \A i \in 1..Len(downlink') : i = 1
    BY <2>3
  <2>5. WaitInv'
    BY <1>2, <2>2, <2>3, <2>4 DEF WaitInv, Items, Maintenance
  <2>6. c.session \notin Sessions
    BY SystemAssumption DEF c, Maintaining
  <2>7. Items(downlink)' = {c}
    BY <2>3 DEF Items
  <2>8. \A s \in Sessions : (Spent(s)' => Spent(s)) /\ (Silenced(s)' <=> Silenced(s))
    BY <1>1 DEF Spent, Silenced, Used, Open
  <2>9. SpentInv'
    BY <2>6, <2>7, <2>8 DEF PaidInv, SpentInv
  <2> QED
    BY <2>5, <2>9
<1> QED
  BY <1>3, <1>4 DEF PaidInv

LEMMA StepKeepsPaid ==
    ASSUME EngineInv, PaidInv, [SystemNext]_system, [Reads]_system
    PROVE  PaidInv'
<1>1. CASE UNCHANGED system
  <2>1. UNCHANGED <<vars, downlink, last, relay, active, completed, started, inbox, uplink>>
    BY <1>1 DEF system, controller
  <2>2. Sound({}) /\ Coming' \subseteq Coming
    BY <2>1, NothingMoves, ComingShrinks DEF EngineInv
  <2> QED
    BY <2>1, <2>2, BackendKeepsPaid DEF Sound
<1>2. CASE Backend
  <2>1. UNCHANGED <<downlink, last, relay, active, completed, started, inbox, uplink>>
    BY <1>2 DEF Backend, Parked, controller
  <2>2. Sound({}) /\ Coming' \subseteq Coming
    BY <1>2, <2>1, BackendSteps, ComingShrinks DEF EngineInv
  <2> QED
    BY <2>1, <2>2, BackendKeepsPaid DEF Sound
<1>3. CASE Controller
  BY <1>3, RunKeepsPaid
<1>4. CASE Obey
  BY <1>1, <1>4, ObeyKeepsPaid
<1>5. CASE /\ \E s \in Sessions, k \in CommandIds : Publish(s, k)
           /\ UNCHANGED <<relay, active, energy, saved, limit, completed, last, pendingFinal,
                          alarm, link, uplink, now, inbox, started>>
  BY <1>5, PublishSteps, PublishKeepsPaid DEF EngineInv
<1>6. CASE /\ \E b \in Bays, type \in {"TEST", "RESTART"} : Maintain(DeviceOf[b], type)
           /\ UNCHANGED <<relay, active, energy, saved, limit, completed, last, pendingFinal,
                          alarm, link, uplink, now, inbox, started>>
  BY <1>6, MaintainKeepsPaid
<1>7. CASE \E b \in Bays, stale \in BOOLEAN : Ingest(DeviceOf[b], b, stale)
  <2>1. PICK b \in Bays, stale \in BOOLEAN : Ingest(DeviceOf[b], b, stale)
    BY <1>7
  <2>2. /\ uplink # <<>> /\ uplink' = Tail(uplink)
        /\ inbox' = inbox \/ inbox' = Append(inbox, Head(uplink))
        /\ UNCHANGED <<relay, active, completed, last, downlink, started>>
    BY <2>1 DEF Ingest, Unchanged
  <2>3. Sound({}) /\ Coming' \subseteq Coming
    BY <2>1, <2>2, IngestSteps, ComingShrinks DEF EngineInv
  <2> QED
    BY <2>2, <2>3, BackendKeepsPaid DEF Sound
<1>8. CASE \E b \in Bays : Handle1(b)
  BY <1>8, HandleSteps, HandleKeepsPaid DEF EngineInv
<1> QED
  BY <1>1, <1>2, <1>3, <1>4, <1>5, <1>6, <1>7, <1>8 DEF SystemNext

LEMMA SystemInitIsPaid == SystemInit => PaidInv
<1> SUFFICES ASSUME SystemInit PROVE PaidInv
  OBVIOUS
<1>1. /\ relay = FALSE /\ active = None /\ last.id = <<None, 0>>
      /\ \A s \in Sessions : ~started[s]
  BY DEF SystemInit, Fw!Init, Fw!NoAnswer
<1>2. Items(downlink) = {} /\ 1..Len(downlink) = {} /\ Coming = {}
  BY ItemsOfNone DEF SystemInit, Fw!Init, Coming
<1>3. \A s \in Sessions : Silenced(s)
  BY DEF SystemInit, Init, NoCommand, Silenced
<1> QED
  BY <1>1, <1>2, <1>3, SystemAssumption
     DEF PaidInv, PowerInv, WaitInv, FinalInv, RefusalInv, UsedInv, OnceInv, SpentInv

LEMMA PaidInvariance == SystemSpec /\ ReadsCurrent => [](EngineInv /\ PaidInv)
<1>1. EngineInv /\ PaidInv /\ EngineInv' /\ [SystemNext]_system /\ [Reads]_system => PaidInv'
  BY StepKeepsPaid
<1>2. ReadsCurrent <=> [][Reads]_system
  BY DEF ReadsCurrent, Reads
<1> QED
  BY <1>1, <1>2, SystemInitIsPaid, EngineHoldsInSystem, PTL DEF SystemSpec

\* PowerIsPaidFor: for any number of sessions, users, amounts and queue lengths, power
\* flows only on held credit, on the condition that no command of a settled session is
\* read that is not the one answered last.
THEOREM PowerIsAlwaysPaidFor == SystemSpec /\ ReadsCurrent => []PowerIsPaidFor
<1>1. EngineInv /\ PaidInv => PowerIsPaidFor
  BY DEF EngineInv, IInv, HoldWhileOpen, PaidInv, PowerInv, PowerIsPaidFor
<1> QED
  BY <1>1, PaidInvariance, PTL

\* What the contract sees of a step of the composition.
On == IF relay THEN active ELSE None
Ever == {s \in Sessions : started[s]}

LEMMA StepKeepsContract ==
    ASSUME EngineInv, PaidInv, [SystemNext]_system, [Reads]_system
    PROVE  [Contract!Next]_<<On, Ever>>
<1>1. relay \in BOOLEAN /\ relay' \in BOOLEAN
  BY DeviceSteps DEF EngineInv, DeviceOK
<1>2. CASE UNCHANGED <<relay, active, started>>
  BY <1>2 DEF On, Ever
<1>3. CASE (GoesOn \/ Ends) /\ started' = started
  <2>1. On' = On \/ On' = None
    BY <1>1, <1>3 DEF GoesOn, Ends, On
  <2>2. Ever' = Ever
    BY <1>3 DEF Ever
  <2> QED
    BY <2>1, <2>2 DEF Contract!Next, Contract!Cut, On, Ever
<1>4. CASE Controller
  BY <1>3, <1>4, RunMoves DEF Controller, EngineInv, RunEffect
<1>5. CASE Obey
  <2> DEFINE c == Head(downlink)
  <2>1. /\ downlink # <<>> /\ Expired(c) \in BOOLEAN
        /\ started' = [s \in Sessions |-> started[s] \/ (active' = s /\ active # s)]
        /\ \E plug \in BOOLEAN : Fw!Obey(c, Expired(c), plug)
    BY <1>5 DEF Obey, Expired
  <2>2. UNCHANGED vars
    BY <1>5 DEF Obey
  <2> HIDE DEF c
  <2>3. GoesOn \/ Ends \/ Begins(c)
    BY <2>1, ObeyMoves DEF EngineInv, ObeyEffect, c
  <2>4. CASE GoesOn \/ Ends
    <3>1. \A s \in Sessions : started'[s] <=> started[s]
      BY <2>1, <2>4, SystemAssumption DEF GoesOn, Ends
    <3>2. Ever' = Ever
      BY <3>1 DEF Ever
    <3>3. On' = On \/ On' = None
      BY <1>1, <2>4 DEF GoesOn, Ends, On
    <3> QED
      BY <3>2, <3>3 DEF Contract!Next, Contract!Cut, On, Ever
  <2>5. CASE Begins(c)
    <3>1. /\ active = None /\ On = None /\ On' = c.session /\ active' = c.session
          /\ c.session \in Sessions /\ Open(c.session) /\ c.session # completed
      <4>1. active' # None /\ active' \in Sessions /\ Open(active')
        BY <2>2, <2>5, StepKeepsPaid DEF Begins, PaidInv, PowerInv, vars, Open
      <4> QED
        BY <1>1, <2>5, <4>1 DEF Begins, On, PaidInv, PowerInv
    <3>2. ~started[c.session]
      BY <3>1, SystemAssumption DEF PaidInv, OnceInv
    <3>3. \A s \in Sessions : started'[s] <=> started[s] \/ s = c.session
      BY <2>1, <3>1, SystemAssumption
    <3>4. Ever' = Ever \cup {c.session} /\ c.session \notin Ever
      BY <3>1, <3>2, <3>3 DEF Ever
    <3>5. \E s \in Sessions : s = c.session
      BY <3>1
    <3> QED
      BY <3>1, <3>4, <3>5 DEF Contract!Next, Contract!Energise, On, Ever
  <2> QED
    BY <2>3, <2>4, <2>5
<1>6. CASE UNCHANGED system \/ Backend
  BY <1>2, <1>6 DEF system, Backend, Parked, controller
<1>7. CASE \E b \in Bays : Handle1(b) \/ \E stale \in BOOLEAN : Ingest(DeviceOf[b], b, stale)
  BY <1>2, <1>7 DEF Handle1, Ingest, Unchanged
<1> QED
  BY <1>2, <1>4, <1>5, <1>6, <1>7 DEF SystemNext

\* KeepsRelayContract, on the same condition: the relay is on once for a session, and for
\* one session at a time; every step of the composition maps to Cut, Energise or a stutter.
THEOREM SystemKeepsRelayContract == SystemSpec /\ ReadsCurrent => KeepsRelayContract
<1>1. SystemInit => Contract!Init
  BY DEF SystemInit, Fw!Init, Contract!Init
<1>2. EngineInv /\ PaidInv /\ [SystemNext]_system /\ [Reads]_system =>
          [Contract!Next]_<<IF relay THEN active ELSE None, {s \in Sessions : started[s]}>>
  BY StepKeepsContract DEF On, Ever
<1>3. ReadsCurrent <=> [][Reads]_system
  BY DEF ReadsCurrent, Reads
<1> QED
  BY <1>1, <1>2, <1>3, PaidInvariance, PTL DEF KeepsRelayContract, Contract!Spec, SystemSpec

\* With one session, as in the run that checks the two properties, the condition always
\* holds: whatever is resent, refused, lost or restarted, they hold for every length of the
\* queues, every meter and every clock.
THEOREM OneSessionIsSafe ==
    (\A s, t \in Sessions : s = t) => (SystemSpec => []PowerIsPaidFor /\ KeepsRelayContract)
<1> SUFFICES ASSUME \A s, t \in Sessions : s = t
             PROVE  SystemSpec => []PowerIsPaidFor /\ KeepsRelayContract
  OBVIOUS
<1>1. Reads
  BY DEF Reads
<1>2. [][Reads]_system
  BY <1>1, PTL
<1>3. ReadsCurrent
  BY <1>2 DEF ReadsCurrent, Reads
<1> QED
  BY <1>3, PowerIsAlwaysPaidFor, SystemKeepsRelayContract, PTL

=============================================================================
