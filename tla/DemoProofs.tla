----------------------------- MODULE DemoProofs -----------------------------
(***************************************************************************)
(* Proofs about the browser demos, CreditDemo and BookingDemo, whose state *)
(* is one snapshot that every operation replaces.  For each there is the    *)
(* set of the snapshots in which everything is as it should be; every       *)
(* operator that makes a snapshot of another one stays in it, and so does   *)
(* every operation, the tick among them, which is composed of them.         *)
(*                                                                         *)
(* What goes over all sessions, commands, payments or bays is a fold, and   *)
(* FoldReaches and LadderExists (FiniteSums) say that a fold stays where    *)
(* its steps stay.                                                          *)
(***************************************************************************)
EXTENDS MCFrontend, Sequences, FiniteSums

-----------------------------------------------------------------------------
(* What is left of a list of commands. *)

\* What is left of a list.
Left(list, gone) ==
    LET left[n \in 0..Len(list)] ==
            IF n = 0 THEN <<>>
            ELSE IF list[n] \in gone THEN left[n - 1] ELSE Append(left[n - 1], list[n])
    IN  left[Len(list)]

\* It is a list of the same elements at other places.
PartOf(some, list) ==
    \E place \in [1..Len(some) -> 1..Len(list)] :
        /\ \A i, j \in 1..Len(some) : place[i] = place[j] => i = j
        /\ \A i \in 1..Len(some) : some[i] = list[place[i]]

LEMMA LeftIsPart ==
    ASSUME NEW C, NEW list \in Seq(C), NEW gone
    PROVE  /\ Left(list, gone) \in Seq(C) /\ PartOf(Left(list, gone), list)
           /\ \A i \in 1..Len(Left(list, gone)) : Left(list, gone)[i] \notin gone
<1> DEFINE size == Len(list)
           Follow(left) == left = [n \in 0..size |->
                               IF n = 0 THEN <<>>
                               ELSE IF list[n] \in gone THEN left[n - 1] ELSE Append(left[n - 1], list[n])]
           step == [p \in (1..size) \X Seq(C) |-> IF list[p[1]] \in gone THEN p[2] ELSE Append(p[2], list[p[1]])]
<1>1. size \in Nat /\ \A n \in 1..size : list[n] \in C
  OBVIOUS
<1>2. \E left : Follow(left)
  <2>1. PICK g : IsLadder(g, <<>>, step, size)
    <3> HIDE DEF step
    <3> QED
      BY <1>1, LadderExists
  <2>2. \A n \in 0..size : g[n] = IF n = 0 THEN <<>> ELSE step[<<n, g[n - 1]>>]
    BY <2>1, Zenon DEF IsLadder
  <2>3. ASSUME NEW n \in 1..size, NEW s \in Seq(C)
        PROVE  /\ step[<<n, s>>] = IF list[n] \in gone THEN s ELSE Append(s, list[n])
               /\ step[<<n, s>>] \in Seq(C)
    BY <1>1
  <2> HIDE DEF step
  <2> DEFINE Bad == {n \in Nat : n <= size /\ g[n] \notin Seq(C)}
  <2>4. ASSUME NEW n \in Bad, \A m \in Bad : n <= m PROVE FALSE
    <3>1. CASE n = 0
      <4>1. g[0] = <<>> /\ g[n] \notin Seq(C)
        <5>1. 0 \in 0..size /\ g[n] \notin Seq(C)
          BY <1>1
        <5> HIDE DEF size, Bad
        <5> QED
          BY <2>2, <5>1, Zenon
      <4>2. <<>> \in Seq(C)
        OBVIOUS
      <4> QED
        BY <3>1, <4>1, <4>2
    <3>2. CASE n # 0
      <4>1. n \in 1..size /\ n - 1 \in Nat /\ n - 1 < n /\ g[n] \notin Seq(C) /\ n \in Nat /\ n <= size
        BY <1>1, <3>2
      <4>2. n - 1 \notin Bad
        <5> HIDE DEF Bad
        <5> QED
          BY <2>4, <4>1
      <4>3. g[n - 1] \in Seq(C)
        BY <1>1, <4>1, <4>2
      <4>4. n \in 0..size /\ n # 0
        BY <3>2, <4>1
      <4>5. g[n] = step[<<n, g[n - 1]>>]
        BY <2>2, <4>4
      <4> QED
        BY <2>3, <4>1, <4>3, <4>5
    <3> QED
      BY <3>1, <3>2
  <2>5. Bad = {}
    BY <2>4, LeastNumber, Zenon
  <2>6. \A n \in 0..size : g[n] \in Seq(C)
    BY <1>1, <2>5
  <2>7. ASSUME NEW n \in 0..size
        PROVE  (IF n = 0 THEN <<>> ELSE step[<<n, g[n - 1]>>])
                  = IF n = 0 THEN <<>> ELSE IF list[n] \in gone THEN g[n - 1] ELSE Append(g[n - 1], list[n])
    BY <1>1, <2>3, <2>6
  <2>8. Follow(g)
    BY <2>1, <2>7 DEF IsLadder
  <2> QED
    BY <2>8, Zenon
<1> DEFINE left == CHOOSE left : Follow(left)
<1>3. Follow(left)
  BY <1>2, Zenon
<1>4. Left(list, gone) = left[size]
  BY DEF Left
<1> DEFINE Fits(n) ==
              /\ left[n] \in Seq(C)
              /\ \A i \in 1..Len(left[n]) : left[n][i] \notin gone
              /\ \E place \in [1..Len(left[n]) -> 1..n] :
                    /\ \A i, j \in 1..Len(left[n]) : place[i] = place[j] => i = j
                    /\ \A i \in 1..Len(left[n]) : left[n][i] = list[place[i]]
<1>5. \A n \in 0..size : left[n] = IF n = 0 THEN <<>>
                                ELSE IF list[n] \in gone THEN left[n - 1] ELSE Append(left[n - 1], list[n])
  BY <1>3, Zenon
<1> HIDE DEF left
<1>6. Fits(0)
  <2>1. left[0] = <<>>
    BY <1>1, <1>5
  <2>2. [i \in {} |-> 0] \in [1..0 -> 1..0] /\ 1..0 = {}
    OBVIOUS
  <2>3. <<>> \in Seq(C) /\ 1..Len(left[0]) = {} /\ left[0] \in Seq(C) /\ Len(left[0]) = 0
    BY <2>1
  <2> QED
    BY <2>2, <2>3
<1>7. ASSUME NEW n \in 1..size, Fits(n - 1) PROVE Fits(n)
  <2>0. n \in 0..size /\ n # 0 /\ n \in Nat
    BY <1>1
  <2> DEFINE s == left[n - 1]
  <2>1. PICK place \in [1..Len(s) -> 1..(n - 1)] :
            /\ \A i, j \in 1..Len(s) : place[i] = place[j] => i = j
            /\ \A i \in 1..Len(s) : s[i] = list[place[i]]
    BY <1>7
  <2>2. s \in Seq(C) /\ \A i \in 1..Len(s) : s[i] \notin gone
    BY <1>7
  <2>3. CASE list[n] \in gone
    <3>1. left[n] = s
      BY <1>5, <2>0, <2>3
    <3> HIDE DEF s
    <3>2. place \in [1..Len(s) -> 1..n]
      BY <2>0, <2>1
    <3> QED
      BY <2>1, <2>2, <3>1, <3>2, Zenon
  <2>4. CASE list[n] \notin gone
    <3>1. left[n] = Append(s, list[n])
      BY <1>5, <2>0, <2>4, Zenon
    <3> HIDE DEF s
    <3> DEFINE longer == [i \in 1..(Len(s) + 1) |-> IF i = Len(s) + 1 THEN n ELSE place[i]]
    <3>2. /\ Len(s) \in Nat /\ Len(left[n]) = Len(s) + 1 /\ left[n] \in Seq(C)
          /\ \A i \in 1..(Len(s) + 1) : left[n][i] = IF i = Len(s) + 1 THEN list[n] ELSE s[i]
      BY <1>1, <2>2, <3>1
    <3>3. longer \in [1..Len(left[n]) -> 1..n]
      BY <2>0, <2>1, <3>2
    <3>6. ASSUME NEW i \in 1..Len(left[n]), i # Len(s) + 1
          PROVE  i \in 1..Len(s) /\ longer[i] = place[i] /\ longer[i] # n /\ left[n][i] = s[i]
      BY <2>0, <2>1, <3>2, <3>6
    <3>7. longer[Len(s) + 1] = n /\ left[n][Len(s) + 1] = list[n]
      <4>1. Len(s) + 1 \in 1..(Len(s) + 1)
        BY <3>2
      <4>2. longer[Len(s) + 1] = n
        BY <4>1
      <4>3. left[n][Len(s) + 1] = list[n]
        <5> HIDE DEF longer
        <5> QED
          BY <3>2, <4>1
      <4> QED
        BY <4>2, <4>3
    <3>4. \A i, j \in 1..Len(left[n]) : longer[i] = longer[j] => i = j
      <4> HIDE DEF longer
      <4> QED
        BY <2>1, <3>6, <3>7
    <3>5. \A i \in 1..Len(left[n]) : left[n][i] = list[longer[i]] /\ left[n][i] \notin gone
      <4> HIDE DEF longer
      <4> QED
        BY <2>1, <2>2, <2>4, <3>6, <3>7, Zenon
    <3> HIDE DEF longer
    <3> QED
      BY <3>2, <3>3, <3>4, <3>5, Zenon
  <2> QED
    BY <2>3, <2>4, Zenon
<1>8. \A n \in 0..size : Fits(n)
  <2> DEFINE Bad == {n \in Nat : n <= size /\ ~Fits(n)}
  <2>1. ASSUME NEW n \in Bad, \A m \in Bad : n <= m PROVE FALSE
    <3>1. n \in Nat /\ n <= size /\ ~Fits(n)
      OBVIOUS
    <3>2. n # 0
      BY <1>6, <3>1
    <3>3. n \in 1..size /\ n - 1 \in Nat /\ n - 1 < n /\ n - 1 <= size
      BY <1>1, <3>1, <3>2
    <3>4. n - 1 \notin Bad
      <4> HIDE DEF Bad
      <4> QED
        BY <2>1, <3>1, <3>3
    <3> QED
      BY <1>7, <3>1, <3>3, <3>4, Zenon
  <2>2. Bad = {}
    <3> HIDE DEF Fits
    <3> QED
      BY <2>1, LeastNumber, Zenon
  <2> HIDE DEF Fits
  <2> QED
    BY <1>1, <2>2
<1> HIDE DEF Fits
<1>9. Fits(size)
  BY <1>1, <1>8
<1> QED
  BY <1>4, <1>9 DEF Fits, PartOf

LEMMA CreditWithout == ASSUME NEW list, NEW gone PROVE Credit!Without(list, gone) = Left(list, gone)
BY DEF Credit!Without, Left

LEMMA BookedWithout == ASSUME NEW list, NEW gone PROVE Booked!Without(list, gone) = Left(list, gone)
BY DEF Booked!Without, Left

-----------------------------------------------------------------------------
(* CreditDemo: what a snapshot is and what holds of it *)

CreditSession == [state : {"none", "pending", "charging", "completed"}, bay : Bays \cup {"none"},
                  energy : Int, limit : Int, tariff : Int, reserved : Int, cost : Int]
CreditCommand == [kind : {"START", "STOP", "EMERGENCY_STOP"}, of : Requests, age : 0..2,
                  outcome : Credit!Outcomes]
CreditPayment == [status : {"none", "pending", "verified", "success", "failed", "cancelled"}, due : 0..2,
                  outcome : {"none", "success", "failed", "cancelled", "pending"}]
CreditBay == [enabled : BOOLEAN, plugged : BOOLEAN, fault : BOOLEAN, faults : 0..1]
CreditDevice == [online : BOOLEAN, away : BOOLEAN, outcome : Credit!Outcomes]
Entry == {"DEBIT", "CREDIT", "ADJUST"} \X (Requests \cup Payments \cup Adjustments)

CreditSnapshot ==
    [session : [Requests -> CreditSession], commands : Seq(CreditCommand),
     payment : [Payments -> CreditPayment], wallet : [Owners -> Int], ledger : SUBSET Entry,
     bay : [Bays -> CreditBay], device : CreditDevice, station : BOOLEAN,
     active : [Owners -> BOOLEAN], room : [Owners -> Int], tariff : Tariffs]

\* A start waits for a session that waits for it, and is all that waits about it.
StartWaits(d) ==
    \A i \in DOMAIN d.commands :
        d.commands[i].kind = "START" =>
            /\ d.session[d.commands[i].of].state = "pending"
            /\ \A j \in DOMAIN d.commands : d.commands[j].of = d.commands[i].of => j = i

\* What is on hold for an open session is there to be taken, an owner has one of
\* them, and commands are about sessions that were started.
CreditHolds(d) ==
    /\ \A u \in Owners : d.wallet[u] >= 0
    /\ \A r \in Requests : Credit!Open(d, r) =>
            /\ d.session[r].reserved >= 0 /\ d.session[r].reserved <= d.wallet[OwnerOf[r]]
            /\ d.session[r].tariff \in Tariffs /\ d.session[r].bay \in Bays
    /\ \A r, q \in Requests : Credit!Open(d, r) /\ Credit!Open(d, q) /\ OwnerOf[r] = OwnerOf[q] => r = q
    /\ \A i \in DOMAIN d.commands : d.session[d.commands[i].of].state # "none"
    /\ StartWaits(d)

CreditGood == {d \in CreditSnapshot : CreditHolds(d)}

\* Any one field of a snapshot may be replaced by one of its kind.
LEMMA CreditTyped ==
    ASSUME NEW d \in CreditSnapshot
    PROVE  /\ \A x \in [Requests -> CreditSession] : [d EXCEPT !.session = x] \in CreditSnapshot
           /\ \A x \in Seq(CreditCommand) : [d EXCEPT !.commands = x] \in CreditSnapshot
           /\ \A x \in [Payments -> CreditPayment] : [d EXCEPT !.payment = x] \in CreditSnapshot
           /\ \A x \in [Owners -> Int] : [d EXCEPT !.wallet = x] \in CreditSnapshot
           /\ \A x \in SUBSET Entry : [d EXCEPT !.ledger = x] \in CreditSnapshot
           /\ \A x \in [Bays -> CreditBay] : [d EXCEPT !.bay = x] \in CreditSnapshot
           /\ \A x \in CreditDevice : [d EXCEPT !.device = x] \in CreditSnapshot
           /\ \A x \in BOOLEAN : [d EXCEPT !.station = x] \in CreditSnapshot
           /\ \A x \in [Owners -> BOOLEAN] : [d EXCEPT !.active = x] \in CreditSnapshot
           /\ \A x \in [Owners -> Int] : [d EXCEPT !.room = x] \in CreditSnapshot
           /\ \A x \in Tariffs : [d EXCEPT !.tariff = x] \in CreditSnapshot
BY Zenon DEF CreditSnapshot

LEMMA CreditFields ==
    ASSUME NEW d \in CreditSnapshot
    PROVE  /\ d.session \in [Requests -> CreditSession] /\ d.commands \in Seq(CreditCommand)
           /\ d.payment \in [Payments -> CreditPayment] /\ d.wallet \in [Owners -> Int]
           /\ d.ledger \in SUBSET Entry /\ d.bay \in [Bays -> CreditBay] /\ d.device \in CreditDevice
           /\ d.station \in BOOLEAN /\ d.active \in [Owners -> BOOLEAN] /\ d.room \in [Owners -> Int]
           /\ d.tariff \in Tariffs
           /\ DOMAIN d.commands = 1..Len(d.commands) /\ Len(d.commands) \in Nat
           /\ \A i \in DOMAIN d.commands : d.commands[i] \in CreditCommand
           /\ \A r \in Requests : d.session[r].reserved \in Int /\ OwnerOf[r] \in Owners
           /\ \A u \in Owners : d.wallet[u] \in Int
BY CreditAssumption DEF CreditSnapshot, CreditSession

LEMMA CostIsNumber ==
    ASSUME NEW energy \in Int, NEW tariff \in Int
    PROVE  Credit!EnergyCost(energy, tariff) \in Int
<1>1. energy * tariff \in Int /\ Unit \in Int /\ Unit > 0
  BY CreditAssumption
<1> DEFINE product == energy * tariff
<1>2. (product + Unit - 1) \div Unit \in Int
  <2> HIDE DEF product
  <2>1. product \in Int
    BY <1>1 DEF product
  <2> QED
    BY <1>1, <2>1
<1> QED
  BY <1>2 DEF Credit!EnergyCost

\* What ending an open session does.
Settled(d, r, cost) ==
    [d EXCEPT !.session = [d.session EXCEPT ![r] = [d.session[r] EXCEPT !.state = "completed", !.cost = cost]],
              !.commands = Left(d.commands, {c \in Credit!ToSet(d.commands) : c.of = r /\ c.kind = "START"}),
              !.wallet = [d.wallet EXCEPT ![OwnerOf[r]] = d.wallet[OwnerOf[r]] + -cost],
              !.ledger = d.ledger \cup {<<"DEBIT", r>>}]

LEMMA FinishSettles ==
    ASSUME NEW d \in CreditSnapshot, NEW r \in Requests, Credit!Open(d, r)
    PROVE  \E cost \in Int : cost <= d.session[r].reserved /\ Credit!Finish(d, r) = Settled(d, r, cost)
<1> DEFINE s == d.session[r]
           cost == Credit!Smaller(s.reserved, Credit!EnergyCost(s.energy, s.tariff))
<1>1. s.reserved \in Int /\ Credit!EnergyCost(s.energy, s.tariff) \in Int
  BY CreditFields, CostIsNumber, Zenon DEF CreditSession
<1>2. cost \in Int /\ cost <= s.reserved
  <2> HIDE DEF s
  <2> QED
    BY <1>1 DEF Credit!Smaller
<1>3. Credit!Finish(d, r) = [Credit!Post(d, <<"DEBIT", r>>, OwnerOf[r], -cost) EXCEPT
                !.session[r] = [@ EXCEPT !.state = "completed", !.cost = cost],
                !.commands = Credit!Without(@, {c \in Credit!ToSet(@) : c.of = r /\ c.kind = "START"})]
  BY DEF Credit!Finish
<1> HIDE DEF cost
<1>4. Credit!Finish(d, r) = Settled(d, r, cost)
  <2> DEFINE p == Credit!Post(d, <<"DEBIT", r>>, OwnerOf[r], -cost)
             left == Left(d.commands, {c \in Credit!ToSet(d.commands) : c.of = r /\ c.kind = "START"})
             wallet == [d.wallet EXCEPT ![OwnerOf[r]] = d.wallet[OwnerOf[r]] + -cost]
             ledger == d.ledger \cup {<<"DEBIT", r>>}
  <2>1. p = [d EXCEPT !.wallet = wallet, !.ledger = ledger]
    BY DEF Credit!Post, CreditSnapshot
  <2>2. p.commands = d.commands
    BY <2>1, Zenon DEF CreditSnapshot
  <2>3. Credit!Finish(d, r) = [p EXCEPT !.session[r] = [@ EXCEPT !.state = "completed", !.cost = cost],
                                        !.commands = left]
    BY <1>3, <2>2, CreditWithout, Zenon
  <2>5. Settled(d, r, cost) = [d EXCEPT !.wallet = wallet, !.ledger = ledger, !.commands = left,
                                        !.session = [d.session EXCEPT ![r] = [d.session[r] EXCEPT !.state = "completed", !.cost = cost]]]
    <3> HIDE DEF wallet, ledger, left
    <3> QED
      BY Zenon DEF Settled, wallet, ledger, left, CreditSnapshot
  <2> HIDE DEF left, p, wallet, ledger
  <2>4. Credit!Finish(d, r) = [d EXCEPT !.wallet = wallet, !.ledger = ledger, !.commands = left,
              !.session = [d.session EXCEPT ![r] = [d.session[r] EXCEPT !.state = "completed", !.cost = cost]]]
    BY <2>1, <2>3, Zenon DEF CreditSnapshot, CreditSession
  <2> QED
    BY <2>4, <2>5
<1> QED
  BY <1>2, <1>4

-----------------------------------------------------------------------------
(* CreditDemo: ending sessions and answering commands *)

LEMMA PartKeepsStarts ==
    ASSUME NEW d \in CreditSnapshot, StartWaits(d),
           NEW e \in CreditSnapshot, PartOf(e.commands, d.commands),
           \A i \in DOMAIN e.commands :
               e.commands[i].kind = "START" => e.session[e.commands[i].of].state = "pending"
    PROVE  StartWaits(e)
<1>1. PICK place \in [1..Len(e.commands) -> 1..Len(d.commands)] :
        /\ \A i, j \in 1..Len(e.commands) : place[i] = place[j] => i = j
        /\ \A i \in 1..Len(e.commands) : e.commands[i] = d.commands[place[i]]
  BY Zenon DEF PartOf
<1>2. DOMAIN e.commands = 1..Len(e.commands) /\ DOMAIN d.commands = 1..Len(d.commands)
  BY CreditFields
<1>3. ASSUME NEW i \in DOMAIN e.commands, e.commands[i].kind = "START",
             NEW j \in DOMAIN e.commands, e.commands[j].of = e.commands[i].of
      PROVE  j = i
  <2>1. place[i] \in DOMAIN d.commands /\ place[j] \in DOMAIN d.commands
    BY <1>1, <1>2
  <2>2. d.commands[place[i]] = e.commands[i] /\ d.commands[place[j]] = e.commands[j]
    BY <1>1, <1>2
  <2>3. place[j] = place[i]
    BY <1>3, <2>1, <2>2 DEF StartWaits
  <2> QED
    BY <1>1, <1>2, <2>3
<1> QED
  BY <1>3 DEF StartWaits

\* What comes of d when one session of it ends, or something is read of it.
Leaves(d, e) ==
    \A j \in DOMAIN e.commands : \E i \in DOMAIN d.commands : e.commands[j] = d.commands[i]

LEMMA PartLeaves ==
    ASSUME NEW d \in CreditSnapshot, NEW e \in CreditSnapshot, PartOf(e.commands, d.commands)
    PROVE  Leaves(d, e)
BY CreditFields, Zenon DEF PartOf, Leaves

LEMMA FinishKeepsCredit ==
    ASSUME NEW d \in CreditGood, NEW r \in Requests
    PROVE  /\ Credit!Finish(d, r) \in CreditGood
           /\ Leaves(d, Credit!Finish(d, r))
           /\ \A q \in Requests \ {r} : Credit!Finish(d, r).session[q] = d.session[q]
<1>0. d \in CreditSnapshot /\ CreditHolds(d)
  BY DEF CreditGood
<1>1. CASE ~Credit!Open(d, r)
  BY <1>1, <1>0 DEF Credit!Finish, Leaves
<1>2. CASE Credit!Open(d, r)
  <2>1. PICK cost \in Int : cost <= d.session[r].reserved /\ Credit!Finish(d, r) = Settled(d, r, cost)
    BY <1>0, <1>2, FinishSettles
  <2> DEFINE e == Settled(d, r, cost)
             gone == {c \in Credit!ToSet(d.commands) : c.of = r /\ c.kind = "START"}
             session == [d.session EXCEPT ![r] = [d.session[r] EXCEPT !.state = "completed", !.cost = cost]]
             wallet == [d.wallet EXCEPT ![OwnerOf[r]] = d.wallet[OwnerOf[r]] + -cost]
             ledger == d.ledger \cup {<<"DEBIT", r>>}
             commands == Left(d.commands, gone)
  <2>2. /\ session \in [Requests -> CreditSession] /\ wallet \in [Owners -> Int]
        /\ ledger \in SUBSET Entry
    <3>1. session \in [Requests -> CreditSession]
      <4>1. d.session \in [Requests -> CreditSession] /\ d.session[r] \in CreditSession
        BY <1>0, CreditFields
      <4>2. [d.session[r] EXCEPT !.state = "completed", !.cost = cost] \in CreditSession
        BY <2>1, <4>1, Zenon DEF CreditSession
      <4> QED
        BY <4>1, <4>2
    <3>2. wallet \in [Owners -> Int]
      <4>1. d.wallet \in [Owners -> Int] /\ d.wallet[OwnerOf[r]] + -cost \in Int
        BY <1>0, <2>1, CreditFields
      <4> QED
        BY <4>1, Zenon
    <3>3. ledger \in SUBSET Entry
      BY <1>0, CreditFields DEF Entry
    <3> QED
      BY <3>1, <3>2, <3>3
  <2>3. /\ commands \in Seq(CreditCommand) /\ PartOf(commands, d.commands)
        /\ \A i \in 1..Len(commands) : commands[i] \notin gone
    <3>1. d.commands \in Seq(CreditCommand)
      BY <1>0, CreditFields
    <3> HIDE DEF gone
    <3> QED
      BY <3>1, LeftIsPart
  <2>4. /\ e = [[[[d EXCEPT !.session = session] EXCEPT !.commands = commands]
                    EXCEPT !.wallet = wallet] EXCEPT !.ledger = ledger]
        /\ e.session = session /\ e.commands = commands /\ e.wallet = wallet
    <3>1. e = [d EXCEPT !.session = session, !.commands = commands, !.wallet = wallet, !.ledger = ledger]
      BY DEF Settled
    <3> HIDE DEF e, session, commands, wallet, ledger
    <3> QED
      BY <1>0, <3>1 DEF CreditSnapshot
  <2>5. e \in CreditSnapshot
    <3> HIDE DEF e, session, commands, wallet, ledger
    <3> QED
      BY <1>0, <2>2, <2>3, <2>4, CreditTyped, Zenon
  <2>6. /\ \A q \in Requests \ {r} : session[q] = d.session[q]
        /\ session[r].state = "completed"
        /\ \A u \in Owners : wallet[u] = IF u = OwnerOf[r] THEN d.wallet[u] - cost ELSE d.wallet[u]
    BY <1>0, <2>1, CreditFields DEF CreditSession
  <2>7. /\ d.session[r].reserved \in Int /\ d.session[r].reserved <= d.wallet[OwnerOf[r]]
        /\ OwnerOf[r] \in Owners
        /\ \A u \in Owners : d.wallet[u] \in Int /\ d.wallet[u] >= 0
    BY <1>0, <1>2, CreditFields DEF CreditHolds
  <2> HIDE DEF e, session, commands, wallet, ledger
  <2>8. \A q \in Requests : Credit!Open(e, q) => Credit!Open(d, q) /\ q # r /\ e.session[q] = d.session[q]
    BY <2>4, <2>6 DEF Credit!Open
  <2>9. \A u \in Owners : e.wallet[u] >= 0
    BY <2>1, <2>4, <2>6, <2>7
  <2>10. ASSUME NEW q \in Requests, Credit!Open(e, q)
         PROVE  /\ e.session[q].reserved >= 0 /\ e.session[q].reserved <= e.wallet[OwnerOf[q]]
                /\ e.session[q].tariff \in Tariffs /\ e.session[q].bay \in Bays
    <3>1. OwnerOf[q] # OwnerOf[r] /\ OwnerOf[q] \in Owners
      BY <1>0, <1>2, <2>8, <2>10, CreditFields DEF CreditHolds
    <3>2. e.wallet[OwnerOf[q]] = d.wallet[OwnerOf[q]]
      BY <2>4, <2>6, <3>1
    <3> QED
      BY <1>0, <2>8, <2>10, <3>2 DEF CreditHolds
  <2>11. Leaves(d, e)
    BY <1>0, <2>3, <2>4, <2>5, PartLeaves, Zenon
  <2>12. \A i \in DOMAIN e.commands : e.session[e.commands[i].of].state # "none"
    BY <1>0, <2>4, <2>5, <2>6, <2>11, CreditFields DEF CreditHolds, Leaves, CreditCommand
  <2>13. ASSUME NEW i \in DOMAIN e.commands, e.commands[i].kind = "START"
         PROVE  e.session[e.commands[i].of].state = "pending"
    <3>1. PICK j \in DOMAIN d.commands : e.commands[i] = d.commands[j]
      BY <2>11 DEF Leaves
    <3>2. d.commands[j] \in Credit!ToSet(d.commands) /\ e.commands[i] \notin gone
      <4>1. DOMAIN e.commands = 1..Len(e.commands)
        BY <2>5, CreditFields
      <4> QED
        BY <2>3, <2>4, <4>1 DEF Credit!ToSet
    <3>3. d.commands[j].of # r /\ d.commands[j].of \in Requests
      BY <1>0, <2>13, <3>1, <3>2, CreditFields DEF CreditCommand
    <3> QED
      BY <1>0, <2>4, <2>6, <2>13, <3>1, <3>3 DEF CreditHolds, StartWaits
  <2>14. StartWaits(e)
    BY <1>0, <2>3, <2>4, <2>5, <2>13, PartKeepsStarts, Zenon DEF CreditHolds
  <2>15. \A p, q \in Requests : Credit!Open(e, p) /\ Credit!Open(e, q) /\ OwnerOf[p] = OwnerOf[q] => p = q
    BY <1>0, <2>8 DEF CreditHolds
  <2>16. CreditHolds(e)
    BY <2>9, <2>10, <2>12, <2>14, <2>15 DEF CreditHolds
  <2> QED
    BY <2>1, <2>4, <2>5, <2>6, <2>11, <2>16 DEF CreditGood, e
<1> QED
  BY <1>1, <1>2

LEMMA FinishAllKeepsCredit ==
    ASSUME NEW d \in CreditGood, NEW sessions \in SUBSET Requests
    PROVE  Credit!FinishAll(d, sessions) \in CreditGood
<1> DEFINE Follow(g) == g = [R \in SUBSET sessions |->
                            IF R = {} THEN d
                            ELSE Credit!Finish(g[R \ {CHOOSE x \in R : TRUE}], CHOOSE x \in R : TRUE)]
           step == [p \in Requests \X CreditGood |-> Credit!Finish(p[2], p[1])]
           pick == [R \in SUBSET sessions |-> CHOOSE x \in R : TRUE]
           range == [R \in SUBSET sessions |-> CreditGood]
<1>1. IsFiniteSet(sessions)
  BY CreditAssumption, FS_Subset
<1>2. \A R \in SUBSET sessions : R # {} => (CHOOSE x \in R : TRUE) \in R /\ R \ {CHOOSE x \in R : TRUE} \in SUBSET sessions
  OBVIOUS
<1>3. \A r \in Requests : \A e \in CreditGood : step[<<r, e>>] = Credit!Finish(e, r) /\ Credit!Finish(e, r) \in CreditGood
  BY FinishKeepsCredit
<1>4. \E g : Follow(g)
  <2>1. Picks(pick, sessions)
    BY <1>2 DEF Picks
  <2>2. \A R \in SUBSET sessions : R # {} =>
            \A e \in range[R \ {pick[R]}] : step[<<pick[R], e>>] \in range[R]
    <3> HIDE DEF step
    <3> QED
      BY <1>2, <1>3
  <2>3. d \in range[{}]
    OBVIOUS
  <2>4. PICK g : IsFold(g, d, pick, step, sessions) /\ \A R \in SUBSET sessions : g[R] \in range[R]
    <3> HIDE DEF step, pick, range
    <3> QED
      BY <1>1, <2>1, <2>2, <2>3, FoldReaches, Zenon
  <2>5. ASSUME NEW R \in SUBSET sessions
        PROVE  Reached(g, d, pick, step, R)
                  = IF R = {} THEN d
                    ELSE Credit!Finish(g[R \ {CHOOSE x \in R : TRUE}], CHOOSE x \in R : TRUE)
    <3> HIDE DEF step
    <3> QED
      BY <1>2, <1>3, <2>4, Zenon DEF Reached
  <2>6. Follow(g)
    BY <2>4, <2>5, Zenon DEF IsFold
  <2> QED
    BY <2>6, Zenon
<1> DEFINE g == CHOOSE g : Follow(g)
<1>5. Follow(g)
  BY <1>4, Zenon
<1>6. Credit!FinishAll(d, sessions) = g[sessions]
  BY DEF Credit!FinishAll, Credit!FoldSet, Credit!MapThenFoldSet
<1>7. g[sessions] \in CreditGood
  <2> DEFINE H == {R \in SUBSET sessions : g[R] \in CreditGood}
  <2>0. \A R \in SUBSET sessions : g[R] = IF R = {} THEN d
                            ELSE Credit!Finish(g[R \ {CHOOSE x \in R : TRUE}], CHOOSE x \in R : TRUE)
    BY <1>5, Zenon
  <2> HIDE DEF g
  <2>1. {} \in H
    BY <2>0, Zenon
  <2>2. ASSUME NEW R \in SUBSET sessions, R # {} PROVE \E x \in R : R \ {x} \in H => R \in H
    <3> DEFINE x == CHOOSE x \in R : TRUE
    <3>1. x \in R /\ x \in Requests /\ R \ {x} \in SUBSET sessions
      BY <2>2
    <3>2. g[R] = Credit!Finish(g[R \ {x}], x)
      BY <2>0, <2>2, Zenon
    <3> HIDE DEF x
    <3> QED
      BY <3>1, <3>2, FinishKeepsCredit, Zenon
  <2> HIDE DEF H
  <2>3. sessions \in H
    BY <1>1, <2>1, <2>2, SubsetInduction
  <2> QED
    BY <2>3 DEF H
<1> QED
  BY <1>6, <1>7

\* Commands may be dropped.
LEMMA DroppedKeepsCredit ==
    ASSUME NEW d \in CreditGood, NEW gone
    PROVE  LET e == [d EXCEPT !.commands = Credit!Without(d.commands, gone)] IN
           /\ e \in CreditGood /\ Leaves(d, e) /\ e.session = d.session
           /\ \A j \in DOMAIN e.commands : e.commands[j] \notin gone
<1> DEFINE commands == Left(d.commands, gone)
           e == [d EXCEPT !.commands = commands]
<1>0. d \in CreditSnapshot /\ CreditHolds(d)
  BY DEF CreditGood
<1>1. /\ commands \in Seq(CreditCommand) /\ PartOf(commands, d.commands)
      /\ \A i \in 1..Len(commands) : commands[i] \notin gone
  BY <1>0, CreditFields, LeftIsPart
<1> HIDE DEF commands
<1>2. e \in CreditSnapshot
  BY <1>0, <1>1, CreditTyped
<1>3. e.commands = commands /\ e.session = d.session /\ e.wallet = d.wallet
  BY <1>0 DEF CreditSnapshot
<1> HIDE DEF e
<1>4. Leaves(d, e) /\ DOMAIN e.commands = 1..Len(e.commands)
  BY <1>0, <1>1, <1>2, <1>3, PartLeaves, CreditFields
<1>5. /\ \A i \in DOMAIN e.commands : e.session[e.commands[i].of].state # "none"
      /\ \A i \in DOMAIN e.commands :
            e.commands[i].kind = "START" => e.session[e.commands[i].of].state = "pending"
  BY <1>0, <1>3, <1>4 DEF CreditHolds, StartWaits, Leaves
<1>6. StartWaits(e)
  BY <1>0, <1>1, <1>2, <1>3, <1>5, PartKeepsStarts DEF CreditHolds
<1>7. CreditHolds(e)
  BY <1>0, <1>3, <1>5, <1>6 DEF CreditHolds, Credit!Open
<1>8. /\ e \in CreditGood /\ Leaves(d, e) /\ e.session = d.session
      /\ \A j \in DOMAIN e.commands : e.commands[j] \notin gone
  BY <1>1, <1>2, <1>3, <1>4, <1>7 DEF CreditGood
<1> QED
  BY <1>8, CreditWithout DEF e, commands

\* What the answers to the commands at some places make of d.
AnsweredOf(d, places) ==
    {e \in CreditGood :
        /\ Leaves(d, e)
        /\ \A i \in DOMAIN d.commands \ places :
              d.commands[i].kind = "START" => e.session[d.commands[i].of].state = "pending"}

LEMMA AnswerKeepsCredit ==
    ASSUME NEW d \in CreditGood, NEW places \in SUBSET DOMAIN d.commands, NEW x \in places,
           NEW e \in AnsweredOf(d, places \ {x})
    PROVE  Credit!Answer(e, d.commands[x]) \in AnsweredOf(d, places)
<1> DEFINE c == d.commands[x]
           r == c.of
           done == [e EXCEPT !.commands = Credit!Without(e.commands, {c})]
<1>0. /\ d \in CreditSnapshot /\ CreditHolds(d) /\ e \in CreditSnapshot /\ CreditHolds(e)
      /\ e \in CreditGood /\ Leaves(d, e)
  BY DEF CreditGood, AnsweredOf
<1>1. /\ r \in Requests /\ x \in DOMAIN d.commands
      /\ c.kind = "START" => e.session[r].state = "pending"
      /\ \A i \in DOMAIN d.commands : d.commands[i].of \in Requests
  BY <1>0, CreditFields DEF CreditCommand, AnsweredOf
<1>2. /\ done \in CreditGood /\ Leaves(e, done) /\ done.session = e.session
      /\ \A j \in DOMAIN done.commands : done.commands[j] \notin {c}
  BY <1>0, DroppedKeepsCredit, Zenon
<1>3. \A i \in DOMAIN d.commands \ places :
        d.commands[i].kind = "START" => e.session[d.commands[i].of].state = "pending" /\ d.commands[i].of # r
  BY <1>0, <1>1 DEF AnsweredOf, CreditHolds, StartWaits
<1> HIDE DEF done
<1>4. Leaves(d, done)
  BY <1>0, <1>2 DEF Leaves
<1>5. e \in AnsweredOf(d, places)
  BY <1>0, <1>3 DEF AnsweredOf
<1>6. done \in AnsweredOf(d, places)
  BY <1>2, <1>3, <1>4 DEF AnsweredOf
<1>7. Credit!Finish(done, r) \in AnsweredOf(d, places)
  <2> DEFINE f == Credit!Finish(done, r)
  <2>1. f \in CreditGood /\ Leaves(done, f) /\ \A q \in Requests \ {r} : f.session[q] = done.session[q]
    BY <1>1, <1>2, FinishKeepsCredit
  <2> HIDE DEF f
  <2>2. Leaves(d, f)
    BY <1>4, <2>1 DEF Leaves
  <2> QED
    BY <1>1, <1>2, <1>3, <2>1, <2>2 DEF AnsweredOf, f
<1>8. c = d.commands[x] /\ r = c.of
  OBVIOUS
<1> HIDE DEF r, c
<1>9. ASSUME c.kind = "START", Credit!ValidStart(e, r, e.session[r].bay, TRUE)
      PROVE  [done EXCEPT !.session[r].state = "charging"] \in AnsweredOf(d, places)
  <2> DEFINE session == [done.session EXCEPT ![r] = [done.session[r] EXCEPT !.state = "charging"]]
             f == [done EXCEPT !.session = session]
  <2>1. [done EXCEPT !.session[r].state = "charging"] = f
    OBVIOUS
  <2>2. done \in CreditSnapshot /\ CreditHolds(done)
    BY <1>2 DEF CreditGood
  <2>3. session \in [Requests -> CreditSession]
    <3>1. done.session \in [Requests -> CreditSession] /\ done.session[r] \in CreditSession
      BY <1>1, <2>2, CreditFields
    <3>2. [done.session[r] EXCEPT !.state = "charging"] \in CreditSession
      BY <3>1 DEF CreditSession
    <3> QED
      BY <3>1, <3>2, Zenon
  <2>4. /\ \A q \in Requests \ {r} : session[q] = done.session[q]
        /\ session[r].state = "charging" /\ session[r].reserved = done.session[r].reserved
        /\ session[r].tariff = done.session[r].tariff /\ session[r].bay = done.session[r].bay
    BY <1>1, <2>2, CreditFields DEF CreditSession
  <2> HIDE DEF session
  <2>5. f \in CreditSnapshot
    BY <2>2, <2>3, CreditTyped
  <2>6. f.session = session /\ f.commands = done.commands /\ f.wallet = done.wallet
    BY <2>2 DEF CreditSnapshot
  <2> HIDE DEF f
  <2>7. done.session[r].state = "pending"
    BY <1>1, <1>2, <1>9
  <2>8. \A q \in Requests : Credit!Open(f, q) <=> Credit!Open(done, q)
    BY <2>4, <2>6, <2>7 DEF Credit!Open
  <2>9. \A j \in DOMAIN f.commands : f.commands[j].of # r
    <3> SUFFICES ASSUME NEW j \in DOMAIN f.commands, f.commands[j].of = r PROVE FALSE
      OBVIOUS
    <3>1. PICK i \in DOMAIN d.commands : f.commands[j] = d.commands[i]
      BY <1>4, <2>6 DEF Leaves
    <3>2. i = x
      BY <1>0, <1>1, <1>9, <1>8, <3>1 DEF CreditHolds, StartWaits
    <3> QED
      BY <1>2, <1>8, <2>6, <3>1, <3>2
  <2>10. \A j \in DOMAIN f.commands : f.commands[j].of \in Requests
    BY <2>5, CreditFields DEF CreditCommand
  <2>11. CreditHolds(f)
    <3>1. StartWaits(f)
      BY <2>2, <2>4, <2>6, <2>9, <2>10 DEF CreditHolds, StartWaits
    <3>2. \A i \in DOMAIN f.commands : f.session[f.commands[i].of].state # "none"
      BY <2>2, <2>4, <2>6, <2>9, <2>10 DEF CreditHolds
    <3>3. \A q \in Requests : Credit!Open(f, q) =>
            /\ f.session[q].reserved >= 0 /\ f.session[q].reserved <= f.wallet[OwnerOf[q]]
            /\ f.session[q].tariff \in Tariffs /\ f.session[q].bay \in Bays
      BY <2>2, <2>4, <2>6, <2>8 DEF CreditHolds
    <3> QED
      BY <2>2, <2>6, <2>8, <3>1, <3>2, <3>3 DEF CreditHolds
  <2>12. Leaves(d, f)
    BY <1>4, <2>6 DEF Leaves
  <2>13. \A i \in DOMAIN d.commands \ places :
            d.commands[i].kind = "START" => f.session[d.commands[i].of].state = "pending"
    BY <1>1, <1>2, <1>3, <2>4, <2>6
  <2> QED
    BY <2>1, <2>5, <2>11, <2>12, <2>13, Zenon DEF AnsweredOf, CreditGood
<1>10. Credit!Answer(e, c) \in {e, done, Credit!Finish(done, r)} \/
        /\ c.kind = "START" /\ Credit!ValidStart(e, r, e.session[r].bay, TRUE)
        /\ Credit!Answer(e, c) = [done EXCEPT !.session[r].state = "charging"]
  BY Zenon DEF Credit!Answer, done, r
<1>11. Credit!Answer(e, c) \in AnsweredOf(d, places)
  BY <1>5, <1>6, <1>7, <1>9, <1>10, Zenon
<1> QED
  BY <1>11 DEF c

LEMMA AnsweredKeepsCredit ==
    ASSUME NEW d \in CreditGood
    PROVE  Credit!Answered(d) \in CreditGood
<1> DEFINE places == DOMAIN d.commands
           last(R) == Credit!Max(R)
           Follow(g) == g = [R \in SUBSET places |->
                            IF R = {} THEN d
                            ELSE Credit!Answer(g[R \ {last(R)}], d.commands[last(R)])]
           step == [p \in places \X CreditGood |-> Credit!Answer(p[2], d.commands[p[1]])]
           pick == [R \in SUBSET places |-> last(R)]
           range == [R \in SUBSET places |-> AnsweredOf(d, R)]
<1>0. d \in CreditSnapshot /\ CreditHolds(d)
  BY DEF CreditGood
<1>1. places = 1..Len(d.commands) /\ Len(d.commands) \in Nat
  BY <1>0, CreditFields
<1>2. IsFiniteSet(places)
  <2>1. \A n \in Nat : IsFiniteSet(1..n)
    BY FS_Interval
  <2> HIDE DEF places
  <2> QED
    BY <1>1, <2>1
<1>3. \A R \in SUBSET places : R # {} => last(R) \in R
  <2>1. ASSUME NEW R \in SUBSET places, R # {} PROVE \E x \in R : \A y \in R : x >= y
    BY <1>1, <2>1, GreatestNumber, Zenon
  <2> QED
    BY <2>1 DEF Credit!Max
<1>4. ASSUME NEW x \in places, NEW e \in CreditGood
      PROVE  step[<<x, e>>] = Credit!Answer(e, d.commands[x])
  OBVIOUS
<1>5. d \in AnsweredOf(d, {})
  BY <1>0 DEF AnsweredOf, Leaves, CreditHolds, StartWaits
<1>6. \A R \in SUBSET places : AnsweredOf(d, R) \subseteq CreditGood
  BY DEF AnsweredOf
<1> HIDE DEF last, step
<1>7. \E g : Follow(g)
  <2>1. Picks(pick, places)
    BY <1>3 DEF Picks
  <2>2. \A R \in SUBSET places : R # {} =>
            \A e \in range[R \ {pick[R]}] : step[<<pick[R], e>>] \in range[R]
    <3> SUFFICES ASSUME NEW R \in SUBSET places, R # {}, NEW e \in AnsweredOf(d, R \ {last(R)})
                 PROVE  step[<<last(R), e>>] \in AnsweredOf(d, R)
      BY Zenon
    <3>1. last(R) \in R /\ R \ {last(R)} \in SUBSET places /\ e \in CreditGood
      BY <1>3, <1>6
    <3>2. step[<<last(R), e>>] = Credit!Answer(e, d.commands[last(R)])
      BY <1>4, <3>1
    <3> QED
      BY <3>1, <3>2, AnswerKeepsCredit
  <2>3. d \in range[{}]
    BY <1>5
  <2>4. PICK g : IsFold(g, d, pick, step, places) /\ \A R \in SUBSET places : g[R] \in range[R]
    <3> HIDE DEF pick, range
    <3> QED
      BY <1>2, <2>1, <2>2, <2>3, FoldReaches, Zenon
  <2>5. ASSUME NEW R \in SUBSET places
        PROVE  Reached(g, d, pick, step, R)
                  = IF R = {} THEN d ELSE Credit!Answer(g[R \ {last(R)}], d.commands[last(R)])
    BY <1>3, <1>4, <1>6, <2>4, Zenon DEF Reached
  <2>6. Follow(g)
    BY <2>4, <2>5, Zenon DEF IsFold
  <2> QED
    BY <2>6, Zenon
<1> DEFINE g == CHOOSE g : Follow(g)
<1>8. Follow(g)
  BY <1>7, Zenon
<1>9. Credit!Answered(d) = g[places]
  BY DEF Credit!Answered, Credit!FoldLeft, Credit!MapThenFoldSet, last
<1>10. g[places] \in AnsweredOf(d, places)
  <2> DEFINE H == {R \in SUBSET places : g[R] \in AnsweredOf(d, R)}
  <2>0. \A R \in SUBSET places : g[R] = IF R = {} THEN d
                            ELSE Credit!Answer(g[R \ {last(R)}], d.commands[last(R)])
    BY <1>8, Zenon
  <2> HIDE DEF g
  <2>1. {} \in H
    BY <1>5, <2>0
  <2>2. ASSUME NEW R \in SUBSET places, R # {} PROVE \E x \in R : R \ {x} \in H => R \in H
    <3> SUFFICES ASSUME g[R \ {last(R)}] \in AnsweredOf(d, R \ {last(R)})
                 PROVE  g[R] \in AnsweredOf(d, R)
      BY <1>3, <2>2
    <3>1. last(R) \in R /\ g[R] = Credit!Answer(g[R \ {last(R)}], d.commands[last(R)])
      BY <1>3, <2>0, <2>2
    <3> QED
      BY <3>1, AnswerKeepsCredit
  <2> HIDE DEF H
  <2>3. places \in H
    BY <1>2, <2>1, <2>2, SubsetInduction, Zenon
  <2> QED
    BY <2>3 DEF H
<1> QED
  BY <1>6, <1>9, <1>10

-----------------------------------------------------------------------------
\* Money may come in, and the state of a payment is its own.
LEMMA PostedKeepsCredit ==
    ASSUME NEW d \in CreditGood
    PROVE  Credit!Posted(d) \in CreditGood
<1> DEFINE due == {p \in Payments : /\ d.payment[p].status = "pending" /\ d.payment[p].due = 2
                                    /\ d.payment[p].outcome # "pending"}
           Take(p, rest) ==
               IF d.payment[p].outcome # "success"
               THEN [rest EXCEPT !.payment[p] = Credit!Closed(d.payment[p].outcome)]
               ELSE IF rest.wallet[PayerOf[p]] + TopUp > MaxWallet
                    THEN [rest EXCEPT !.payment[p] = Credit!Closed("failed")]
               ELSE [Credit!Post(rest, <<"CREDIT", p>>, PayerOf[p], TopUp) EXCEPT
                        !.payment[p] = Credit!Closed("verified")]
           one(R) == CHOOSE x \in R : TRUE
           Follow(g) == g = [R \in SUBSET due |->
                            IF R = {} THEN d ELSE Take(one(R), g[R \ {one(R)}])]
           step == [p \in due \X CreditGood |-> Take(p[1], p[2])]
           pick == [R \in SUBSET due |-> one(R)]
           range == [R \in SUBSET due |-> CreditGood]
<1>0. d \in CreditSnapshot
  BY DEF CreditGood
<1>1. IsFiniteSet(due) /\ due \in SUBSET Payments
  BY CreditAssumption, FS_Subset
<1>2. \A R \in SUBSET due : R # {} => one(R) \in R
  OBVIOUS
<1>3. ASSUME NEW p \in due, NEW e \in CreditGood PROVE Take(p, e) \in CreditGood
  <2>1. e \in CreditSnapshot /\ CreditHolds(e) /\ p \in Payments /\ PayerOf[p] \in Owners
    BY CreditAssumption DEF CreditGood
  <2>2. ASSUME NEW status \in {"verified", "success", "failed", "cancelled", "none"}
        PROVE  [e EXCEPT !.payment[p] = Credit!Closed(status)] \in CreditGood
    <3> DEFINE payment == [e.payment EXCEPT ![p] = Credit!Closed(status)]
               f == [e EXCEPT !.payment = payment]
    <3>1. payment \in [Payments -> CreditPayment]
      <4>1. Credit!Closed(status) \in CreditPayment
        BY DEF Credit!Closed, CreditPayment
      <4>2. e.payment \in [Payments -> CreditPayment]
        BY <2>1, CreditFields
      <4> QED
        BY <4>1, <4>2
    <3> HIDE DEF payment
    <3>2. f \in CreditSnapshot
      BY <2>1, <3>1, CreditTyped
    <3>3. f.session = e.session /\ f.commands = e.commands /\ f.wallet = e.wallet
      BY <2>1 DEF CreditSnapshot
    <3> HIDE DEF f
    <3>4. CreditHolds(f)
      BY <2>1, <3>3 DEF CreditHolds, StartWaits, Credit!Open
    <3> QED
      BY <3>2, <3>4 DEF CreditGood, f, payment
  <2>3. CASE d.payment[p].outcome # "success"
    <3>1. d.payment[p].outcome \in {"none", "failed", "cancelled"}
      BY <1>0, <2>1, <2>3, CreditFields DEF CreditPayment
    <3> QED
      BY <2>2, <2>3, <3>1
  <2>4. CASE d.payment[p].outcome = "success" /\ e.wallet[PayerOf[p]] + TopUp > MaxWallet
    BY <2>2, <2>4
  <2>5. CASE d.payment[p].outcome = "success" /\ ~(e.wallet[PayerOf[p]] + TopUp > MaxWallet)
    <3> DEFINE payment == [e.payment EXCEPT ![p] = Credit!Closed("verified")]
               wallet == [e.wallet EXCEPT ![PayerOf[p]] = e.wallet[PayerOf[p]] + TopUp]
               ledger == e.ledger \cup {<<"CREDIT", p>>}
               f == [e EXCEPT !.payment = payment, !.wallet = wallet, !.ledger = ledger]
    <3>1. payment \in [Payments -> CreditPayment]
      <4>1. Credit!Closed("verified") \in CreditPayment
        BY DEF Credit!Closed, CreditPayment
      <4>2. e.payment \in [Payments -> CreditPayment]
        BY <2>1, CreditFields
      <4> QED
        BY <4>1, <4>2
    <3>2. wallet \in [Owners -> Int] /\ \A u \in Owners : wallet[u] >= e.wallet[u]
      <4>1. e.wallet \in [Owners -> Int] /\ TopUp \in Nat
        BY <2>1, CreditFields, CreditAssumption
      <4> QED
        BY <2>1, <4>1
    <3>3. ledger \in SUBSET Entry
      BY <2>1, CreditFields DEF Entry
    <3>4. Take(p, e) = f
      <4>1. Credit!Post(e, <<"CREDIT", p>>, PayerOf[p], TopUp) = [e EXCEPT !.wallet = wallet, !.ledger = ledger]
        BY DEF Credit!Post
      <4>2. Take(p, e) = [[e EXCEPT !.wallet = wallet, !.ledger = ledger] EXCEPT !.payment[p] = Credit!Closed("verified")]
        BY <2>5, <4>1, Zenon
      <4> HIDE DEF wallet, ledger
      <4> QED
        BY <2>1, <4>2, Zenon DEF CreditSnapshot
    <3>5. f.session = e.session /\ f.commands = e.commands /\ f.wallet = wallet
      BY <2>1 DEF CreditSnapshot
    <3>6. f \in CreditSnapshot
      <4>1. f = [[[e EXCEPT !.payment = payment] EXCEPT !.wallet = wallet] EXCEPT !.ledger = ledger]
        <5> HIDE DEF payment, wallet, ledger
        <5> QED
          BY <2>1 DEF CreditSnapshot
      <4> HIDE DEF payment, wallet, ledger, f
      <4> QED
        BY <2>1, <3>1, <3>2, <3>3, <4>1, CreditTyped, Zenon
    <3> HIDE DEF f, wallet, payment, ledger, Take
    <3>7. \A u \in Owners : f.wallet[u] \in Int /\ e.wallet[u] \in Int /\ f.wallet[u] >= e.wallet[u]
      BY <2>1, <3>2, <3>5, <3>6, CreditFields
    <3>8. \A r \in Requests : Credit!Open(f, r) <=> Credit!Open(e, r)
      BY <3>5 DEF Credit!Open
    <3>9. \A u \in Owners : f.wallet[u] >= 0
      BY <2>1, <3>7 DEF CreditHolds
    <3>10. \A r \in Requests : Credit!Open(e, r) => e.session[r].reserved <= f.wallet[OwnerOf[r]]
      BY <2>1, <3>7, CreditFields DEF CreditHolds
    <3>11. CreditHolds(f)
      BY <2>1, <3>5, <3>8, <3>9, <3>10 DEF CreditHolds, StartWaits
    <3> QED
      BY <3>4, <3>6, <3>11 DEF CreditGood
  <2> QED
    BY <2>3, <2>4, <2>5
<1>4. ASSUME NEW p \in due, NEW e \in CreditGood PROVE step[<<p, e>>] = Take(p, e)
  <2> HIDE DEF Take
  <2> QED
    OBVIOUS
<1>5. Credit!Posted(d) = (CHOOSE g : Follow(g))[due]
  BY DEF Credit!Posted, Credit!FoldSet, Credit!MapThenFoldSet
<1> HIDE DEF Take, due, one, step
<1>6. \E g : Follow(g)
  <2>1. Picks(pick, due)
    BY <1>2 DEF Picks
  <2>2. \A R \in SUBSET due : R # {} =>
            \A e \in range[R \ {pick[R]}] : step[<<pick[R], e>>] \in range[R]
    BY <1>2, <1>3, <1>4
  <2>3. d \in range[{}]
    OBVIOUS
  <2>4. PICK g : IsFold(g, d, pick, step, due) /\ \A R \in SUBSET due : g[R] \in range[R]
    <3> HIDE DEF pick, range
    <3> QED
      BY <1>1, <2>1, <2>2, <2>3, FoldReaches, Zenon
  <2>5. ASSUME NEW R \in SUBSET due
        PROVE  Reached(g, d, pick, step, R) = IF R = {} THEN d ELSE Take(one(R), g[R \ {one(R)}])
    BY <1>2, <1>4, <2>4 DEF Reached
  <2>6. Follow(g)
    BY <2>4, <2>5, Zenon DEF IsFold
  <2> QED
    BY <2>6, Zenon
<1> DEFINE g == CHOOSE g : Follow(g)
<1>7. Follow(g)
  BY <1>6, Zenon
<1>8. g[due] \in CreditGood
  <2> DEFINE H == {R \in SUBSET due : g[R] \in CreditGood}
  <2>0. \A R \in SUBSET due : g[R] = IF R = {} THEN d ELSE Take(one(R), g[R \ {one(R)}])
    BY <1>7, Zenon
  <2> HIDE DEF g
  <2>1. {} \in H
    BY <2>0
  <2>2. ASSUME NEW R \in SUBSET due, R # {} PROVE \E x \in R : R \ {x} \in H => R \in H
    <3> SUFFICES ASSUME g[R \ {one(R)}] \in CreditGood PROVE g[R] \in CreditGood
      BY <1>2, <2>2, Zenon
    <3>1. one(R) \in due /\ g[R] = Take(one(R), g[R \ {one(R)}])
      BY <1>2, <2>0, <2>2
    <3> QED
      BY <1>3, <3>1
  <2> HIDE DEF H
  <2>3. due \in H
    BY <1>1, <2>1, <2>2, SubsetInduction, Zenon
  <2> QED
    BY <2>3 DEF H
<1> QED
  BY <1>5, <1>8

-----------------------------------------------------------------------------
(* CreditDemo: the tick *)

\* Who has what on hold depends on sessions, commands and balances only.
LEMMA OthersKeepCredit ==
    ASSUME NEW e \in CreditGood, NEW f \in CreditSnapshot,
           f.session = e.session, f.commands = e.commands, f.wallet = e.wallet
    PROVE  f \in CreditGood
BY DEF CreditGood, CreditHolds, StartWaits, Credit!Open

\* A field of a bay.
LEMMA BayKeepsCredit ==
    ASSUME NEW d \in CreditGood, NEW b \in Bays, NEW bay \in CreditBay
    PROVE  [d EXCEPT !.bay = [d.bay EXCEPT ![b] = bay]] \in CreditGood
<1> DEFINE bays == [d.bay EXCEPT ![b] = bay]
           f == [d EXCEPT !.bay = bays]
<1>1. d \in CreditSnapshot
  BY DEF CreditGood
<1>2. bays \in [Bays -> CreditBay]
  BY <1>1, CreditFields
<1> HIDE DEF bays
<1>3. f \in CreditSnapshot
  BY <1>1, <1>2, CreditTyped
<1>4. f.session = d.session /\ f.commands = d.commands /\ f.wallet = d.wallet
  BY <1>1 DEF CreditSnapshot
<1> HIDE DEF f
<1>5. f \in CreditGood
  BY <1>3, <1>4, OthersKeepCredit
<1> QED
  BY <1>5 DEF f, bays

LEMMA FaultKeepsCredit ==
    ASSUME NEW d \in CreditGood, NEW b \in Bays, NEW on \in BOOLEAN
    PROVE  [d EXCEPT !.bay[b].fault = on] \in CreditGood
<1>1. d \in CreditSnapshot
  BY DEF CreditGood
<1>2. [d.bay[b] EXCEPT !.fault = on] \in CreditBay
  <2>1. d.bay[b] \in CreditBay
    BY <1>1, CreditFields
  <2> QED
    BY <2>1 DEF CreditBay
<1>3. [d EXCEPT !.bay[b].fault = on] = [d EXCEPT !.bay = [d.bay EXCEPT ![b] = [d.bay[b] EXCEPT !.fault = on]]]
  OBVIOUS
<1> QED
  BY <1>2, <1>3, BayKeepsCredit

\* A session has taken some energy, and its vehicle takes that much less.
LEMMA ReadKeepsCredit ==
    ASSUME NEW d \in CreditGood, NEW r \in Requests, NEW energy \in Int, NEW room \in Int
    PROVE  [d EXCEPT !.session[r].energy = energy, !.room[OwnerOf[r]] = room] \in CreditGood
<1> DEFINE session == [d.session EXCEPT ![r] = [d.session[r] EXCEPT !.energy = energy]]
           rooms == [d.room EXCEPT ![OwnerOf[r]] = room]
           e == [d EXCEPT !.session = session]
           f == [e EXCEPT !.room = rooms]
<1>0. d \in CreditSnapshot /\ CreditHolds(d)
  BY DEF CreditGood
<1>1. session \in [Requests -> CreditSession] /\ rooms \in [Owners -> Int]
  <2>1. d.session \in [Requests -> CreditSession] /\ d.session[r] \in CreditSession /\ d.room \in [Owners -> Int]
    BY <1>0, CreditFields
  <2>2. [d.session[r] EXCEPT !.energy = energy] \in CreditSession
    BY <2>1 DEF CreditSession
  <2> QED
    BY <2>1, <2>2, Zenon
<1>2. /\ \A q \in Requests \ {r} : session[q] = d.session[q]
      /\ session[r].state = d.session[r].state /\ session[r].reserved = d.session[r].reserved
      /\ session[r].tariff = d.session[r].tariff /\ session[r].bay = d.session[r].bay
  BY <1>0, CreditFields DEF CreditSession
<1>3. [d EXCEPT !.session[r].energy = energy, !.room[OwnerOf[r]] = room] = f
  <2>1. [d EXCEPT !.session[r].energy = energy] = e /\ e.room = d.room
    BY <1>0 DEF CreditSnapshot
  <2> QED
    BY <2>1
<1> HIDE DEF session, rooms
<1>4. e \in CreditSnapshot
  BY <1>0, <1>1, CreditTyped
<1>5. e.session = session /\ e.commands = d.commands /\ e.wallet = d.wallet /\ e.room = d.room
  BY <1>0 DEF CreditSnapshot
<1> HIDE DEF e
<1>6. f \in CreditSnapshot
  BY <1>1, <1>4, CreditTyped
<1>7. f.session = session /\ f.commands = d.commands /\ f.wallet = d.wallet
  BY <1>4, <1>5 DEF CreditSnapshot
<1> HIDE DEF f
<1>8. /\ \A q \in Requests : Credit!Open(f, q) <=> Credit!Open(d, q)
      /\ \A q \in Requests : /\ session[q].state = d.session[q].state /\ session[q].bay = d.session[q].bay
                             /\ session[q].reserved = d.session[q].reserved
                             /\ session[q].tariff = d.session[q].tariff
  BY <1>2, <1>7 DEF Credit!Open
<1>9. \A i \in DOMAIN d.commands : d.commands[i].of \in Requests
  BY <1>0, CreditFields DEF CreditCommand
<1>10. CreditHolds(f)
  <2>1. StartWaits(f)
    BY <1>0, <1>7, <1>8, <1>9 DEF CreditHolds, StartWaits
  <2> QED
    BY <1>0, <1>7, <1>8, <1>9, <2>1 DEF CreditHolds
<1> QED
  BY <1>3, <1>6, <1>10 DEF CreditGood

Supply == [given : [Requests -> 0..MaxStep], dry : BOOLEAN]

LEMMA MeteredKeepsCredit ==
    ASSUME NEW d \in CreditGood, NEW supply \in Supply
    PROVE  Credit!Metered(d, supply) \in CreditGood
<1> DEFINE charging == {r \in Requests : d.session[r].state = "charging"}
           most(r) == Credit!Smaller(Credit!AffordableEnergy(d.session[r].reserved, d.session[r].tariff),
                                     d.session[r].limit)
           energy(r) == Credit!Smaller(d.session[r].energy + supply.given[r], most(r))
           read(r, rest) == [rest EXCEPT !.session[r].energy = energy(r),
                                         !.room[OwnerOf[r]] = d.session[r].limit - energy(r)]
           Meter(r, rest) ==
               IF energy(r) >= most(r) THEN Credit!Finish(read(r, rest), r)
               ELSE IF supply.dry
                    THEN Credit!Finish([read(r, rest) EXCEPT !.bay[d.session[r].bay].fault = TRUE], r)
               ELSE read(r, rest)
           one(R) == CHOOSE x \in R : TRUE
           Follow(g) == g = [R \in SUBSET charging |->
                            IF R = {} THEN d ELSE Meter(one(R), g[R \ {one(R)}])]
           step == [p \in charging \X CreditGood |-> Meter(p[1], p[2])]
           pick == [R \in SUBSET charging |-> one(R)]
           range == [R \in SUBSET charging |-> CreditGood]
<1>0. d \in CreditSnapshot /\ CreditHolds(d)
  BY DEF CreditGood
<1>1. IsFiniteSet(charging) /\ charging \in SUBSET Requests
  BY CreditAssumption, FS_Subset
<1>2. \A R \in SUBSET charging : R # {} => one(R) \in R
  OBVIOUS
<1>3. ASSUME NEW r \in charging, NEW e \in CreditGood PROVE Meter(r, e) \in CreditGood
  <2>1. /\ r \in Requests /\ d.session[r] \in CreditSession /\ Credit!Open(d, r)
        /\ d.session[r].tariff \in Nat \ {0} /\ d.session[r].bay \in Bays
    BY <1>0, CreditFields, CreditAssumption, Zenon DEF CreditHolds, Credit!Open
  <2>2. Credit!AffordableEnergy(d.session[r].reserved, d.session[r].tariff) \in Int
    <3>1. d.session[r].reserved * Unit \in Int
      BY <2>1, CreditAssumption DEF CreditSession
    <3> DEFINE product == d.session[r].reserved * Unit
               tariff == d.session[r].tariff
    <3>2. product \div tariff \in Int
      <4>1. product \in Int /\ tariff \in Int /\ tariff > 0
        BY <2>1, <3>1
      <4> HIDE DEF product, tariff
      <4> QED
        BY <4>1
    <3> QED
      BY <3>2 DEF Credit!AffordableEnergy
  <2>3. most(r) \in Int /\ energy(r) \in Int /\ d.session[r].limit - energy(r) \in Int
    <3>1. d.session[r].limit \in Int /\ d.session[r].energy \in Int /\ supply.given[r] \in Int
      BY <2>1 DEF CreditSession, Supply
    <3>2. most(r) \in Int
      BY <2>2, <3>1 DEF Credit!Smaller
    <3> HIDE DEF most
    <3>3. energy(r) \in Int
      BY <3>1, <3>2 DEF Credit!Smaller
    <3> HIDE DEF energy
    <3> QED
      BY <3>1, <3>2, <3>3
  <2> HIDE DEF energy, most
  <2>4. read(r, e) \in CreditGood
    BY <2>1, <2>3, ReadKeepsCredit, Zenon
  <2> HIDE DEF read
  <2>5. [read(r, e) EXCEPT !.bay[d.session[r].bay].fault = TRUE] \in CreditGood
    BY <2>1, <2>4, FaultKeepsCredit, Zenon
  <2> QED
    BY <2>1, <2>4, <2>5, FinishKeepsCredit
<1>4. ASSUME NEW r \in charging, NEW e \in CreditGood PROVE step[<<r, e>>] = Meter(r, e)
  <2> HIDE DEF Meter
  <2> QED
    OBVIOUS
<1>5. Credit!Metered(d, supply) = (CHOOSE g : Follow(g))[charging]
  BY DEF Credit!Metered, Credit!FoldSet, Credit!MapThenFoldSet
<1> HIDE DEF Meter, charging, one, step
<1>6. \E g : Follow(g)
  <2>1. Picks(pick, charging)
    BY <1>2 DEF Picks
  <2>2. \A R \in SUBSET charging : R # {} =>
            \A e \in range[R \ {pick[R]}] : step[<<pick[R], e>>] \in range[R]
    BY <1>2, <1>3, <1>4
  <2>3. d \in range[{}]
    OBVIOUS
  <2>4. PICK g : IsFold(g, d, pick, step, charging) /\ \A R \in SUBSET charging : g[R] \in range[R]
    <3> HIDE DEF pick, range
    <3> QED
      BY <1>1, <2>1, <2>2, <2>3, FoldReaches, Zenon
  <2>5. ASSUME NEW R \in SUBSET charging
        PROVE  Reached(g, d, pick, step, R) = IF R = {} THEN d ELSE Meter(one(R), g[R \ {one(R)}])
    BY <1>2, <1>4, <2>4 DEF Reached
  <2>6. Follow(g)
    BY <2>4, <2>5, Zenon DEF IsFold
  <2> QED
    BY <2>6, Zenon
<1> DEFINE g == CHOOSE g : Follow(g)
<1>7. Follow(g)
  BY <1>6, Zenon
<1>8. g[charging] \in CreditGood
  <2> DEFINE H == {R \in SUBSET charging : g[R] \in CreditGood}
  <2>0. \A R \in SUBSET charging : g[R] = IF R = {} THEN d ELSE Meter(one(R), g[R \ {one(R)}])
    BY <1>7, Zenon
  <2> HIDE DEF g
  <2>1. {} \in H
    BY <2>0
  <2>2. ASSUME NEW R \in SUBSET charging, R # {} PROVE \E x \in R : R \ {x} \in H => R \in H
    <3> SUFFICES ASSUME g[R \ {one(R)}] \in CreditGood PROVE g[R] \in CreditGood
      BY <1>2, <2>2, Zenon
    <3>1. one(R) \in charging /\ g[R] = Meter(one(R), g[R \ {one(R)}])
      BY <1>2, <2>0, <2>2
    <3> QED
      BY <1>3, <3>1
  <2> HIDE DEF H
  <2>3. charging \in H
    BY <1>1, <2>1, <2>2, SubsetInduction, Zenon
  <2> QED
    BY <2>3 DEF H
<1> QED
  BY <1>5, <1>8

LEMMA AdvancedKeepsCredit ==
    ASSUME NEW d \in CreditGood, NEW supply \in Supply
    PROVE  Credit!Advanced(d, supply) \in CreditGood
<1>1. Credit!Posted(d) \in CreditGood
  BY PostedKeepsCredit
<1> DEFINE p == Credit!Posted(d)
           a == Credit!Answered(p)
           s == Credit!Swept(a)
           m == Credit!Metered(s, supply)
<1>2. a \in CreditGood
  BY <1>1, AnsweredKeepsCredit
<1> HIDE DEF a
<1>3. s \in CreditGood
  BY <1>2, FinishAllKeepsCredit DEF Credit!Swept
<1> HIDE DEF s
<1>4. m \in CreditGood
  BY <1>3, MeteredKeepsCredit
<1> HIDE DEF m
<1>5. m \in CreditSnapshot /\ m.device \in CreditDevice
  BY <1>4, CreditFields DEF CreditGood
<1> DEFINE device == [m.device EXCEPT !.away = m.device.away /\ ~d.device.online]
           f == [m EXCEPT !.device = device]
<1>6. device \in CreditDevice
  BY <1>5, Zenon DEF CreditDevice
<1>7. Credit!Advanced(d, supply) = f
  BY DEF Credit!Advanced, p, a, s, m
<1> HIDE DEF device
<1>8. f \in CreditSnapshot
  BY <1>5, <1>6, CreditTyped
<1>9. f.session = m.session /\ f.commands = m.commands /\ f.wallet = m.wallet
  BY <1>5 DEF CreditSnapshot
<1> HIDE DEF f
<1> QED
  BY <1>4, <1>7, <1>8, <1>9, OthersKeepCredit

-----------------------------------------------------------------------------
(* CreditDemo: the operations of the screens *)

LEMMA Prepended ==
    ASSUME NEW C, NEW s \in Seq(C), NEW c \in C
    PROVE  /\ <<c>> \o s \in Seq(C) /\ Len(<<c>> \o s) = Len(s) + 1
           /\ \A i \in 1..(Len(s) + 1) : (<<c>> \o s)[i] = IF i = 1 THEN c ELSE s[i - 1]
OBVIOUS

\* A command may be sent about a session that waits for no start.
LEMMA SentKeepsCredit ==
    ASSUME NEW d \in CreditGood, NEW c \in CreditCommand,
           d.session[c.of].state # "none",
           c.kind = "START" => d.session[c.of].state = "pending"
                               /\ \A i \in DOMAIN d.commands : d.commands[i].of # c.of,
           \A i \in DOMAIN d.commands : d.commands[i].kind = "START" => d.commands[i].of # c.of
    PROVE  [d EXCEPT !.commands = <<c>> \o d.commands] \in CreditGood
<1> DEFINE commands == <<c>> \o d.commands
           e == [d EXCEPT !.commands = commands]
<1>0. d \in CreditSnapshot /\ CreditHolds(d)
  BY DEF CreditGood
<1>1. /\ commands \in Seq(CreditCommand) /\ Len(commands) = Len(d.commands) + 1
      /\ \A i \in 1..(Len(d.commands) + 1) : commands[i] = IF i = 1 THEN c ELSE d.commands[i - 1]
      /\ DOMAIN d.commands = 1..Len(d.commands) /\ Len(d.commands) \in Nat
  <2>1. d.commands \in Seq(CreditCommand)
    BY <1>0, CreditFields
  <2> QED
    BY <2>1, Prepended
<1> HIDE DEF commands
<1>2. e \in CreditSnapshot
  BY <1>0, <1>1, CreditTyped
<1>3. e.session = d.session /\ e.commands = commands /\ e.wallet = d.wallet
  BY <1>0 DEF CreditSnapshot
<1> HIDE DEF e
<1>4. ASSUME NEW i \in DOMAIN e.commands
      PROVE  \/ i = 1 /\ e.commands[i] = c
             \/ i # 1 /\ i - 1 \in DOMAIN d.commands /\ e.commands[i] = d.commands[i - 1] /\ i \in Int
  <2>1. DOMAIN e.commands = 1..(Len(d.commands) + 1)
    BY <1>1, <1>2, <1>3, CreditFields
  <2> QED
    BY <1>1, <1>3, <2>1
<1>5. \A i \in DOMAIN e.commands : e.session[e.commands[i].of].state # "none"
  BY <1>0, <1>3, <1>4 DEF CreditHolds
<1>6. ASSUME NEW i \in DOMAIN e.commands, e.commands[i].kind = "START"
      PROVE  /\ e.session[e.commands[i].of].state = "pending"
             /\ \A j \in DOMAIN e.commands : e.commands[j].of = e.commands[i].of => j = i
  <2>1. CASE i = 1
    BY <1>3, <1>4, <1>6, <2>1
  <2>2. CASE i # 1
    <3>1. i - 1 \in DOMAIN d.commands /\ e.commands[i] = d.commands[i - 1] /\ i \in Int
      BY <1>4, <2>2
    <3>2. d.session[d.commands[i - 1].of].state = "pending"
      BY <1>0, <1>6, <3>1 DEF CreditHolds, StartWaits
    <3>3. ASSUME NEW j \in DOMAIN e.commands, e.commands[j].of = e.commands[i].of PROVE j = i
      <4>1. j # 1
        BY <1>4, <1>6, <3>1, <3>3
      <4>2. j - 1 \in DOMAIN d.commands /\ e.commands[j] = d.commands[j - 1] /\ j \in Int
        BY <1>4, <4>1
      <4>3. j - 1 = i - 1
        BY <1>0, <1>6, <3>1, <3>3, <4>2 DEF CreditHolds, StartWaits
      <4> QED
        BY <3>1, <4>2, <4>3
    <3> QED
      BY <1>3, <3>1, <3>2, <3>3
  <2> QED
    BY <2>1, <2>2
<1>7. StartWaits(e)
  BY <1>6 DEF StartWaits
<1>8. CreditHolds(e)
  BY <1>0, <1>3, <1>5, <1>7 DEF CreditHolds, Credit!Open
<1> QED
  BY <1>2, <1>8 DEF CreditGood, e, commands

\* An owner has on hold what the one open session has.
LEMMA OneHold ==
    ASSUME NEW d \in CreditGood, NEW u \in Owners
    PROVE  /\ Credit!OpenOf(d, u) = {} => Credit!ReservedBy(d, u) = 0
           /\ \A r \in Credit!OpenOf(d, u) : Credit!ReservedBy(d, u) = d.session[r].reserved
<1>0. d \in CreditSnapshot /\ CreditHolds(d)
  BY DEF CreditGood
<1> DEFINE S == Credit!OpenOf(d, u)
           one(R) == CHOOSE x \in R : TRUE
           Follow(g) == g = [R \in SUBSET S |->
                            IF R = {} THEN 0 ELSE d.session[one(R)].reserved + g[R \ {one(R)}]]
           g == CHOOSE g : Follow(g)
<1>1. Credit!ReservedBy(d, u) = g[S]
  BY DEF Credit!ReservedBy, Credit!FoldSet, Credit!MapThenFoldSet
<1>2. CASE S = {}
  <2>1. Follow([R \in SUBSET S |-> 0])
    BY <1>2
  <2>2. Follow(g)
    BY <2>1, Zenon
  <2>3. g[{}] = 0
    BY <2>2, Zenon
  <2> QED
    BY <1>1, <1>2, <2>3
<1>3. ASSUME NEW r \in S PROVE Credit!ReservedBy(d, u) = d.session[r].reserved
  <2>1. S = {r} /\ d.session[r].reserved \in Int
    BY <1>0, CreditFields DEF CreditHolds, Credit!OpenOf
  <2>2. \A R \in SUBSET S : R = {} \/ (R = {r} /\ one(R) = r /\ R \ {r} = {})
    BY <2>1
  <2> DEFINE h == [R \in SUBSET S |-> IF R = {} THEN 0 ELSE d.session[r].reserved]
  <2>3. ASSUME NEW R \in SUBSET S
        PROVE  h[R] = IF R = {} THEN 0 ELSE d.session[one(R)].reserved + h[R \ {one(R)}]
    BY <2>1, <2>2
  <2>4. Follow(h)
    <3> DEFINE k == [R \in SUBSET S |-> IF R = {} THEN 0 ELSE d.session[one(R)].reserved + h[R \ {one(R)}]]
    <3>1. \A R \in SUBSET S : h[R] = k[R]
      BY <2>3, Zenon
    <3>2. h = k
      BY <3>1, Zenon
    <3> QED
      BY <3>2, Zenon
  <2>5. Follow(g)
    BY <2>4, Zenon
  <2> HIDE DEF g
  <2>6. \A R \in SUBSET S : g[R] = IF R = {} THEN 0 ELSE d.session[one(R)].reserved + g[R \ {one(R)}]
    BY <2>5
  <2>7. g[{}] = 0 /\ g[{r}] = d.session[r].reserved + g[{}]
    <3>1. {} \in SUBSET S /\ {r} \in SUBSET S /\ {r} # {} /\ one({r}) = r /\ {r} \ {r} = {}
      BY <2>1
    <3> HIDE DEF S, one
    <3>2. g[{}] = 0
      BY <2>6, <3>1, Zenon
    <3>3. g[{r}] = d.session[one({r})].reserved + g[{r} \ {one({r})}]
      BY <2>6, <3>1, Zenon
    <3> QED
      BY <3>1, <3>2, <3>3
  <2> QED
    BY <1>1, <2>1, <2>7
<1> QED
  BY <1>2, <1>3

\* What is available is what the balance exceeds the hold by.
LEMMA HoldLeavesRest ==
    ASSUME NEW d \in CreditGood, NEW u \in Owners
    PROVE  /\ Credit!ReservedBy(d, u) \in Int /\ d.wallet[u] \in Int
           /\ Credit!ReservedBy(d, u) <= d.wallet[u]
           /\ Credit!Available(d, u) = d.wallet[u] - Credit!ReservedBy(d, u)
<1>0. d \in CreditSnapshot /\ CreditHolds(d)
  BY DEF CreditGood
<1>1. d.wallet[u] \in Int /\ d.wallet[u] >= 0
  BY <1>0, CreditFields DEF CreditHolds
<1>2. Credit!ReservedBy(d, u) \in Int /\ Credit!ReservedBy(d, u) <= d.wallet[u]
  <2>1. CASE Credit!OpenOf(d, u) = {}
    BY <1>1, <2>1, OneHold
  <2>2. CASE Credit!OpenOf(d, u) # {}
    <3>1. PICK r \in Credit!OpenOf(d, u) : TRUE
      BY <2>2
    <3>2. r \in Requests /\ Credit!Open(d, r) /\ OwnerOf[r] = u
      BY DEF Credit!OpenOf
    <3> QED
      BY <1>0, <3>1, <3>2, OneHold, CreditFields DEF CreditHolds
  <2> QED
    BY <2>1, <2>2
<1> QED
  BY <1>1, <1>2 DEF Credit!Available

LEMMA StartKeepsCredit ==
    ASSUME credit \in CreditGood, NEW r \in Requests, NEW b \in Bays, Credit!Start(r, b)
    PROVE  credit' \in CreditGood
<1> DEFINE d == credit
           u == OwnerOf[r]
           new == [state |-> "pending", bay |-> b, energy |-> 0, limit |-> d.room[u],
                   tariff |-> d.tariff, reserved |-> Credit!Available(d, u), cost |-> 0]
           c == [kind |-> "START", of |-> r, age |-> 0, outcome |-> d.device.outcome]
           session == [d.session EXCEPT ![r] = new]
           e == [d EXCEPT !.session = session]
<1>0. d \in CreditSnapshot /\ CreditHolds(d) /\ d \in CreditGood
  BY DEF CreditGood
<1>1. /\ u \in Owners /\ d.session[r].state = "none"
      /\ (Credit!OpenOf(d, u) \cup Credit!OpenAt(d, b)) \ {r} = {}
      /\ Credit!Available(d, u) >= 1
  BY <1>0, CreditFields DEF Credit!Start, Credit!ValidStart
<1>2. credit' = [e EXCEPT !.commands = <<c>> \o d.commands]
  <2>2. credit' = [d EXCEPT !.session[r] = new, !.commands = <<c>> \o d.commands]
    BY DEF Credit!Start, Credit!Started
  <2> HIDE DEF new, c
  <2> QED
    BY <1>0, <2>2 DEF CreditSnapshot
<1>3. Credit!Available(d, u) \in Int /\ Credit!Available(d, u) <= d.wallet[u] /\ Credit!OpenOf(d, u) = {}
  <2>1. r \notin Credit!OpenOf(d, u)
    BY <1>1 DEF Credit!OpenOf, Credit!Open
  <2>2. Credit!OpenOf(d, u) = {}
    BY <1>1, <2>1
  <2>3. Credit!ReservedBy(d, u) = 0
    BY <1>0, <1>1, <2>2, OneHold
  <2> QED
    BY <1>0, <1>1, <2>2, <2>3, HoldLeavesRest
<1>4. new \in CreditSession /\ d.tariff \in Tariffs
  <2>1. d.tariff \in Tariffs /\ d.room \in [Owners -> Int]
    BY <1>0, CreditFields
  <2>2. d.tariff \in Int
    <3>1. Tariffs \subseteq Int
      BY CreditAssumption
    <3> HIDE DEF d
    <3> QED
      BY <2>1, <3>1
  <2>3. d.room[u] \in Int
    BY <1>1, <2>1
  <2> QED
    BY <1>3, <2>1, <2>2, <2>3 DEF CreditSession
<1>5. session \in [Requests -> CreditSession]
  <2>1. d.session \in [Requests -> CreditSession]
    BY <1>0, CreditFields
  <2> HIDE DEF new
  <2> QED
    BY <1>4, <2>1
<1>6. /\ \A q \in Requests \ {r} : session[q] = d.session[q]
      /\ session[r].state = "pending" /\ session[r].bay = b
      /\ session[r].tariff \in Tariffs
      /\ session[r].reserved >= 0 /\ session[r].reserved <= d.wallet[u]
  BY <1>0, <1>1, <1>3, <1>4, CreditFields
<1> HIDE DEF session, new, c
<1>7. e \in CreditSnapshot
  BY <1>0, <1>5, CreditTyped
<1>8. e.session = session /\ e.commands = d.commands /\ e.wallet = d.wallet
  BY <1>0 DEF CreditSnapshot
<1> HIDE DEF e
<1>9. \A i \in DOMAIN d.commands : d.commands[i].of # r /\ d.commands[i].of \in Requests
  BY <1>0, <1>1, CreditFields DEF CreditHolds, CreditCommand
<1>10. \A q \in Requests : Credit!Open(e, q) => (q = r \/ (Credit!Open(d, q) /\ OwnerOf[q] # u))
  BY <1>3, <1>6, <1>8 DEF Credit!Open, Credit!OpenOf
<1>11. CreditHolds(e)
  <2>1. StartWaits(e)
    BY <1>0, <1>6, <1>8, <1>9 DEF CreditHolds, StartWaits
  <2>2. \A i \in DOMAIN e.commands : e.session[e.commands[i].of].state # "none"
    BY <1>0, <1>6, <1>8, <1>9 DEF CreditHolds
  <2>3. \A q \in Requests : Credit!Open(e, q) =>
            /\ e.session[q].reserved >= 0 /\ e.session[q].reserved <= e.wallet[OwnerOf[q]]
            /\ e.session[q].tariff \in Tariffs /\ e.session[q].bay \in Bays
    BY <1>0, <1>6, <1>8, <1>10 DEF CreditHolds
  <2>4. \A p, q \in Requests : Credit!Open(e, p) /\ Credit!Open(e, q) /\ OwnerOf[p] = OwnerOf[q] => p = q
    BY <1>0, <1>10 DEF CreditHolds
  <2>5. \A v \in Owners : e.wallet[v] >= 0
    BY <1>0, <1>8 DEF CreditHolds
  <2> QED
    BY <2>1, <2>2, <2>3, <2>4, <2>5 DEF CreditHolds
<1>12. e \in CreditGood
  BY <1>7, <1>11 DEF CreditGood
<1>13. c \in CreditCommand /\ c.of = r /\ c.kind = "START"
  <2>1. d.device.outcome \in Credit!Outcomes
    BY <1>0, CreditFields DEF CreditDevice
  <2> QED
    BY <2>1 DEF CreditCommand, c
<1>14. [e EXCEPT !.commands = <<c>> \o e.commands] \in CreditGood
  BY <1>6, <1>8, <1>9, <1>12, <1>13, SentKeepsCredit
<1> QED
  BY <1>2, <1>8, <1>14

LEMMA CommandIsOne ==
    ASSUME NEW d \in CreditSnapshot, NEW r \in Requests, NEW kind \in {"START", "STOP", "EMERGENCY_STOP"}
    PROVE  [kind |-> kind, of |-> r, age |-> 0, outcome |-> d.device.outcome] \in CreditCommand
<1>1. d.device.outcome \in Credit!Outcomes
  BY CreditFields DEF CreditDevice
<1> QED
  BY <1>1 DEF CreditCommand

LEMMA StopKeepsCredit ==
    ASSUME credit \in CreditGood, NEW r \in Requests, Credit!Stop(r)
    PROVE  credit' \in CreditGood
<1> DEFINE c == [kind |-> "STOP", of |-> r, age |-> 0, outcome |-> credit.device.outcome]
<1>0. credit \in CreditSnapshot /\ CreditHolds(credit)
  BY DEF CreditGood
<1>1. c \in CreditCommand /\ c.of = r /\ c.kind = "STOP"
  BY <1>0, CommandIsOne, Zenon
<1>2. /\ credit.session[r].state # "none"
      /\ \A i \in DOMAIN credit.commands : credit.commands[i].of # r
      /\ credit' = [credit EXCEPT !.commands = <<c>> \o credit.commands]
  BY DEF Credit!Stop, Credit!MayCommand, Credit!Sent, Credit!Open
<1> HIDE DEF c
<1> QED
  BY <1>1, <1>2, SentKeepsCredit

LEMMA EmergencyKeepsCredit ==
    ASSUME credit \in CreditGood, NEW r \in Requests, Credit!EmergencyStop(r)
    PROVE  credit' \in CreditGood
<1> DEFINE b == credit.session[r].bay
           f == Credit!Finish(credit, r)
           bay == [f.bay[b] EXCEPT !.fault = TRUE, !.faults = 1]
           e == [f EXCEPT !.bay = [f.bay EXCEPT ![b] = bay]]
           c == [kind |-> "EMERGENCY_STOP", of |-> r, age |-> 0, outcome |-> e.device.outcome]
<1>0. credit \in CreditSnapshot /\ CreditHolds(credit)
  BY DEF CreditGood
<1>1. Credit!Open(credit, r) /\ b \in Bays
  BY <1>0 DEF Credit!EmergencyStop, Credit!MayCommand, CreditHolds
<1>2. f \in CreditGood /\ f \in CreditSnapshot
  BY FinishKeepsCredit DEF CreditGood
<1>3. f.session[r].state = "completed"
  <2>1. PICK cost \in Int : f = Settled(credit, r, cost)
    BY <1>0, <1>1, FinishSettles
  <2> HIDE DEF f
  <2>2. f.session = [credit.session EXCEPT ![r] = [credit.session[r] EXCEPT !.state = "completed", !.cost = cost]]
    BY <1>0, <2>1 DEF Settled, CreditSnapshot
  <2>3. credit.session \in [Requests -> CreditSession]
    BY <1>0, CreditFields
  <2> QED
    BY <2>2, <2>3 DEF CreditSession
<1> HIDE DEF f
<1>4. e \in CreditGood
  <2>1. f.bay[b] \in CreditBay
    BY <1>1, <1>2, CreditFields
  <2>2. bay \in CreditBay
    <3> DEFINE x == f.bay[b]
    <3>1. bay = [x EXCEPT !.fault = TRUE, !.faults = 1]
      OBVIOUS
    <3>2. x \in CreditBay
      BY <2>1
    <3> HIDE DEF x, bay
    <3>3. x = [enabled |-> x.enabled, plugged |-> x.plugged, fault |-> x.fault, faults |-> x.faults]
      BY <3>2 DEF CreditBay
    <3>4. bay = [enabled |-> x.enabled, plugged |-> x.plugged, fault |-> TRUE, faults |-> 1]
      BY <3>1, <3>3, Zenon
    <3>5. x.enabled \in BOOLEAN /\ x.plugged \in BOOLEAN
      BY <3>2 DEF CreditBay
    <3> QED
      BY <3>4, <3>5 DEF CreditBay
  <2> HIDE DEF bay
  <2> QED
    BY <1>1, <1>2, <2>2, BayKeepsCredit
<1>5. e.session = f.session /\ e \in CreditSnapshot
  <2> HIDE DEF bay
  <2>1. e.session = f.session
    BY <1>2 DEF CreditSnapshot
  <2>2. e \in CreditSnapshot
    BY <1>4 DEF CreditGood
  <2> QED
    BY <2>1, <2>2
<1>6. [f EXCEPT !.bay[b].fault = TRUE, !.bay[b].faults = 1] = e
  BY <1>1, <1>2, Zenon DEF CreditSnapshot, CreditBay
<1>7. credit' = [e EXCEPT !.commands = <<c>> \o e.commands]
  <2> HIDE DEF e, b
  <2> QED
    BY <1>6, Zenon DEF Credit!EmergencyStop, Credit!Sent, f, b
<1> HIDE DEF e
<1>8. c \in CreditCommand /\ c.of = r /\ c.kind = "EMERGENCY_STOP"
  BY <1>5, CommandIsOne, Zenon
<1> HIDE DEF c
<1>9. \A i \in DOMAIN e.commands : e.commands[i].kind = "START" => e.commands[i].of # r
  BY <1>3, <1>4, <1>5 DEF CreditGood, CreditHolds, StartWaits
<1> QED
  BY <1>3, <1>4, <1>5, <1>7, <1>8, <1>9, SentKeepsCredit

LEMMA BayOpsKeepCredit ==
    ASSUME credit \in CreditGood, NEW b \in Bays,
           \/ Credit!InjectFault(b) \/ Credit!ResolveFault(b)
           \/ \E plugged \in BOOLEAN : Credit!Plug(b, plugged)
           \/ \E enabled, fault \in BOOLEAN : Credit!SaveBay(b, enabled, fault)
    PROVE  credit' \in CreditGood
<1> DEFINE x == credit.bay[b]
           with(bay) == [credit EXCEPT !.bay = [credit.bay EXCEPT ![b] = bay]]
<1>0. credit \in CreditSnapshot
  BY DEF CreditGood
<1>1. x \in CreditBay
  BY <1>0, CreditFields
<1>2. ASSUME NEW bay \in CreditBay PROVE with(bay) \in CreditGood
  BY BayKeepsCredit
<1>3. ASSUME NEW e \in CreditGood, NEW g \in {e, Credit!FinishAll(e, Credit!OpenAt(credit, b))}
      PROVE  g \in CreditGood
  <2>1. Credit!OpenAt(credit, b) \in SUBSET Requests
    BY DEF Credit!OpenAt
  <2> QED
    BY <1>3, <2>1, FinishAllKeepsCredit
<1>6. CASE Credit!InjectFault(b)
  <2> DEFINE new == 1
             y == [x EXCEPT !.fault = TRUE, !.faults = new]
  <2>1. credit' = Credit!FinishAll([credit EXCEPT !.bay[b].fault = TRUE, !.bay[b].faults = 1], Credit!OpenAt(credit, b))
    BY <1>6 DEF Credit!InjectFault
  <2>2. [credit EXCEPT !.bay[b].fault = TRUE, !.bay[b].faults = 1] = with(y)
    BY <1>0, Zenon DEF CreditSnapshot
  <2>4. y \in CreditBay
    <3> HIDE DEF x
    <3>1. PICK on, in, bad \in BOOLEAN, n \in 0..1 : x = [enabled |-> on, plugged |-> in, fault |-> bad, faults |-> n]
      BY <1>1 DEF CreditBay
    <3>2. new \in 0..1
      OBVIOUS
    <3> HIDE DEF new
    <3> QED
      BY <3>1, <3>2, Zenon DEF CreditBay
  <2> HIDE DEF y
  <2> QED
    BY <1>2, <1>3, <2>1, <2>2, <2>4
<1>7. CASE Credit!ResolveFault(b)
  <2> DEFINE new == 0
             y == [x EXCEPT !.faults = new, !.fault = FALSE]
  <2>1. credit' = [credit EXCEPT !.bay[b].faults = 0, !.bay[b].fault = FALSE]
    BY <1>7 DEF Credit!ResolveFault
  <2>2. [credit EXCEPT !.bay[b].faults = 0, !.bay[b].fault = FALSE] = with(y)
    BY <1>0, Zenon DEF CreditSnapshot
  <2>4. y \in CreditBay
    <3> HIDE DEF x
    <3>1. PICK on, in, bad \in BOOLEAN, n \in 0..1 : x = [enabled |-> on, plugged |-> in, fault |-> bad, faults |-> n]
      BY <1>1 DEF CreditBay
    <3>2. new \in 0..1
      OBVIOUS
    <3> HIDE DEF new
    <3> QED
      BY <3>1, <3>2, Zenon DEF CreditBay
  <2> HIDE DEF y
  <2> QED
    BY <1>2, <2>1, <2>2, <2>4
<1>8. ASSUME NEW plugged \in BOOLEAN, Credit!Plug(b, plugged) PROVE credit' \in CreditGood
  <2> DEFINE y == [x EXCEPT !.plugged = plugged]
             e == [credit EXCEPT !.bay[b].plugged = plugged]
  <2>1. credit' \in {e, Credit!FinishAll(e, Credit!OpenAt(credit, b))}
    BY <1>8, Zenon DEF Credit!Plug
  <2>2. e = with(y)
    OBVIOUS
  <2>3. y \in CreditBay
    <3> HIDE DEF x
    <3>1. PICK on, in, bad \in BOOLEAN, n \in 0..1 : x = [enabled |-> on, plugged |-> in, fault |-> bad, faults |-> n]
      BY <1>1 DEF CreditBay
    <3> QED
      BY <3>1 DEF CreditBay
  <2> HIDE DEF y, e
  <2> QED
    BY <1>2, <1>3, <2>1, <2>2, <2>3
<1>9. ASSUME NEW enabled \in BOOLEAN, NEW fault \in BOOLEAN, Credit!SaveBay(b, enabled, fault)
      PROVE  credit' \in CreditGood
  <2> DEFINE y == [x EXCEPT !.enabled = enabled, !.fault = fault]
             e == [credit EXCEPT !.bay[b].enabled = enabled, !.bay[b].fault = fault]
  <2>1. credit' \in {e, Credit!FinishAll(e, Credit!OpenAt(credit, b))}
    BY <1>9, Zenon DEF Credit!SaveBay
  <2>2. e = with(y)
    BY <1>0, Zenon DEF CreditSnapshot
  <2>4. y \in CreditBay
    <3> HIDE DEF x
    <3>1. PICK on, in, bad \in BOOLEAN, n \in 0..1 : x = [enabled |-> on, plugged |-> in, fault |-> bad, faults |-> n]
      BY <1>1 DEF CreditBay
    <3> QED
      BY <3>1, Zenon DEF CreditBay
  <2> HIDE DEF y, e
  <2> QED
    BY <1>2, <1>3, <2>1, <2>2, <2>4
<1> QED
  BY <1>6, <1>7, <1>8, <1>9

LEMMA StationKeepsCredit ==
    ASSUME credit \in CreditGood, NEW online \in BOOLEAN, Credit!SaveStation(online)
    PROVE  credit' \in CreditGood
<1> DEFINE e == [credit EXCEPT !.station = online]
<1>0. credit \in CreditSnapshot
  BY DEF CreditGood
<1>1. credit' \in {e, Credit!FinishAll(e, Requests)}
  BY Zenon DEF Credit!SaveStation
<1>2. e \in CreditSnapshot /\ e.session = credit.session /\ e.commands = credit.commands /\ e.wallet = credit.wallet
  <2>1. e \in CreditSnapshot
    BY <1>0, CreditTyped
  <2> QED
    BY <1>0, <2>1, Zenon DEF CreditSnapshot
<1> HIDE DEF e
<1>3. e \in CreditGood
  BY <1>2, OthersKeepCredit
<1> QED
  BY <1>1, <1>3, FinishAllKeepsCredit

LEMMA StatusKeepsCredit ==
    ASSUME credit \in CreditGood, NEW u \in Owners, NEW active \in BOOLEAN, Credit!SetStatus(u, active)
    PROVE  credit' \in CreditGood
<1> DEFINE all == [credit.active EXCEPT ![u] = active]
           e == [credit EXCEPT !.active = all]
<1>0. credit \in CreditSnapshot
  BY DEF CreditGood
<1>1. credit' \in {e, Credit!FinishAll(e, Credit!OpenOf(credit, u))}
  BY Zenon DEF Credit!SetStatus
<1>2. e \in CreditSnapshot /\ e.session = credit.session /\ e.commands = credit.commands /\ e.wallet = credit.wallet
  <2>1. all \in [Owners -> BOOLEAN]
    BY <1>0, CreditFields
  <2> HIDE DEF all
  <2>2. e \in CreditSnapshot
    BY <1>0, <2>1, CreditTyped
  <2> QED
    BY <1>0, <2>2, Zenon DEF CreditSnapshot
<1> HIDE DEF e
<1>3. e \in CreditGood /\ Credit!OpenOf(credit, u) \in SUBSET Requests
  BY <1>2, OthersKeepCredit DEF Credit!OpenOf
<1> QED
  BY <1>1, <1>3, FinishAllKeepsCredit

LEMMA RoomKeepsCredit ==
    ASSUME NEW d \in CreditGood, NEW u \in Owners, NEW room \in Int
    PROVE  [d EXCEPT !.room[u] = room] \in CreditGood
<1> DEFINE rooms == [d.room EXCEPT ![u] = room]
           e == [d EXCEPT !.room = rooms]
<1>0. d \in CreditSnapshot
  BY DEF CreditGood
<1>1. rooms \in [Owners -> Int]
  BY <1>0, CreditFields
<1>2. [d EXCEPT !.room[u] = room] = e
  OBVIOUS
<1> HIDE DEF rooms
<1>3. e \in CreditSnapshot /\ e.session = d.session /\ e.commands = d.commands /\ e.wallet = d.wallet
  <2>1. e \in CreditSnapshot
    BY <1>0, <1>1, CreditTyped
  <2> QED
    BY <1>0, <2>1, Zenon DEF CreditSnapshot
<1> HIDE DEF e
<1> QED
  BY <1>2, <1>3, OthersKeepCredit

LEMMA VehicleKeepsCredit ==
    ASSUME credit \in CreditGood,
           \/ \E r \in Requests : Credit!Fill(r)
           \/ \E u \in Owners, room \in 0..Capacity : Credit!SaveVehicle(u, room)
    PROVE  credit' \in CreditGood
<1>1. ASSUME NEW r \in Requests, Credit!Fill(r) PROVE credit' \in CreditGood
  <2>1. OwnerOf[r] \in Owners
    BY CreditAssumption
  <2> DEFINE u == OwnerOf[r]
  <2>2. [credit EXCEPT !.room[u] = 0] \in CreditGood
    <3> HIDE DEF u
    <3>1. u \in Owners /\ 0 \in Int
      BY <2>1 DEF u
    <3> QED
      BY <3>1, RoomKeepsCredit
  <2> QED
    BY <1>1, <2>2, FinishKeepsCredit DEF Credit!Fill
<1>2. ASSUME NEW u \in Owners, NEW room \in 0..Capacity, Credit!SaveVehicle(u, room)
      PROVE  credit' \in CreditGood
  <2>1. room \in Int
    BY CreditAssumption
  <2> QED
    BY <1>2, <2>1, RoomKeepsCredit DEF Credit!SaveVehicle
<1> QED
  BY <1>1, <1>2

LEMMA TariffKeepsCredit ==
    ASSUME credit \in CreditGood, NEW tariff \in Tariffs, Credit!SetTariff(tariff)
    PROVE  credit' \in CreditGood
<1>0. credit \in CreditSnapshot
  BY DEF CreditGood
<1>1. credit' = [credit EXCEPT !.tariff = tariff]
  BY DEF Credit!SetTariff
<1>2. credit' \in CreditSnapshot
  BY <1>0, <1>1, CreditTyped
<1>3. credit'.session = credit.session /\ credit'.commands = credit.commands /\ credit'.wallet = credit.wallet
  BY <1>0, <1>1 DEF CreditSnapshot
<1> QED
  BY <1>2, <1>3, OthersKeepCredit

LEMMA PaymentKeepsCredit ==
    ASSUME credit \in CreditGood, NEW p \in Payments,
           \/ Credit!CreatePayment(p)
           \/ \E outcome \in {"success", "failed", "cancelled", "pending"} : Credit!SubmitPayment(p, outcome)
    PROVE  credit' \in CreditGood
<1>0. credit \in CreditSnapshot /\ credit.payment[p] \in CreditPayment
  BY CreditFields DEF CreditGood
<1>1. \E payment \in CreditPayment : credit' = [credit EXCEPT !.payment = [credit.payment EXCEPT ![p] = payment]]
  <2>1. CASE Credit!CreatePayment(p)
    <3>1. [credit.payment[p] EXCEPT !.status = "pending"] \in CreditPayment
      BY <1>0 DEF CreditPayment
    <3> QED
      BY <2>1, <3>1 DEF Credit!CreatePayment
  <2>2. ASSUME NEW outcome \in {"success", "failed", "cancelled", "pending"}, Credit!SubmitPayment(p, outcome)
        PROVE  \E payment \in CreditPayment : credit' = [credit EXCEPT !.payment = [credit.payment EXCEPT ![p] = payment]]
    <3> DEFINE x == credit.payment[p]
               new == 1
               y == [x EXCEPT !.due = new, !.outcome = outcome]
    <3>1. credit' = [credit EXCEPT !.payment = [credit.payment EXCEPT ![p] = y]]
      BY <2>2 DEF Credit!SubmitPayment
    <3>2. y \in CreditPayment
      <4>1. x \in CreditPayment
        BY <1>0
      <4> HIDE DEF x
      <4>2. PICK status \in {"none", "pending", "verified", "success", "failed", "cancelled"}, due \in 0..2, o \in {"none", "success", "failed", "cancelled", "pending"} :
                x = [status |-> status, due |-> due, outcome |-> o]
        BY <4>1 DEF CreditPayment
      <4>3. new \in 0..2
        OBVIOUS
      <4> HIDE DEF new
      <4> QED
        BY <4>2, <4>3, Zenon DEF CreditPayment
    <3> QED
      BY <3>1, <3>2
  <2> QED
    BY <2>1, <2>2
<1>2. PICK payment \in CreditPayment : credit' = [credit EXCEPT !.payment = [credit.payment EXCEPT ![p] = payment]]
  BY <1>1
<1>3. [credit.payment EXCEPT ![p] = payment] \in [Payments -> CreditPayment]
  BY <1>0, CreditFields
<1>4. credit' \in CreditSnapshot
  BY <1>0, <1>2, <1>3, CreditTyped
<1>5. credit'.session = credit.session /\ credit'.commands = credit.commands /\ credit'.wallet = credit.wallet
  BY <1>0, <1>2 DEF CreditSnapshot
<1> QED
  BY <1>4, <1>5, OthersKeepCredit

LEMMA AdjustKeepsCredit ==
    ASSUME credit \in CreditGood, NEW a \in Adjustments, NEW u \in Owners, NEW amount \in Amounts,
           Credit!Adjust(a, u, amount)
    PROVE  credit' \in CreditGood
<1> DEFINE d == credit
           wallet == [d.wallet EXCEPT ![u] = d.wallet[u] + amount]
           ledger == d.ledger \cup {<<"ADJUST", a>>}
           e == [d EXCEPT !.ledger = ledger]
           f == [e EXCEPT !.wallet = wallet]
<1>0. d \in CreditSnapshot /\ CreditHolds(d)
  BY DEF CreditGood
<1>1. credit' = f
  <2>1. credit' = [d EXCEPT !.wallet[u] = @ + amount, !.ledger = ledger]
    BY DEF Credit!Adjust, Credit!Post
  <2> HIDE DEF ledger
  <2> QED
    BY <1>0, <2>1, Zenon DEF CreditSnapshot
<1>2. d.wallet \in [Owners -> Int] /\ d.wallet[u] \in Int /\ amount \in Int
  BY <1>0, CreditFields, CreditAssumption
<1>3. Credit!ReservedBy(d, u) \in Int /\ Credit!ReservedBy(d, u) <= d.wallet[u] + amount
  <2>1. Credit!Available(d, u) = d.wallet[u] - Credit!ReservedBy(d, u) /\ Credit!ReservedBy(d, u) \in Int
    BY HoldLeavesRest
  <2>2. Credit!Available(d, u) + amount >= 0
    BY DEF Credit!Adjust
  <2> QED
    BY <1>2, <2>1, <2>2
<1>4. \A r \in Requests : Credit!Open(d, r) /\ OwnerOf[r] = u => d.session[r].reserved <= d.wallet[u] + amount
  BY <1>3, OneHold DEF Credit!OpenOf
<1>5. d.wallet[u] + amount >= 0
  <2>1. Credit!ReservedBy(d, u) >= 0
    <3>1. CASE Credit!OpenOf(d, u) = {}
      BY <3>1, OneHold
    <3>2. CASE Credit!OpenOf(d, u) # {}
      <4>1. PICK r \in Credit!OpenOf(d, u) : TRUE
        BY <3>2
      <4>2. r \in Requests /\ Credit!Open(d, r)
        BY DEF Credit!OpenOf
      <4> QED
        BY <1>0, <4>1, <4>2, OneHold DEF CreditHolds
    <3> QED
      BY <3>1, <3>2
  <2> QED
    BY <1>2, <1>3, <2>1
<1>6. wallet \in [Owners -> Int] /\ ledger \in SUBSET Entry
  <2>1. <<"ADJUST", a>> \in Entry
    BY DEF Entry
  <2>2. d.wallet[u] + amount \in Int
    BY <1>2
  <2> QED
    BY <1>0, <1>2, <2>1, <2>2, CreditFields, Zenon
<1>7. \A v \in Owners : wallet[v] = IF v = u THEN d.wallet[u] + amount ELSE d.wallet[v]
  BY <1>2
<1> HIDE DEF wallet, ledger
<1>8. e \in CreditSnapshot
  BY <1>0, <1>6, CreditTyped, Zenon
<1>9. f \in CreditSnapshot
  <2> HIDE DEF e
  <2> QED
    BY <1>6, <1>8, CreditTyped
<1>10. f.session = d.session /\ f.commands = d.commands /\ f.wallet = wallet
  BY <1>0 DEF CreditSnapshot
<1> HIDE DEF e, f
<1>11. CreditHolds(f)
  <2>1. StartWaits(f)
    BY <1>0, <1>10 DEF CreditHolds, StartWaits
  <2>2. \A r \in Requests : OwnerOf[r] \in Owners
    BY CreditAssumption
  <2>3. \A r \in Requests : Credit!Open(f, r) => f.session[r].reserved <= f.wallet[OwnerOf[r]]
    BY <1>0, <1>4, <1>7, <1>10, <2>2 DEF CreditHolds, Credit!Open
  <2>4. \A v \in Owners : f.wallet[v] >= 0
    BY <1>0, <1>5, <1>7, <1>10 DEF CreditHolds
  <2> QED
    BY <1>0, <1>10, <2>1, <2>3, <2>4 DEF CreditHolds, Credit!Open
<1> QED
  BY <1>1, <1>9, <1>11 DEF CreditGood

LEMMA ElapseKeepsCredit ==
    ASSUME credit \in CreditGood, NEW long \in BOOLEAN, Credit!Elapse(long)
    PROVE  credit' \in CreditGood
<1> DEFINE d == credit
           older(c) == Credit!Older(c, long)
           commands == [i \in DOMAIN d.commands |-> older(d.commands[i])]
           payment == [p \in Payments |-> Credit!Later(d.payment[p])]
           device == [d.device EXCEPT !.away = d.device.away \/ long]
           e == [d EXCEPT !.commands = commands]
           f == [e EXCEPT !.payment = payment]
           g == [f EXCEPT !.device = device]
<1>0. d \in CreditSnapshot /\ CreditHolds(d)
  BY DEF CreditGood
<1>1. credit' = g
  <2>1. credit' = [d EXCEPT !.commands = commands, !.payment = payment, !.device.away = @ \/ long]
    BY DEF Credit!Elapse
  <2>2. credit' = [d EXCEPT !.commands = commands, !.payment = payment, !.device = device]
    <3> HIDE DEF payment, commands
    <3> QED
      BY <1>0, <2>1 DEF CreditSnapshot
  <2> HIDE DEF commands, payment, device
  <2> QED
    BY <1>0, <2>2 DEF CreditSnapshot
<1>2. ASSUME NEW c \in CreditCommand
      PROVE  older(c) \in CreditCommand /\ older(c).of = c.of /\ older(c).kind = c.kind
  <2>1. PICK kind \in {"START", "STOP", "EMERGENCY_STOP"}, of \in Requests, age \in 0..2, outcome \in Credit!Outcomes :
            c = [kind |-> kind, of |-> of, age |-> age, outcome |-> outcome]
    BY <1>2 DEF CreditCommand
  <2> DEFINE new == IF long THEN 2 ELSE Credit!Smaller(c.age + 1, 2)
  <2>2. new \in 0..2
    BY <2>1 DEF Credit!Smaller
  <2>3. older(c) = [c EXCEPT !.age = new]
    BY DEF Credit!Older
  <2> HIDE DEF new, older
  <2> QED
    BY <2>1, <2>2, <2>3 DEF CreditCommand
<1>3. d.commands \in Seq(CreditCommand) /\ DOMAIN d.commands = 1..Len(d.commands) /\ Len(d.commands) \in Nat
      /\ \A i \in DOMAIN d.commands : d.commands[i] \in CreditCommand
  BY <1>0, CreditFields
<1> HIDE DEF older
<1>4. commands \in Seq(CreditCommand) /\ DOMAIN commands = DOMAIN d.commands
      /\ \A i \in DOMAIN d.commands : commands[i].of = d.commands[i].of /\ commands[i].kind = d.commands[i].kind
  <2>1. commands \in [1..Len(d.commands) -> CreditCommand]
    BY <1>2, <1>3
  <2>2. commands \in Seq(CreditCommand)
    BY <1>3, <2>1
  <2>3. \A i \in DOMAIN d.commands : commands[i] = older(d.commands[i])
    OBVIOUS
  <2> QED
    BY <1>2, <1>3, <2>2, <2>3
<1>5. payment \in [Payments -> CreditPayment]
  <2>1. ASSUME NEW p \in Payments PROVE payment[p] \in CreditPayment
    <3> DEFINE x == d.payment[p]
               new == IF x.due = 0 THEN 0 ELSE 2
    <3>1. x \in CreditPayment
      BY <1>0, CreditFields
    <3>2. new \in 0..2
      OBVIOUS
    <3>3. payment[p] = [x EXCEPT !.due = new]
      BY DEF Credit!Later
    <3> HIDE DEF x, new, payment
    <3> QED
      BY <3>1, <3>2, <3>3 DEF CreditPayment
  <2> QED
    BY <2>1
<1>6. device \in CreditDevice
  <2>1. d.device \in CreditDevice
    BY <1>0, CreditFields
  <2> QED
    BY <2>1 DEF CreditDevice
<1> HIDE DEF commands, payment, device
<1>7. e \in CreditSnapshot
  BY <1>0, <1>4, CreditTyped
<1>8. e.session = d.session /\ e.commands = commands /\ e.wallet = d.wallet
  BY <1>0 DEF CreditSnapshot
<1> HIDE DEF e
<1>9. CreditHolds(e)
  <2>1. StartWaits(e)
    BY <1>0, <1>4, <1>8 DEF CreditHolds, StartWaits
  <2> QED
    BY <1>0, <1>4, <1>8, <2>1 DEF CreditHolds, Credit!Open
<1>10. e \in CreditGood
  BY <1>7, <1>9 DEF CreditGood
<1>11. f \in CreditSnapshot
  BY <1>5, <1>7, CreditTyped
<1>12. f.session = e.session /\ f.commands = e.commands /\ f.wallet = e.wallet
  BY <1>7 DEF CreditSnapshot
<1> HIDE DEF f
<1>13. g \in CreditSnapshot
  BY <1>6, <1>11, CreditTyped
<1>14. g.session = e.session /\ g.commands = e.commands /\ g.wallet = e.wallet
  BY <1>11, <1>12 DEF CreditSnapshot
<1> HIDE DEF g
<1> QED
  BY <1>1, <1>10, <1>13, <1>14, OthersKeepCredit

LEMMA SupplyIsOne == Credit!Supplies \subseteq Supply
<1>1. MaxStep \in Nat
  BY CreditAssumption
<1>2. Credit!Nothing.given \in [Requests -> 0..MaxStep] /\ Credit!Nothing \in Supply
  BY <1>1 DEF Credit!Nothing, Supply
<1>3. \A given \in [Requests -> 0..MaxStep] : [Credit!Nothing EXCEPT !.given = given] \in Supply
  BY <1>2 DEF Supply
<1>4. [Credit!Nothing EXCEPT !.dry = TRUE] \in Supply
  BY <1>2, Zenon DEF Supply
<1> QED
  BY <1>2, <1>3, <1>4, Zenon DEF Credit!Supplies

LEMMA ConfigureKeepsCredit ==
    ASSUME credit \in CreditGood, NEW online \in BOOLEAN, NEW outcome \in Credit!Outcomes, NEW supply \in Supply,
           Credit!Configure(online, outcome, supply)
    PROVE  credit' \in CreditGood
<1> DEFINE d == credit
           device == [d.device EXCEPT !.online = online, !.outcome = outcome]
           e == [d EXCEPT !.device = device]
<1>0. d \in CreditSnapshot
  BY DEF CreditGood
<1>1. credit' = Credit!Advanced(e, supply)
  <2>1. credit' = Credit!Advanced([d EXCEPT !.device.online = online, !.device.outcome = outcome], supply)
    BY DEF Credit!Configure
  <2>2. [d EXCEPT !.device.online = online, !.device.outcome = outcome] = e
    BY <1>0, Zenon DEF CreditSnapshot
  <2> QED
    BY <2>1, <2>2
<1>2. device \in CreditDevice
  <2>1. d.device \in CreditDevice
    BY <1>0, CreditFields
  <2> QED
    BY <2>1, Zenon DEF CreditDevice
<1> HIDE DEF device
<1>3. e \in CreditSnapshot
  BY <1>0, <1>2, CreditTyped
<1>4. e.session = d.session /\ e.commands = d.commands /\ e.wallet = d.wallet
  BY <1>0 DEF CreditSnapshot
<1> HIDE DEF e
<1>5. e \in CreditGood
  BY <1>3, <1>4, OthersKeepCredit
<1> QED
  BY <1>1, <1>5, AdvancedKeepsCredit

-----------------------------------------------------------------------------
(* CreditDemo: the specification *)

LEMMA CreditIsThere == Spec => Credit!Spec
<1>1. Init => Credit!Init
  BY DEF Init
<1>2. [Next]_vars => [Credit!Next]_credit
  BY DEF Next, vars
<1> QED
  BY <1>1, <1>2, PTL DEF Spec, Credit!Spec

LEMMA CreditBegins == Credit!Init => credit \in CreditGood
<1> SUFFICES ASSUME Credit!Init PROVE credit \in CreditGood
  OBVIOUS
<1>1. PICK tariff \in Tariffs :
          credit = [session |-> [r \in Requests |-> Credit!NoSession],
                commands |-> <<>>,
                payment |-> [p \in Payments |-> Credit!NoPayment],
                wallet |-> [u \in Owners |-> OpeningCredit],
                ledger |-> {},
                bay |-> [b \in Bays |-> [enabled |-> TRUE, plugged |-> FALSE, fault |-> FALSE, faults |-> 0]],
                device |-> [online |-> TRUE, away |-> FALSE, outcome |-> "success"],
                station |-> TRUE,
                active |-> [u \in Owners |-> TRUE],
                room |-> [u \in Owners |-> Capacity],
                tariff |-> tariff]
  BY Zenon DEF Credit!Init
<1>2. Credit!NoSession \in CreditSession /\ Credit!NoSession.state = "none"
  BY DEF Credit!NoSession, CreditSession
<1>3. Credit!NoPayment \in CreditPayment
  BY DEF Credit!NoPayment, Credit!Closed, CreditPayment
<1>4. [enabled |-> TRUE, plugged |-> FALSE, fault |-> FALSE, faults |-> 0] \in CreditBay
  BY DEF CreditBay
<1>5. [online |-> TRUE, away |-> FALSE, outcome |-> "success"] \in CreditDevice
  BY DEF CreditDevice, Credit!Outcomes
<1>6. OpeningCredit \in Nat /\ Capacity \in Nat
  BY CreditAssumption
<1>7. <<>> \in Seq(CreditCommand) /\ DOMAIN (<<>>) = {}
  OBVIOUS
<1>8. credit \in CreditSnapshot
  <2>1. [r \in Requests |-> Credit!NoSession] \in [Requests -> CreditSession]
    BY <1>2
  <2>2. [p \in Payments |-> Credit!NoPayment] \in [Payments -> CreditPayment]
    BY <1>3
  <2>3. [b \in Bays |-> [enabled |-> TRUE, plugged |-> FALSE, fault |-> FALSE, faults |-> 0]] \in [Bays -> CreditBay]
    BY <1>4
  <2>4. [u \in Owners |-> OpeningCredit] \in [Owners -> Int] /\ [u \in Owners |-> Capacity] \in [Owners -> Int]
        /\ [u \in Owners |-> TRUE] \in [Owners -> BOOLEAN]
    BY <1>6
  <2> QED
    BY <1>1, <1>5, <1>7, <2>1, <2>2, <2>3, <2>4 DEF CreditSnapshot
<1>9. /\ \A r \in Requests : credit.session[r].state = "none"
      /\ credit.commands = <<>>
      /\ \A u \in Owners : credit.wallet[u] = OpeningCredit
  BY <1>1, <1>2
<1>10. CreditHolds(credit)
  BY <1>6, <1>7, <1>9 DEF CreditHolds, StartWaits, Credit!Open
<1> QED
  BY <1>8, <1>10 DEF CreditGood

\* One step for each operation of the demo.
LEMMA StepKeepsCredit == credit \in CreditGood /\ [Credit!Next]_credit => credit' \in CreditGood
<1> SUFFICES ASSUME credit \in CreditGood, [Credit!Next]_credit PROVE credit' \in CreditGood
  OBVIOUS
<1>0. credit.device \in CreditDevice /\ credit.device.online \in BOOLEAN /\ credit.device.outcome \in Credit!Outcomes
  BY CreditFields DEF CreditGood, CreditDevice
<1>1. CASE UNCHANGED credit
  BY <1>1
<1>2. ASSUME NEW supply \in Credit!Supplies,
             \/ Credit!Advance(supply)
             \/ \E online \in BOOLEAN : Credit!Configure(online, credit.device.outcome, supply)
             \/ \E outcome \in Credit!Outcomes : Credit!Configure(credit.device.online, outcome, supply)
      PROVE  credit' \in CreditGood
  <2>1. supply \in Supply
    BY SupplyIsOne
  <2> QED
    BY <1>0, <1>2, <2>1, AdvancedKeepsCredit, ConfigureKeepsCredit DEF Credit!Advance
<1>3. ASSUME NEW r \in Requests,
             \/ \E b \in Bays : Credit!Start(r, b)
             \/ Credit!Stop(r) \/ Credit!EmergencyStop(r) \/ Credit!Fill(r)
      PROVE  credit' \in CreditGood
  BY <1>3, StartKeepsCredit, StopKeepsCredit, EmergencyKeepsCredit, VehicleKeepsCredit
<1>4. ASSUME NEW b \in Bays,
             \/ Credit!InjectFault(b) \/ Credit!ResolveFault(b)
             \/ \E plugged \in BOOLEAN : Credit!Plug(b, plugged)
             \/ \E enabled, fault \in BOOLEAN : Credit!SaveBay(b, enabled, fault)
      PROVE  credit' \in CreditGood
  BY <1>4, BayOpsKeepCredit
<1>5. ASSUME NEW on \in BOOLEAN,
             Credit!SaveStation(on) \/ Credit!Elapse(on) \/ \E u \in Owners : Credit!SetStatus(u, on)
      PROVE  credit' \in CreditGood
  BY <1>5, StationKeepsCredit, ElapseKeepsCredit, StatusKeepsCredit
<1>6. ASSUME NEW u \in Owners,
             \/ \E room \in 0..Capacity : Credit!SaveVehicle(u, room)
             \/ \E a \in Adjustments, amount \in Amounts : Credit!Adjust(a, u, amount)
      PROVE  credit' \in CreditGood
  BY <1>6, VehicleKeepsCredit, AdjustKeepsCredit
<1>7. ASSUME NEW tariff \in Tariffs, Credit!SetTariff(tariff) PROVE credit' \in CreditGood
  BY <1>7, TariffKeepsCredit
<1>8. ASSUME NEW p \in Payments,
             \/ Credit!CreatePayment(p)
             \/ \E outcome \in {"success", "failed", "cancelled", "pending"} : Credit!SubmitPayment(p, outcome)
      PROVE  credit' \in CreditGood
  BY <1>8, PaymentKeepsCredit
<1> QED
  BY <1>1, <1>2, <1>3, <1>4, <1>5, <1>6, <1>7, <1>8 DEF Credit!Next

\* Whatever an owner has on hold can be taken from the balance (HoldIsCovered of
\* CreditDemo, engine.ts' finish), in every state of the demo, for any number of owners,
\* bays and requests and any prices.
THEOREM HoldStaysCovered == Spec => []HoldIsCovered
<1>1. Credit!Init => credit \in CreditGood
  BY CreditBegins
<1>2. credit \in CreditGood /\ [Credit!Next]_credit => (credit \in CreditGood)'
  BY StepKeepsCredit
<1>3. credit \in CreditGood => HoldIsCovered
  BY HoldLeavesRest DEF HoldIsCovered, Credit!HoldIsCovered
<1> QED
  BY <1>1, <1>2, <1>3, CreditIsThere, PTL DEF Credit!Spec

-----------------------------------------------------------------------------
(* BookingDemo: what a snapshot is and what holds of it *)

BookingRow == [status : {"none", "upcoming", "charging", "completed", "cancelled"}, bay : Rooms \cup {"none"},
               start : Int, hours : Int, price : Int, advance : Int]
SessionStates == {"none", "waiting", "car-detected", "starting", "charging", "paused", "offline", "fault",
                  "completed"}
SessionRow == [state : SessionStates, bay : Rooms \cup {"none"}, energy : Int, cost : Int]
BookedCommand == [kind : {"START", "STOP", "PAUSE", "RESTART", "EMERGENCY_STOP"}, of : Bookings \cup {"none"},
                  bay : Rooms, override : BOOLEAN, age : 0..2, outcome : {"success", "failure", "timeout"}]
Controller == [enabled : BOOLEAN, online : BOOLEAN, plugged : BOOLEAN, on : BOOLEAN, sensor : BOOLEAN,
               dry : BOOLEAN, faults : SUBSET Booked!FaultCodes, outcome : {"success", "failure", "timeout"}]
Receipt == {"TX", "SETTLE", "RF", "REVIEW"} \X Bookings

BookedSnapshot ==
    [booking : [Bookings -> BookingRow], session : [Bookings -> SessionRow], paid : [Bookings -> Int],
     receipts : SUBSET Receipt, commands : Seq(BookedCommand), bay : [Rooms -> Controller],
     station : BOOLEAN, room : [Booked!Bookers -> Int], review : {"pending", "succeeded"},
     price : Int, now : Int]

\* What a booking has paid (BooksBalance of BookingDemo).
Worth(d, k) ==
    LET bk == d.booking[k] IN
    CASE bk.status \in {"upcoming", "charging"} -> d.paid[k] = bk.advance
      [] bk.status = "completed" ->
            bk.price # 0 \/ d.session[k].bay = "none" =>
                /\ d.paid[k] = d.session[k].cost - IF <<"REVIEW", k>> \in d.receipts THEN Fee ELSE 0
                /\ bk.price # 0 => d.session[k].cost = d.session[k].energy * bk.price + Fee
      [] bk.status = "cancelled" -> d.paid[k] \in {bk.advance, Booked!Smaller(bk.advance, Booked!Forfeit(bk))}
      [] OTHER -> d.paid[k] = 0

\* A booking to come has only its advance behind it; one that was charged here is
\* settled once, and not reviewed; a session that goes on has a bay and a booking
\* that was not cancelled, and charges only while the booking says so; every booking
\* has a bay.
RowHolds(d, k) ==
    LET bk == d.booking[k]
        s == d.session[k]
        has(receipt) == <<receipt, k>> \in d.receipts
    IN  /\ Worth(d, k)
        /\ bk.status = "none" => s.state = "none" /\ ~has("TX") /\ ~has("SETTLE") /\ ~has("RF") /\ ~has("REVIEW")
        /\ Booked!Due(d, k) => ~has("SETTLE") /\ ~has("RF") /\ ~has("REVIEW")
        /\ bk.status = "completed" /\ s.bay # "none" => has("SETTLE") /\ ~has("REVIEW")
        /\ Booked!Active(d, k) => s.bay # "none" /\ bk.status \in {"upcoming", "charging", "completed"}
        /\ s.state = "charging" => bk.status = "charging"
        /\ s.state = "completed" /\ s.bay = "none" => bk.status = "completed"
        /\ bk.status # "none" => bk.bay # "none"

\* What a command may be about.
Commanded(d, k) ==
    /\ d.session[k].state # "none" /\ d.session[k].bay # "none"
    /\ d.booking[k].status \in {"upcoming", "charging", "completed"}

CommandsHold(d) ==
    \A i \in DOMAIN d.commands :
        d.commands[i].kind # "RESTART" => d.commands[i].of \in Bookings /\ Commanded(d, d.commands[i].of)

OnlyOnce(d) ==
    \A k \in Bookings : Booked!Due(d, k) =>
        ~Booked!InUse(d, d.booking[k].bay, d.booking[k].start, d.booking[k].hours, k)

BookedHolds(d) == OnlyOnce(d) /\ CommandsHold(d) /\ \A k \in Bookings : RowHolds(d, k)
BookedGood == {d \in BookedSnapshot : BookedHolds(d)}

\* Any one field of a snapshot may be replaced by one of its kind.
LEMMA BookedTyped ==
    ASSUME NEW d \in BookedSnapshot
    PROVE  /\ \A x \in [Bookings -> BookingRow] : [d EXCEPT !.booking = x] \in BookedSnapshot
           /\ \A x \in [Bookings -> SessionRow] : [d EXCEPT !.session = x] \in BookedSnapshot
           /\ \A x \in [Bookings -> Int] : [d EXCEPT !.paid = x] \in BookedSnapshot
           /\ \A x \in SUBSET Receipt : [d EXCEPT !.receipts = x] \in BookedSnapshot
           /\ \A x \in Seq(BookedCommand) : [d EXCEPT !.commands = x] \in BookedSnapshot
           /\ \A x \in [Rooms -> Controller] : [d EXCEPT !.bay = x] \in BookedSnapshot
           /\ \A x \in BOOLEAN : [d EXCEPT !.station = x] \in BookedSnapshot
           /\ \A x \in [Booked!Bookers -> Int] : [d EXCEPT !.room = x] \in BookedSnapshot
           /\ \A x \in {"pending", "succeeded"} : [d EXCEPT !.review = x] \in BookedSnapshot
           /\ \A x \in Int : [d EXCEPT !.price = x] \in BookedSnapshot /\ [d EXCEPT !.now = x] \in BookedSnapshot
BY Zenon DEF BookedSnapshot

LEMMA BookedFields ==
    ASSUME NEW d \in BookedSnapshot
    PROVE  /\ d.booking \in [Bookings -> BookingRow] /\ d.session \in [Bookings -> SessionRow]
           /\ d.paid \in [Bookings -> Int] /\ d.receipts \in SUBSET Receipt
           /\ d.commands \in Seq(BookedCommand) /\ d.bay \in [Rooms -> Controller]
           /\ d.station \in BOOLEAN /\ d.room \in [Booked!Bookers -> Int] /\ d.review \in {"pending", "succeeded"}
           /\ d.price \in Int /\ d.now \in Int
           /\ DOMAIN d.commands = 1..Len(d.commands) /\ Len(d.commands) \in Nat
           /\ \A i \in DOMAIN d.commands : d.commands[i] \in BookedCommand
BY DEF BookedSnapshot

\* Several at once.
Written(d, booking, session, paid, receipts, bays) ==
    [d EXCEPT !.booking = booking, !.session = session, !.paid = paid, !.receipts = receipts, !.bay = bays]

LEMMA WrittenTyped ==
    ASSUME NEW d \in BookedSnapshot, NEW booking \in [Bookings -> BookingRow],
           NEW session \in [Bookings -> SessionRow], NEW paid \in [Bookings -> Int],
           NEW receipts \in SUBSET Receipt, NEW bays \in [Rooms -> Controller]
    PROVE  LET e == Written(d, booking, session, paid, receipts, bays)
           IN  /\ e \in BookedSnapshot
               /\ e.booking = booking /\ e.session = session /\ e.paid = paid /\ e.receipts = receipts
               /\ e.bay = bays /\ e.commands = d.commands /\ e.room = d.room /\ e.station = d.station
<1> DEFINE a == [d EXCEPT !.booking = booking]
           b == [a EXCEPT !.session = session]
           c == [b EXCEPT !.paid = paid]
           f == [c EXCEPT !.receipts = receipts]
           g == [f EXCEPT !.bay = bays]
<1>1. Written(d, booking, session, paid, receipts, bays) = g
  BY DEF Written, BookedSnapshot
<1>2. a \in BookedSnapshot /\ a.booking = booking /\ a.commands = d.commands /\ a.room = d.room /\ a.station = d.station
  <2>1. a \in BookedSnapshot
    BY BookedTyped, Zenon
  <2>2. a.booking = booking /\ a.commands = d.commands /\ a.room = d.room /\ a.station = d.station
    BY DEF BookedSnapshot
  <2> QED
    BY <2>1, <2>2
<1> HIDE DEF a
<1>3. b \in BookedSnapshot /\ b.booking = booking /\ b.session = session /\ b.commands = d.commands /\ b.room = d.room /\ b.station = d.station
  <2>1. b \in BookedSnapshot
    BY <1>2, BookedTyped, Zenon
  <2>2. b.booking = booking /\ b.session = session /\ b.commands = d.commands /\ b.room = d.room /\ b.station = d.station
    BY <1>2 DEF BookedSnapshot
  <2> QED
    BY <2>1, <2>2
<1> HIDE DEF b
<1>4. c \in BookedSnapshot /\ c.booking = booking /\ c.session = session /\ c.paid = paid /\ c.commands = d.commands /\ c.room = d.room /\ c.station = d.station
  <2>1. c \in BookedSnapshot
    BY <1>3, BookedTyped, Zenon
  <2>2. c.booking = booking /\ c.session = session /\ c.paid = paid /\ c.commands = d.commands /\ c.room = d.room /\ c.station = d.station
    BY <1>3 DEF BookedSnapshot
  <2> QED
    BY <2>1, <2>2
<1> HIDE DEF c
<1>5. f \in BookedSnapshot /\ f.booking = booking /\ f.session = session /\ f.paid = paid /\ f.receipts = receipts /\ f.commands = d.commands /\ f.room = d.room /\ f.station = d.station
  <2>1. f \in BookedSnapshot
    BY <1>4, BookedTyped, Zenon
  <2>2. f.booking = booking /\ f.session = session /\ f.paid = paid /\ f.receipts = receipts /\ f.commands = d.commands /\ f.room = d.room /\ f.station = d.station
    BY <1>4 DEF BookedSnapshot
  <2> QED
    BY <2>1, <2>2
<1> HIDE DEF f
<1>6. g \in BookedSnapshot /\ g.booking = booking /\ g.session = session /\ g.paid = paid /\ g.receipts = receipts /\ g.bay = bays /\ g.commands = d.commands /\ g.room = d.room /\ g.station = d.station
  <2>1. g \in BookedSnapshot
    BY <1>5, BookedTyped, Zenon
  <2>2. g.booking = booking /\ g.session = session /\ g.paid = paid /\ g.receipts = receipts /\ g.bay = bays /\ g.commands = d.commands /\ g.room = d.room /\ g.station = d.station
    BY <1>5 DEF BookedSnapshot
  <2> QED
    BY <2>1, <2>2
<1> QED
  BY <1>1, <1>6

\* What is written of one booking leaves the others alone.
Touches(d, e, k) ==
    \A q \in Bookings \ {k} :
        /\ e.booking[q] = d.booking[q] /\ e.session[q] = d.session[q] /\ e.paid[q] = d.paid[q]
        /\ \A x \in {"TX", "SETTLE", "RF", "REVIEW"} : <<x, q>> \in e.receipts <=> <<x, q>> \in d.receipts

LEMMA OthersStay ==
    ASSUME NEW d, NEW e, NEW k, Touches(d, e, k), NEW q \in Bookings \ {k}
    PROVE  /\ RowHolds(d, q) => RowHolds(e, q)
           /\ Commanded(e, q) <=> Commanded(d, q)
           /\ Booked!Due(e, q) <=> Booked!Due(d, q)
BY Zenon DEF Touches, RowHolds, Commanded, Booked!Due, Booked!Active, Worth

\* The hours and the bay of a booking stay, and it does not come back.
Stays(d, e, k) ==
    /\ e.booking[k].bay = d.booking[k].bay /\ e.booking[k].start = d.booking[k].start
    /\ e.booking[k].hours = d.booking[k].hours
    /\ Booked!Due(e, k) => Booked!Due(d, k)

LEMMA OnceStays ==
    ASSUME NEW d, OnlyOnce(d), NEW e, \A k \in Bookings : Stays(d, e, k)
    PROVE  OnlyOnce(e)
BY DEF OnlyOnce, Stays, Booked!Due, Booked!InUse, Booked!Overlaps

\* Who was commanded may be commanded.
Heeds(d, e) == \A q \in Bookings : Commanded(d, q) => Commanded(e, q)

LEMMA CommandsStay ==
    ASSUME NEW d, CommandsHold(d), NEW e, Heeds(d, e), Leaves(d, e)
    PROVE  CommandsHold(e)
BY DEF CommandsHold, Heeds, Leaves

\* A step that touches one booking.
LEMMA OneRow ==
    ASSUME NEW d \in BookedGood, NEW e \in BookedSnapshot, NEW k \in Bookings, Touches(d, e, k),
           RowHolds(e, k), Stays(d, e, k), Commanded(d, k) => Commanded(e, k), Leaves(d, e)
    PROVE  e \in BookedGood /\ Heeds(d, e)
<1>0. BookedHolds(d)
  BY DEF BookedGood
<1>1. Heeds(d, e)
  BY OthersStay DEF Heeds
<1>2. CommandsHold(e)
  BY <1>0, <1>1, CommandsStay DEF BookedHolds
<1>3. \A q \in Bookings : Stays(d, e, q)
  BY Zenon DEF Stays, Touches, Booked!Due
<1>4. OnlyOnce(e)
  BY <1>0, <1>3, OnceStays DEF BookedHolds
<1>5. \A q \in Bookings : RowHolds(e, q)
  BY <1>0, OthersStay DEF BookedHolds
<1> QED
  BY <1>1, <1>2, <1>4, <1>5 DEF BookedGood, BookedHolds

\* A step that touches none.
LEMMA NoRow ==
    ASSUME NEW d \in BookedGood, NEW e \in BookedSnapshot, e.booking = d.booking, e.session = d.session,
           e.paid = d.paid, e.receipts = d.receipts, Leaves(d, e)
    PROVE  e \in BookedGood /\ Heeds(d, e)
<1>1. Sample \in Bookings /\ BookedHolds(d)
  BY BookingAssumption DEF BookedGood
<1>2. Touches(d, e, Sample) /\ Stays(d, e, Sample)
  BY DEF Touches, Stays, Booked!Due
<1>3. RowHolds(d, Sample)
  BY <1>1 DEF BookedHolds
<1>4. RowHolds(e, Sample) /\ (Commanded(d, Sample) => Commanded(e, Sample))
  BY <1>3 DEF RowHolds, Commanded, Worth, Booked!Due, Booked!Active
<1> QED
  BY <1>1, <1>2, <1>4, OneRow

-----------------------------------------------------------------------------
(* BookingDemo: payments, and the end of a session *)

\* A payment is made, or a refund, unless it was made before.
Paid(d, p, x, k, amount) ==
    /\ p \in BookedSnapshot
    /\ p.booking = d.booking /\ p.session = d.session /\ p.commands = d.commands /\ p.bay = d.bay
    /\ p.station = d.station /\ p.room = d.room /\ p.now = d.now /\ p.review = d.review
    /\ p.receipts = d.receipts \cup {<<x, k>>}
    /\ \A q \in Bookings \ {k} : p.paid[q] = d.paid[q]
    /\ p.paid[k] = IF <<x, k>> \in d.receipts THEN d.paid[k] ELSE d.paid[k] + amount

LEMMA PaySaves ==
    ASSUME NEW d \in BookedSnapshot, NEW x \in {"TX", "SETTLE", "RF", "REVIEW"}, NEW k \in Bookings, NEW amount \in Int
    PROVE  Paid(d, Booked!Pay(d, <<x, k>>, k, amount), x, k, amount)
<1> DEFINE id == <<x, k>>
           paid == [d.paid EXCEPT ![k] = d.paid[k] + amount]
           receipts == d.receipts \cup {id}
           e == [d EXCEPT !.paid = paid]
           f == [e EXCEPT !.receipts = receipts]
<1>1. d.paid \in [Bookings -> Int] /\ d.receipts \in SUBSET Receipt
  BY BookedFields
<1>2. paid \in [Bookings -> Int] /\ receipts \in SUBSET Receipt
  BY <1>1 DEF Receipt
<1>3. CASE id \in d.receipts
  <2>1. Booked!Pay(d, id, k, amount) = d
    BY <1>3 DEF Booked!Pay
  <2>2. d.receipts \cup {id} = d.receipts
    BY <1>3
  <2> QED
    BY <1>3, <2>1, <2>2 DEF Paid
<1>4. CASE id \notin d.receipts
  <2>1. Booked!Pay(d, id, k, amount) = [d EXCEPT !.paid = paid, !.receipts = receipts]
    <3>1. Booked!Pay(d, id, k, amount) = [d EXCEPT !.paid[k] = @ + amount, !.receipts = @ \cup {id}]
      BY <1>4 DEF Booked!Pay
    <3> QED
      BY <3>1 DEF BookedSnapshot
  <2>2. paid[k] = d.paid[k] + amount /\ \A q \in Bookings \ {k} : paid[q] = d.paid[q]
    BY <1>1
  <2> HIDE DEF paid, receipts
  <2>3. e \in BookedSnapshot
    BY <1>2, BookedTyped, Zenon
  <2>4. f \in BookedSnapshot
    <3> HIDE DEF e
    <3> QED
      BY <1>2, <2>3, BookedTyped, Zenon
  <2>5. Booked!Pay(d, id, k, amount) = f
    BY <2>1 DEF BookedSnapshot
  <2>6. f.booking = d.booking /\ f.session = d.session /\ f.commands = d.commands /\ f.bay = d.bay
        /\ f.receipts = receipts /\ f.paid = paid
        /\ f.station = d.station /\ f.room = d.room /\ f.now = d.now /\ f.review = d.review
    BY DEF BookedSnapshot
  <2> HIDE DEF e, f
  <2> QED
    BY <1>4, <2>2, <2>4, <2>5, <2>6 DEF receipts, Paid
<1> QED
  BY <1>3, <1>4

\* What becomes of a row is a row.
LEMMA SessionTyped ==
    ASSUME NEW s \in SessionRow, NEW state \in SessionStates, NEW number \in Int
    PROVE  /\ [s EXCEPT !.state = state] \in SessionRow
           /\ [s EXCEPT !.state = state, !.cost = number] \in SessionRow
           /\ [s EXCEPT !.energy = number] \in SessionRow
<1>1. PICK old \in SessionStates, bay \in Rooms \cup {"none"}, energy \in Int, cost \in Int :
          s = [state |-> old, bay |-> bay, energy |-> energy, cost |-> cost]
  BY DEF SessionRow
<1> QED
  BY <1>1, Zenon DEF SessionRow

LEMMA BookingTyped ==
    ASSUME NEW bk \in BookingRow, NEW status \in {"none", "upcoming", "charging", "completed", "cancelled"},
           NEW b \in Rooms
    PROVE  [bk EXCEPT !.status = status] \in BookingRow /\ [bk EXCEPT !.bay = b] \in BookingRow
BY DEF BookingRow

LEMMA PowerTyped ==
    ASSUME NEW bays \in [Rooms -> Controller], NEW b \in Rooms, NEW on \in BOOLEAN
    PROVE  [bays EXCEPT ![b] = [bays[b] EXCEPT !.on = on]] \in [Rooms -> Controller]
<1>1. bays[b] \in Controller
  OBVIOUS
<1> DEFINE x == bays[b]
<1>2. x \in Controller
  BY <1>1
<1> HIDE DEF x
<1>3. [x EXCEPT !.on = on] \in Controller
  BY <1>2 DEF Controller
<1> QED
  BY <1>3 DEF x

LEMMA ActiveIsPlaced ==
    ASSUME NEW d \in BookedGood, NEW k \in Bookings, Booked!Active(d, k)
    PROVE  /\ d.session[k].bay \in Rooms /\ d.booking[k].status \in {"upcoming", "charging", "completed"}
           /\ d \in BookedSnapshot /\ RowHolds(d, k) /\ Commanded(d, k)
<1>1. d \in BookedSnapshot /\ RowHolds(d, k)
  BY DEF BookedGood, BookedHolds
<1>2. d.session[k] \in SessionRow
  BY <1>1, BookedFields
<1>3. d.session[k].bay # "none" /\ d.booking[k].status \in {"upcoming", "charging", "completed"}
  BY <1>1 DEF RowHolds
<1> QED
  BY <1>1, <1>2, <1>3 DEF SessionRow, Commanded, Booked!Active

LEMMA BookedCostIsNumber ==
    ASSUME NEW d \in BookedSnapshot, NEW k \in Bookings
    PROVE  /\ d.session[k].energy * Booked!Rate(d, k) + Fee \in Int
           /\ d.booking[k].price # 0 => Booked!Rate(d, k) = d.booking[k].price
           /\ d.booking[k].advance \in Int
<1>1. d.session[k] \in SessionRow /\ d.booking[k] \in BookingRow /\ d.price \in Int /\ Fee \in Int
  BY BookedFields, BookingAssumption
<1>2. d.session[k].energy \in Int /\ Booked!Rate(d, k) \in Int /\ d.booking[k].advance \in Int
  BY <1>1 DEF SessionRow, BookingRow, Booked!Rate
<1>3. \A x, y \in Int : x * y + Fee \in Int
  BY <1>1
<1> QED
  BY <1>2, <1>3 DEF Booked!Rate

\* Ending a session settles its booking once.
LEMMA EndKeepsBooked ==
    ASSUME NEW d \in BookedGood, NEW k \in Bookings
    PROVE  /\ Booked!FinishSession(d, k) \in BookedGood /\ Heeds(d, Booked!FinishSession(d, k))
           /\ Booked!FinishSession(d, k).commands = d.commands
<1>1. CASE ~Booked!Active(d, k)
  BY <1>1 DEF Booked!FinishSession, Heeds
<1>2. CASE Booked!Active(d, k)
  <2> DEFINE s == d.session[k]
             bk == d.booking[k]
             cost == s.energy * Booked!Rate(d, k) + Fee
             amount == cost - bk.advance
             p == Booked!Pay(d, <<"SETTLE", k>>, k, amount)
             done == [s EXCEPT !.state = "completed", !.cost = cost]
             session == [d.session EXCEPT ![k] = done]
             over == [bk EXCEPT !.status = "completed"]
             booking == [d.booking EXCEPT ![k] = over]
             bays == [d.bay EXCEPT ![s.bay] = [d.bay[s.bay] EXCEPT !.on = FALSE]]
             e == Written(p, booking, session, p.paid, p.receipts, bays)
  <2>0. /\ s.bay \in Rooms /\ bk.status \in {"upcoming", "charging", "completed"}
        /\ d \in BookedSnapshot /\ RowHolds(d, k) /\ s \in SessionRow /\ bk \in BookingRow
        /\ d.session \in [Bookings -> SessionRow] /\ d.booking \in [Bookings -> BookingRow]
        /\ d.bay \in [Rooms -> Controller]
    BY <1>2, ActiveIsPlaced, BookedFields
  <2>1. cost \in Int /\ (bk.price # 0 => cost = s.energy * bk.price + Fee) /\ bk.advance \in Int
    BY <2>0, BookedCostIsNumber
  <2>2. Booked!FinishSession(d, k) = [p EXCEPT !.session[k] = [@ EXCEPT !.state = "completed", !.cost = cost],
                                               !.booking[k].status = "completed", !.bay[s.bay].on = FALSE]
    BY <1>2 DEF Booked!FinishSession
  <2> HIDE DEF cost
  <2>3. /\ p \in BookedSnapshot
        /\ p.booking = d.booking /\ p.session = d.session /\ p.commands = d.commands /\ p.bay = d.bay
        /\ p.receipts = d.receipts \cup {<<"SETTLE", k>>}
        /\ \A q \in Bookings \ {k} : p.paid[q] = d.paid[q]
        /\ p.paid[k] = IF <<"SETTLE", k>> \in d.receipts THEN d.paid[k] ELSE d.paid[k] + (cost - bk.advance)
    <3>1. amount \in Int
      BY <2>1
    <3>2. amount = cost - bk.advance
      OBVIOUS
    <3> HIDE DEF amount
    <3>3. d \in BookedSnapshot
      BY <2>0
    <3>4. "SETTLE" \in {"TX", "SETTLE", "RF", "REVIEW"}
      OBVIOUS
    <3>5. Paid(d, p, "SETTLE", k, amount)
      BY <3>1, <3>3, <3>4, PaySaves
    <3> HIDE DEF p
    <3> QED
      BY <3>2, <3>5 DEF Paid
  <2> HIDE DEF p, amount
  <2>4. Booked!FinishSession(d, k) = [p EXCEPT !.session = session, !.booking = booking, !.bay = bays]
    BY <2>2, <2>3, Zenon DEF BookedSnapshot
  <2>5. done \in SessionRow /\ done.state = "completed" /\ done.cost = cost /\ done.bay = s.bay /\ done.energy = s.energy
    <3> HIDE DEF s
    <3>1. done \in SessionRow
      BY <2>0, <2>1, SessionTyped, Zenon DEF SessionStates
    <3> QED
      BY <2>0, <3>1 DEF SessionRow
  <2>6. over \in BookingRow /\ over.status = "completed" /\ over.bay = bk.bay /\ over.start = bk.start
        /\ over.hours = bk.hours /\ over.price = bk.price /\ over.advance = bk.advance
    <3> HIDE DEF bk
    <3> QED
      BY <2>0 DEF BookingRow
  <2> HIDE DEF done, over
  <2>7. session \in [Bookings -> SessionRow] /\ booking \in [Bookings -> BookingRow]
    BY <2>0, <2>5, <2>6
  <2>8. bays \in [Rooms -> Controller]
    <3> DEFINE b == s.bay
    <3>1. b \in Rooms
      BY <2>0
    <3> HIDE DEF b
    <3> QED
      BY <2>0, <3>1, PowerTyped, Zenon
  <2>9. session[k] = done /\ booking[k] = over
        /\ \A q \in Bookings \ {k} : session[q] = d.session[q] /\ booking[q] = d.booking[q]
    BY <2>0
  <2> HIDE DEF session, booking, bays
  <2>10. Booked!FinishSession(d, k) = e
    BY <2>3, <2>4, Zenon DEF Written, BookedSnapshot
  <2>11. /\ e \in BookedSnapshot
         /\ e.booking = booking /\ e.session = session /\ e.paid = p.paid /\ e.receipts = p.receipts
         /\ e.commands = d.commands
    <3>1. p.paid \in [Bookings -> Int] /\ p.receipts \in SUBSET Receipt
      BY <2>3, BookedFields, Zenon
    <3> QED
      BY <2>3, <2>7, <2>8, <3>1, WrittenTyped
  <2> HIDE DEF e
  <2>12. Touches(d, e, k)
    BY <2>3, <2>9, <2>11 DEF Touches
  <2>13. RowHolds(e, k)
    <3>1. <<"SETTLE", k>> \in e.receipts
      BY <2>3, <2>11
    <3>2. <<"REVIEW", k>> \notin e.receipts
      <4>1. <<"REVIEW", k>> \notin d.receipts
        <5>1. s.bay # "none"
          BY <2>0, BookingAssumption
        <5>2. CASE bk.status \in {"upcoming", "charging"}
          BY <2>0, <5>2 DEF RowHolds, Booked!Due
        <5>3. CASE bk.status = "completed"
          BY <2>0, <5>1, <5>3 DEF RowHolds
        <5> QED
          BY <2>0, <5>2, <5>3
      <4> QED
        BY <2>3, <2>11, <4>1
    <3>3. bk.price # 0 \/ <<"SETTLE", k>> \notin d.receipts => p.paid[k] = cost
      <4>0. d.paid[k] \in Int
        BY <2>0, BookedFields
      <4>1. CASE bk.status \in {"upcoming", "charging"}
        <5>1. d.paid[k] = bk.advance /\ <<"SETTLE", k>> \notin d.receipts
          BY <2>0, <4>1 DEF RowHolds, Booked!Due, Worth
        <5> QED
          BY <2>1, <2>3, <5>1, <4>0
      <4>2. CASE bk.status = "completed"
        <5>1. <<"SETTLE", k>> \in d.receipts /\ <<"REVIEW", k>> \notin d.receipts
          BY <2>0, <4>2, BookingAssumption DEF RowHolds
        <5>2. bk.price # 0 => d.paid[k] = s.cost - 0 /\ s.cost = s.energy * bk.price + Fee
          BY <2>0, <4>2, <5>1 DEF RowHolds, Worth
        <5>3. s.cost \in Int
          BY <2>0 DEF SessionRow
        <5> QED
          BY <2>1, <2>3, <5>1, <5>2, <5>3
      <4> QED
        BY <2>0, <4>1, <4>2
    <3>4. s.bay # "none"
      BY <2>0, BookingAssumption
    <3>5. e.booking[k] = over /\ e.session[k] = done /\ e.paid[k] = p.paid[k]
      BY <2>9, <2>11
    <3>6. Worth(e, k)
      <4>1. bk.price # 0 => e.paid[k] = cost - 0 /\ done.cost = done.energy * over.price + Fee
        BY <2>1, <2>5, <2>6, <3>3, <3>5
      <4>2. over.status = "completed" /\ over.price = bk.price /\ done.bay # "none" /\ done.cost = cost
        BY <2>5, <2>6, <3>4
      <4> QED
        BY <3>2, <3>5, <4>1, <4>2 DEF Worth
    <3> QED
      BY <2>0, <2>5, <2>6, <3>1, <3>2, <3>4, <3>5, <3>6 DEF RowHolds, Booked!Due, Booked!Active
  <2>14. Stays(d, e, k) /\ Commanded(e, k) /\ Leaves(d, e)
    <3>1. s.bay # "none"
      BY <2>0, BookingAssumption
    <3> QED
      BY <2>5, <2>6, <2>9, <2>11, <3>1 DEF Stays, Commanded, Leaves, Booked!Due
  <2> QED
    BY <2>10, <2>11, <2>12, <2>13, <2>14, OneRow
<1> QED
  BY <1>1, <1>2

\* What comes of d is good, and may still be commanded.
Keeps(d, e) == e \in BookedGood /\ Heeds(d, e)

LEMMA KeepsOn ==
    ASSUME NEW d, NEW e, NEW f, Keeps(d, e), Keeps(e, f)
    PROVE  Keeps(d, f)
BY DEF Keeps, Heeds

LEMMA EndAllKeepsBooked ==
    ASSUME NEW d \in BookedGood, NEW sessions \in SUBSET Bookings
    PROVE  Keeps(d, Booked!FinishAll(d, sessions))
<1> DEFINE Follow(g) == g = [R \in SUBSET sessions |->
                            IF R = {} THEN d
                            ELSE Booked!FinishSession(g[R \ {CHOOSE x \in R : TRUE}], CHOOSE x \in R : TRUE)]
           after == {e \in BookedGood : Heeds(d, e)}
           step == [p \in Bookings \X after |-> Booked!FinishSession(p[2], p[1])]
           pick == [R \in SUBSET sessions |-> CHOOSE x \in R : TRUE]
           range == [R \in SUBSET sessions |-> after]
<1>1. IsFiniteSet(sessions)
  BY BookingAssumption, FS_Subset
<1>2. \A R \in SUBSET sessions : R # {} => (CHOOSE x \in R : TRUE) \in R /\ R \ {CHOOSE x \in R : TRUE} \in SUBSET sessions
  OBVIOUS
<1>3. ASSUME NEW r \in Bookings, NEW e \in after PROVE Booked!FinishSession(e, r) \in after
  BY EndKeepsBooked DEF Heeds
<1>4. d \in after
  BY DEF Heeds
<1> HIDE DEF after
<1>5. \A r \in Bookings : \A e \in after : step[<<r, e>>] = Booked!FinishSession(e, r) /\ step[<<r, e>>] \in after
  BY <1>3
<1>6. \E g : Follow(g)
  <2>1. Picks(pick, sessions)
    BY <1>2 DEF Picks
  <2>2. \A R \in SUBSET sessions : R # {} =>
            \A e \in range[R \ {pick[R]}] : step[<<pick[R], e>>] \in range[R]
    <3> HIDE DEF step
    <3> QED
      BY <1>2, <1>5
  <2>3. d \in range[{}]
    BY <1>4
  <2>4. PICK g : IsFold(g, d, pick, step, sessions) /\ \A R \in SUBSET sessions : g[R] \in range[R]
    <3> HIDE DEF step, pick, range
    <3> QED
      BY <1>1, <2>1, <2>2, <2>3, FoldReaches, Zenon
  <2>5. ASSUME NEW R \in SUBSET sessions
        PROVE  Reached(g, d, pick, step, R)
                  = IF R = {} THEN d
                    ELSE Booked!FinishSession(g[R \ {CHOOSE x \in R : TRUE}], CHOOSE x \in R : TRUE)
    <3> HIDE DEF step
    <3> QED
      BY <1>2, <1>5, <2>4, Zenon DEF Reached
  <2>6. Follow(g)
    BY <2>4, <2>5, Zenon DEF IsFold
  <2> QED
    BY <2>6, Zenon
<1> DEFINE g == CHOOSE g : Follow(g)
<1>7. Follow(g)
  BY <1>6, Zenon
<1>8. Booked!FinishAll(d, sessions) = g[sessions]
  BY DEF Booked!FinishAll, Booked!FoldSet, Booked!MapThenFoldSet
<1>9. g[sessions] \in after
  <2> DEFINE H == {R \in SUBSET sessions : g[R] \in after}
  <2>0. \A R \in SUBSET sessions : g[R] = IF R = {} THEN d
                            ELSE Booked!FinishSession(g[R \ {CHOOSE x \in R : TRUE}], CHOOSE x \in R : TRUE)
    BY <1>7, Zenon
  <2> HIDE DEF g
  <2>1. {} \in H
    BY <1>4, <2>0
  <2>2. ASSUME NEW R \in SUBSET sessions, R # {} PROVE \E x \in R : R \ {x} \in H => R \in H
    <3> DEFINE x == CHOOSE x \in R : TRUE
    <3>1. x \in R /\ x \in Bookings /\ R \ {x} \in SUBSET sessions
      BY <2>2
    <3>2. g[R] = Booked!FinishSession(g[R \ {x}], x)
      BY <2>0, <2>2, Zenon
    <3> HIDE DEF x
    <3> QED
      BY <1>3, <3>1, <3>2, Zenon
  <2> HIDE DEF H
  <2>3. sessions \in H
    BY <1>1, <2>1, <2>2, SubsetInduction
  <2> QED
    BY <2>3 DEF H
<1> QED
  BY <1>8, <1>9 DEF Keeps, after

\* A session goes on in another state, or begins to charge.
LEMMA SetKeepsBooked ==
    ASSUME NEW d \in BookedGood, NEW k \in Bookings, Commanded(d, k), NEW to, NEW status,
           \/ /\ to \in SessionStates \ {"none", "completed", "charging"}
              /\ status = d.booking[k].status
           \/ to = "charging" /\ status = "charging" /\ Booked!Due(d, k),
           NEW bays \in [Rooms -> Controller]
    PROVE  LET e == Written(d, [d.booking EXCEPT ![k] = [d.booking[k] EXCEPT !.status = status]],
                            [d.session EXCEPT ![k] = [d.session[k] EXCEPT !.state = to]],
                            d.paid, d.receipts, bays)
           IN  Keeps(d, e) /\ e.commands = d.commands
<1> DEFINE s == d.session[k]
           bk == d.booking[k]
           new == [s EXCEPT !.state = to]
           over == [bk EXCEPT !.status = status]
           session == [d.session EXCEPT ![k] = new]
           booking == [d.booking EXCEPT ![k] = over]
           e == Written(d, booking, session, d.paid, d.receipts, bays)
<1>0. /\ d \in BookedSnapshot /\ RowHolds(d, k) /\ s \in SessionRow /\ bk \in BookingRow
      /\ d.session \in [Bookings -> SessionRow] /\ d.booking \in [Bookings -> BookingRow]
      /\ d.paid \in [Bookings -> Int] /\ d.receipts \in SUBSET Receipt
  BY BookedFields DEF BookedGood, BookedHolds
<1>1. /\ to \in SessionStates \ {"none", "completed"} /\ status \in {"upcoming", "charging", "completed"}
      /\ s.state # "none" /\ s.bay # "none" /\ bk.status \in {"upcoming", "charging", "completed"}
  BY DEF Commanded, SessionStates
<1>2. new \in SessionRow /\ new.state = to /\ new.bay = s.bay /\ new.energy = s.energy /\ new.cost = s.cost
  <2> HIDE DEF s
  <2>1. new \in SessionRow
    BY <1>0, <1>1, SessionTyped, Zenon
  <2> QED
    BY <1>0, <2>1 DEF SessionRow
<1>3. over \in BookingRow /\ over.status = status /\ over.bay = bk.bay /\ over.start = bk.start
      /\ over.hours = bk.hours /\ over.price = bk.price /\ over.advance = bk.advance
  <2> HIDE DEF bk
  <2> QED
    BY <1>0, <1>1 DEF BookingRow
<1> HIDE DEF new, over
<1>4. session \in [Bookings -> SessionRow] /\ booking \in [Bookings -> BookingRow]
  BY <1>0, <1>2, <1>3
<1>5. session[k] = new /\ booking[k] = over
      /\ \A q \in Bookings \ {k} : session[q] = d.session[q] /\ booking[q] = d.booking[q]
  BY <1>0
<1> HIDE DEF session, booking
<1>6. /\ e \in BookedSnapshot
      /\ e.booking = booking /\ e.session = session /\ e.paid = d.paid /\ e.receipts = d.receipts
      /\ e.commands = d.commands
  BY <1>0, <1>4, WrittenTyped
<1> HIDE DEF e
<1>7. Touches(d, e, k)
  BY <1>5, <1>6 DEF Touches
<1>8. e.booking[k] = over /\ e.session[k] = new /\ e.paid[k] = d.paid[k]
  BY <1>5, <1>6
<1>9. Booked!Due(e, k) <=> Booked!Due(d, k)
  BY <1>3, <1>8 DEF Booked!Due
<1>10. over.status = "completed" <=> bk.status = "completed"
  BY <1>3 DEF Booked!Due
<1>11. Worth(e, k)
  <2>1. CASE bk.status \in {"upcoming", "charging"}
    BY <1>0, <1>3, <1>8, <1>9, <2>1 DEF RowHolds, Worth, Booked!Due
  <2>2. CASE bk.status = "completed"
    BY <1>0, <1>2, <1>3, <1>6, <1>8, <1>10, <2>2 DEF RowHolds, Worth
  <2> QED
    BY <1>1, <2>1, <2>2
<1>12. RowHolds(e, k)
  BY <1>0, <1>1, <1>2, <1>3, <1>6, <1>8, <1>9, <1>10, <1>11 DEF RowHolds, Booked!Active
<1>13. Stays(d, e, k) /\ Commanded(e, k) /\ Leaves(d, e)
  BY <1>1, <1>2, <1>3, <1>6, <1>8, <1>9 DEF Stays, Commanded, Leaves
<1>14. Keeps(d, e) /\ e.commands = d.commands
  BY <1>6, <1>7, <1>12, <1>13, OneRow DEF Keeps
<1> QED
  BY <1>14 DEF e, session, booking, new, over

-----------------------------------------------------------------------------
(* BookingDemo: the tick *)

\* Writing what is there writes nothing.
LEMMA SameRow ==
    ASSUME NEW d \in BookedSnapshot, NEW k \in Bookings
    PROVE  /\ [d.booking EXCEPT ![k] = [d.booking[k] EXCEPT !.status = d.booking[k].status]] = d.booking
           /\ d.booking \in [Bookings -> BookingRow] /\ d.session \in [Bookings -> SessionRow]
<1>1. d.booking \in [Bookings -> BookingRow] /\ d.session \in [Bookings -> SessionRow]
  BY BookedFields
<1> DEFINE bk == d.booking[k]
<1>2. bk \in BookingRow
  BY <1>1
<1> HIDE DEF bk
<1>3. [bk EXCEPT !.status = bk.status] = bk
  BY <1>2 DEF BookingRow
<1>4. [d.booking EXCEPT ![k] = bk] = d.booking
  BY <1>1 DEF bk
<1> QED
  BY <1>1, <1>3, <1>4 DEF bk

LEMMA MovedKeepsBooked ==
    ASSUME NEW d \in BookedGood, NEW k \in Bookings, Commanded(d, k),
           NEW to \in SessionStates \ {"none", "completed", "charging"}, NEW b \in Rooms
    PROVE  /\ Keeps(d, [d EXCEPT !.session[k].state = to])
           /\ Keeps(d, [d EXCEPT !.session[k].state = to, !.bay[b].on = FALSE])
           /\ [d EXCEPT !.session[k].state = to].commands = d.commands
<1> DEFINE session == [d.session EXCEPT ![k] = [d.session[k] EXCEPT !.state = to]]
           off == [d.bay EXCEPT ![b] = [d.bay[b] EXCEPT !.on = FALSE]]
<1>0. d \in BookedSnapshot
  BY DEF BookedGood
<1>1. d.bay \in [Rooms -> Controller] /\ off \in [Rooms -> Controller]
  BY <1>0, BookedFields, PowerTyped, Zenon
<1> HIDE DEF off
<1>2. \A bays \in [Rooms -> Controller] : Keeps(d, Written(d, d.booking, session, d.paid, d.receipts, bays))
  <2> SUFFICES ASSUME NEW bays \in [Rooms -> Controller]
               PROVE  Keeps(d, Written(d, d.booking, session, d.paid, d.receipts, bays))
    OBVIOUS
  <2> DEFINE status == d.booking[k].status
             same == [d.booking EXCEPT ![k] = [d.booking[k] EXCEPT !.status = status]]
  <2>1. same = d.booking
    BY <1>0, SameRow
  <2>2. status = d.booking[k].status
    OBVIOUS
  <2> HIDE DEF status
  <2>3. Keeps(d, Written(d, same, session, d.paid, d.receipts, bays))
    BY <2>2, SetKeepsBooked, Zenon
  <2> HIDE DEF session, same
  <2> QED
    BY <2>1, <2>3
<1>3. [d EXCEPT !.session[k].state = to] = Written(d, d.booking, session, d.paid, d.receipts, d.bay)
      /\ [d EXCEPT !.session[k].state = to].commands = d.commands
  <2>1. [d EXCEPT !.session[k].state = to] = [d EXCEPT !.session = session]
    BY <1>0 DEF BookedSnapshot
  <2> HIDE DEF session
  <2> QED
    BY <1>0, <2>1, Zenon DEF BookedSnapshot, Written
<1>4. [d EXCEPT !.session[k].state = to, !.bay[b].on = FALSE]
          = Written(d, d.booking, session, d.paid, d.receipts, off)
  <2>1. [d EXCEPT !.session[k].state = to, !.bay[b].on = FALSE] = [d EXCEPT !.session = session, !.bay = off]
    BY <1>0 DEF BookedSnapshot, off
  <2> HIDE DEF session
  <2> QED
    BY <1>0, <2>1, Zenon DEF BookedSnapshot, Written
<1> HIDE DEF session
<1> QED
  BY <1>1, <1>2, <1>3, <1>4

LEMMA ChargingKeepsBooked ==
    ASSUME NEW d \in BookedGood, NEW k \in Bookings, Commanded(d, k), Booked!Due(d, k), NEW b \in Rooms
    PROVE  Keeps(d, [d EXCEPT !.session[k].state = "charging", !.booking[k].status = "charging", !.bay[b].on = TRUE])
<1> DEFINE to == "charging"
           power == TRUE
           session == [d.session EXCEPT ![k] = [d.session[k] EXCEPT !.state = to]]
           booking == [d.booking EXCEPT ![k] = [d.booking[k] EXCEPT !.status = to]]
           on == [d.bay EXCEPT ![b] = [d.bay[b] EXCEPT !.on = power]]
<1>0. d \in BookedSnapshot /\ to = "charging" /\ power \in BOOLEAN
  BY DEF BookedGood
<1> HIDE DEF power
<1>1. on \in [Rooms -> Controller]
  BY <1>0, BookedFields, PowerTyped
<1>2. [d EXCEPT !.session[k].state = to, !.booking[k].status = to, !.bay[b].on = power]
          = Written(d, booking, session, d.paid, d.receipts, on)
  <2> HIDE DEF to
  <2>1. [d EXCEPT !.session[k].state = to, !.booking[k].status = to, !.bay[b].on = power]
            = [d EXCEPT !.session = session, !.booking = booking, !.bay = on]
    BY <1>0 DEF BookedSnapshot
  <2> HIDE DEF session, booking, on
  <2> QED
    BY <1>0, <2>1, Zenon DEF BookedSnapshot, Written
<1> HIDE DEF on, to
<1>3. Keeps(d, Written(d, booking, session, d.paid, d.receipts, on))
  BY <1>0, <1>1, SetKeepsBooked
<1> HIDE DEF session, booking
<1> QED
  BY <1>2, <1>3 DEF to, power

\* The devices, the station and the vehicles may change as they like.
LEMMA BayKeepsBooked ==
    ASSUME NEW d \in BookedGood, NEW bays \in [Rooms -> Controller]
    PROVE  Keeps(d, [d EXCEPT !.bay = bays])
<1> DEFINE e == [d EXCEPT !.bay = bays]
<1>0. d \in BookedSnapshot
  BY DEF BookedGood
<1>1. e \in BookedSnapshot
  BY <1>0, BookedTyped, Zenon
<1>2. e.booking = d.booking /\ e.session = d.session /\ e.paid = d.paid /\ e.receipts = d.receipts /\ e.commands = d.commands
  BY <1>0 DEF BookedSnapshot
<1> HIDE DEF e
<1>3. Leaves(d, e)
  BY <1>2 DEF Leaves
<1>4. Keeps(d, e)
  BY <1>1, <1>2, <1>3, NoRow DEF Keeps
<1> QED
  BY <1>4 DEF e

\* Commands may be dropped.
LEMMA DroppedKeepsBooked ==
    ASSUME NEW d \in BookedGood, NEW gone
    PROVE  LET e == [d EXCEPT !.commands = Booked!Without(d.commands, gone)]
           IN  /\ Keeps(d, e) /\ Leaves(d, e) /\ e.booking = d.booking /\ e.session = d.session
               /\ e.bay = d.bay
               /\ \A j \in DOMAIN e.commands : e.commands[j] \notin gone
<1> DEFINE commands == Left(d.commands, gone)
           e == [d EXCEPT !.commands = commands]
<1>0. d \in BookedSnapshot
  BY DEF BookedGood
<1>1. /\ commands \in Seq(BookedCommand) /\ PartOf(commands, d.commands)
      /\ \A i \in 1..Len(commands) : commands[i] \notin gone
  BY <1>0, BookedFields, LeftIsPart
<1> HIDE DEF commands
<1>2. e \in BookedSnapshot
  BY <1>0, <1>1, BookedTyped, Zenon
<1>3. e.booking = d.booking /\ e.session = d.session /\ e.paid = d.paid /\ e.receipts = d.receipts
      /\ e.commands = commands /\ e.bay = d.bay
  BY <1>0 DEF BookedSnapshot
<1> HIDE DEF e
<1>4. Leaves(d, e) /\ DOMAIN e.commands = 1..Len(commands)
  <2>1. DOMAIN commands = 1..Len(commands) /\ DOMAIN d.commands = 1..Len(d.commands)
    BY <1>0, <1>1, BookedFields
  <2>2. PICK place \in [1..Len(commands) -> 1..Len(d.commands)] :
            \A i \in 1..Len(commands) : commands[i] = d.commands[place[i]]
    BY <1>1, Zenon DEF PartOf
  <2>3. \A j \in DOMAIN commands : \E i \in DOMAIN d.commands : commands[j] = d.commands[i]
    BY <2>1, <2>2
  <2> QED
    BY <1>3, <2>1, <2>3 DEF Leaves
<1>5. Keeps(d, e)
  BY <1>2, <1>3, <1>4, NoRow DEF Keeps
<1>6. e = [d EXCEPT !.commands = Booked!Without(d.commands, gone)]
  BY BookedWithout DEF e, commands
<1>7. \A j \in DOMAIN e.commands : e.commands[j] \notin gone
  BY <1>1, <1>3, <1>4
<1> HIDE DEF e
<1> QED
  BY <1>3, <1>4, <1>5, <1>6, <1>7

\* A session that charges has taken some energy.
LEMMA ReadKeepsBooked ==
    ASSUME NEW d \in BookedGood, NEW k \in Bookings, d.session[k].state = "charging",
           NEW u \in Booked!Bookers, NEW energy \in Int, NEW room \in Int
    PROVE  Keeps(d, [d EXCEPT !.session[k].energy = energy, !.room[u] = room])
<1> DEFINE s == d.session[k]
           new == [s EXCEPT !.energy = energy]
           session == [d.session EXCEPT ![k] = new]
           rooms == [d.room EXCEPT ![u] = room]
           c == [d EXCEPT !.session = session]
           e == [c EXCEPT !.room = rooms]
<1>0. /\ d \in BookedSnapshot /\ RowHolds(d, k) /\ s \in SessionRow /\ s.state = "charging"
      /\ d.session \in [Bookings -> SessionRow] /\ d.room \in [Booked!Bookers -> Int]
  BY BookedFields DEF BookedGood, BookedHolds
<1>1. new \in SessionRow /\ new.state = s.state /\ new.bay = s.bay
  <2> HIDE DEF s
  <2>1. new \in SessionRow
    BY <1>0, SessionTyped, Zenon DEF SessionStates
  <2> QED
    BY <1>0, <2>1 DEF SessionRow
<1>2. [d EXCEPT !.session[k].energy = energy, !.room[u] = room] = e
  BY <1>0 DEF BookedSnapshot
<1> HIDE DEF new
<1>3. session \in [Bookings -> SessionRow] /\ rooms \in [Booked!Bookers -> Int]
  BY <1>0, <1>1
<1>4. session[k] = new /\ \A q \in Bookings \ {k} : session[q] = d.session[q]
  BY <1>0
<1> HIDE DEF session, rooms
<1>5. c \in BookedSnapshot /\ c.session = session /\ c.booking = d.booking /\ c.paid = d.paid
      /\ c.receipts = d.receipts /\ c.commands = d.commands
  <2>1. c \in BookedSnapshot
    BY <1>0, <1>3, BookedTyped, Zenon
  <2> QED
    BY <1>0, <2>1, Zenon DEF BookedSnapshot
<1> HIDE DEF c
<1>6. e \in BookedSnapshot /\ e.session = session /\ e.booking = d.booking /\ e.paid = d.paid
      /\ e.receipts = d.receipts /\ e.commands = d.commands
  <2>1. e \in BookedSnapshot
    BY <1>3, <1>5, BookedTyped, Zenon
  <2> QED
    BY <1>5, <2>1, Zenon DEF BookedSnapshot
<1> HIDE DEF e
<1>7. d.booking[k].status = "charging" /\ e.session[k] = new
  BY <1>0, <1>4, <1>6 DEF RowHolds
<1>8. Touches(d, e, k) /\ Stays(d, e, k) /\ Leaves(d, e)
  BY <1>4, <1>6 DEF Touches, Stays, Leaves, Booked!Due
<1>9. RowHolds(e, k)
  BY <1>0, <1>1, <1>6, <1>7 DEF RowHolds, Worth, Booked!Due, Booked!Active
<1>10. Commanded(d, k) => Commanded(e, k)
  BY <1>1, <1>6, <1>7 DEF Commanded
<1>11. Keeps(d, e)
  BY <1>6, <1>8, <1>9, <1>10, OneRow DEF Keeps
<1> QED
  BY <1>2, <1>11

LEMMA BecomeKeepsBooked ==
    ASSUME NEW d \in BookedGood, NEW k \in Bookings, NEW from, d.session[k].state \in from => Commanded(d, k),
           NEW to \in SessionStates \ {"none", "completed", "charging"}
    PROVE  Keeps(d, Booked!Become(d, k, from, to)) /\ Booked!Become(d, k, from, to).commands = d.commands
<1>1. PICK b \in Rooms : TRUE
  BY BookingAssumption
<1>2. CASE d.session[k].state \in from
  BY <1>1, <1>2, MovedKeepsBooked, Zenon DEF Booked!Become
<1>3. CASE d.session[k].state \notin from
  BY <1>3 DEF Booked!Become, Keeps, Heeds
<1> QED
  BY <1>2, <1>3

LEMMA OffKeepsBooked ==
    ASSUME NEW d \in BookedGood, NEW b \in Rooms
    PROVE  Keeps(d, [d EXCEPT !.bay[b].on = FALSE])
<1> DEFINE off == [d.bay EXCEPT ![b] = [d.bay[b] EXCEPT !.on = FALSE]]
<1>0. d \in BookedSnapshot
  BY DEF BookedGood
<1>1. off \in [Rooms -> Controller]
  BY <1>0, BookedFields, PowerTyped, Zenon
<1>2. [d EXCEPT !.bay[b].on = FALSE] = [d EXCEPT !.bay = off]
  OBVIOUS
<1> HIDE DEF off
<1> QED
  BY <1>1, <1>2, BayKeepsBooked

\* What a controller has done of a command, however long ago it was sent.
LEMMA DoneKeepsBooked ==
    ASSUME NEW d \in BookedGood, NEW c \in BookedCommand,
           c.kind # "RESTART" => c.of \in Bookings /\ Commanded(d, c.of),
           c.kind = "START" => Booked!Due(d, c.of)
    PROVE  Keeps(d, Booked!Done(d, c))
<1>0. c.bay \in Rooms /\ c.kind \in {"START", "STOP", "PAUSE", "RESTART", "EMERGENCY_STOP"}
  BY DEF BookedCommand
<1>1. CASE c.kind = "START"
  <2>1. c.of \in Bookings /\ Commanded(d, c.of) /\ Booked!Due(d, c.of)
    BY <1>1
  <2>2. Booked!Done(d, c) = [d EXCEPT !.session[c.of].state = "charging",
                                      !.booking[c.of].status = "charging", !.bay[c.bay].on = TRUE]
    BY <1>1 DEF Booked!Done
  <2> DEFINE k == c.of
             b == c.bay
  <2>3. k \in Bookings /\ Commanded(d, k) /\ Booked!Due(d, k) /\ b \in Rooms
    BY <1>0, <2>1
  <2> HIDE DEF k, b
  <2>4. Keeps(d, [d EXCEPT !.session[k].state = "charging", !.booking[k].status = "charging", !.bay[b].on = TRUE])
    BY <2>3, ChargingKeepsBooked, Zenon
  <2> QED
    BY <2>2, <2>4 DEF k, b
<1>2. CASE c.kind = "PAUSE"
  <2>1. c.of \in Bookings /\ Commanded(d, c.of) /\ "paused" \in SessionStates \ {"none", "completed", "charging"}
    BY <1>2 DEF SessionStates
  <2>2. Booked!Done(d, c) = [d EXCEPT !.session[c.of].state = "paused", !.bay[c.bay].on = FALSE]
    BY <1>2 DEF Booked!Done
  <2> DEFINE k == c.of
             b == c.bay
             to == "paused"
  <2>3. k \in Bookings /\ Commanded(d, k) /\ b \in Rooms /\ to \in SessionStates \ {"none", "completed", "charging"}
    BY <1>0, <2>1
  <2> HIDE DEF k, b, to
  <2>4. Keeps(d, [d EXCEPT !.session[k].state = to, !.bay[b].on = FALSE])
    BY <2>3, MovedKeepsBooked, Zenon
  <2> QED
    BY <2>2, <2>4 DEF k, b, to
<1>3. CASE c.kind = "STOP"
  <2>1. c.of \in Bookings /\ Booked!Done(d, c) = Booked!FinishSession(d, c.of)
    BY <1>3 DEF Booked!Done
  <2> QED
    BY <2>1, EndKeepsBooked DEF Keeps
<1>4. CASE c.kind = "RESTART"
  <2>1. Booked!Done(d, c) = [d EXCEPT !.bay[c.bay].on = FALSE]
    BY <1>4 DEF Booked!Done
  <2> QED
    BY <1>0, <2>1, OffKeepsBooked
<1>5. CASE c.kind = "EMERGENCY_STOP"
  <2>1. Booked!Done(d, c) = d
    BY <1>5 DEF Booked!Done
  <2> QED
    BY <2>1 DEF Keeps, Heeds
<1> QED
  BY <1>0, <1>1, <1>2, <1>3, <1>4, <1>5

LEMMA AnswerKeepsBooked ==
    ASSUME NEW d \in BookedGood, NEW i \in DOMAIN d.commands, NEW e, Keeps(d, e)
    PROVE  Keeps(d, Booked!Answer(e, d.commands[i]))
<1> DEFINE c == d.commands[i]
           k == c.of
           done == [e EXCEPT !.commands = Booked!Without(e.commands, {c})]
<1>0. e \in BookedGood /\ Heeds(d, e)
  BY DEF Keeps
<1>1. /\ c \in BookedCommand
      /\ c.kind # "RESTART" => k \in Bookings /\ Commanded(e, k)
  <2>1. c \in BookedCommand
    BY BookedFields DEF BookedGood
  <2> QED
    BY <1>0, <2>1 DEF BookedGood, BookedHolds, CommandsHold, Heeds
<1>2. Keeps(e, done) /\ done.booking = e.booking /\ done.session = e.session
  BY <1>0, DroppedKeepsBooked
<1>3. done \in BookedGood /\ Keeps(d, done)
  BY <1>2, KeepsOn DEF Keeps
<1>4. c.kind # "RESTART" => k \in Bookings /\ Commanded(done, k)
  BY <1>1, <1>2 DEF Commanded
<1>5. ASSUME c.kind = "START" => Booked!MayCharge(e, k, c.override) PROVE Keeps(d, Booked!Done(done, c))
  <2>1. c.kind = "START" => Booked!Due(e, k)
    BY <1>5, Zenon DEF Booked!MayCharge
  <2>2. c.kind = "START" => Booked!Due(done, k)
    BY <1>2, <2>1 DEF Booked!Due
  <2> HIDE DEF done, c
  <2> QED
    BY <1>1, <1>3, <1>4, <2>2, DoneKeepsBooked, KeepsOn DEF k
<1>6. ASSUME c.kind # "RESTART" PROVE Keeps(d, Booked!Become(done, k, {"starting"}, "car-detected"))
  <2>1. "car-detected" \in SessionStates \ {"none", "completed", "charging"}
    BY DEF SessionStates
  <2> HIDE DEF done, c, k
  <2> QED
    BY <1>3, <1>4, <1>6, <2>1, BecomeKeepsBooked, KeepsOn, Zenon
<1>7. \/ Booked!Answer(e, c) \in {e, done}
      \/ /\ c.kind = "START" => Booked!MayCharge(e, k, c.override)
         /\ Booked!Answer(e, c) = Booked!Done(done, c)
      \/ /\ c.kind # "RESTART"
         /\ Booked!Answer(e, c) = Booked!Become(done, k, {"starting"}, "car-detected")
  <2> HIDE DEF c
  <2> QED
    BY DEF Booked!Answer
<1> HIDE DEF done, c, k
<1>8. Keeps(d, Booked!Answer(e, c))
  BY <1>3, <1>5, <1>6, <1>7
<1> QED
  BY <1>8 DEF c

LEMMA AnsweredKeepsBooked ==
    ASSUME NEW d \in BookedGood
    PROVE  Keeps(d, Booked!Answered(d))
<1> DEFINE places == DOMAIN d.commands
           after == {e \in BookedGood : Heeds(d, e)}
           last(R) == Booked!Max(R)
           Follow(g) == g = [R \in SUBSET places |->
                            IF R = {} THEN d
                            ELSE Booked!Answer(g[R \ {last(R)}], d.commands[last(R)])]
           step == [p \in places \X after |-> Booked!Answer(p[2], d.commands[p[1]])]
           pick == [R \in SUBSET places |-> last(R)]
           range == [R \in SUBSET places |-> after]
<1>1. places = 1..Len(d.commands) /\ Len(d.commands) \in Nat
  BY BookedFields DEF BookedGood
<1>2. IsFiniteSet(places)
  <2>1. \A n \in Nat : IsFiniteSet(1..n)
    BY FS_Interval
  <2> HIDE DEF places
  <2> QED
    BY <1>1, <2>1
<1>3. \A R \in SUBSET places : R # {} => last(R) \in R
  <2>1. ASSUME NEW R \in SUBSET places, R # {} PROVE \E x \in R : \A y \in R : x >= y
    BY <1>1, <2>1, GreatestNumber, Zenon
  <2> QED
    BY <2>1 DEF Booked!Max
<1>4. ASSUME NEW x \in places, NEW e \in after
      PROVE  step[<<x, e>>] = Booked!Answer(e, d.commands[x]) /\ Booked!Answer(e, d.commands[x]) \in after
  <2>1. Keeps(d, Booked!Answer(e, d.commands[x]))
    BY AnswerKeepsBooked DEF Keeps
  <2>2. Booked!Answer(e, d.commands[x]) \in after
    BY <2>1 DEF Keeps
  <2> HIDE DEF after
  <2> QED
    BY <2>2
<1>5. d \in after
  BY DEF Heeds
<1> HIDE DEF last, step, after
<1>6. \E g : Follow(g)
  <2>1. Picks(pick, places)
    BY <1>3 DEF Picks
  <2>2. \A R \in SUBSET places : R # {} =>
            \A e \in range[R \ {pick[R]}] : step[<<pick[R], e>>] \in range[R]
    <3> SUFFICES ASSUME NEW R \in SUBSET places, R # {}, NEW e \in after
                 PROVE  step[<<last(R), e>>] \in after
      OBVIOUS
    <3>1. last(R) \in places
      BY <1>3
    <3> QED
      BY <1>4, <3>1
  <2>3. d \in range[{}]
    BY <1>5
  <2>4. PICK g : IsFold(g, d, pick, step, places) /\ \A R \in SUBSET places : g[R] \in range[R]
    <3> HIDE DEF pick, range
    <3> QED
      BY <1>2, <2>1, <2>2, <2>3, FoldReaches, Zenon
  <2>5. ASSUME NEW R \in SUBSET places
        PROVE  Reached(g, d, pick, step, R)
                  = IF R = {} THEN d ELSE Booked!Answer(g[R \ {last(R)}], d.commands[last(R)])
    BY <1>3, <1>4, <2>4, Zenon DEF Reached
  <2>6. Follow(g)
    BY <2>4, <2>5, Zenon DEF IsFold
  <2> QED
    BY <2>6, Zenon
<1> DEFINE g == CHOOSE g : Follow(g)
<1>7. Follow(g)
  BY <1>6, Zenon
<1>8. Booked!Answered(d) = g[places]
  BY DEF Booked!Answered, Booked!FoldLeft, Booked!MapThenFoldSet, last
<1>9. g[places] \in after
  <2> DEFINE H == {R \in SUBSET places : g[R] \in after}
  <2>0. \A R \in SUBSET places : g[R] = IF R = {} THEN d
                            ELSE Booked!Answer(g[R \ {last(R)}], d.commands[last(R)])
    BY <1>7, Zenon
  <2> HIDE DEF g
  <2>1. {} \in H
    BY <1>5, <2>0
  <2>2. ASSUME NEW R \in SUBSET places, R # {} PROVE \E x \in R : R \ {x} \in H => R \in H
    <3> SUFFICES ASSUME g[R \ {last(R)}] \in after PROVE g[R] \in after
      BY <1>3, <2>2, Zenon
    <3>1. last(R) \in places /\ g[R] = Booked!Answer(g[R \ {last(R)}], d.commands[last(R)])
      BY <1>3, <2>0, <2>2
    <3> QED
      BY <1>4, <3>1, Zenon
  <2> HIDE DEF H
  <2>3. places \in H
    BY <1>2, <2>1, <2>2, SubsetInduction, Zenon
  <2> QED
    BY <2>3 DEF H
<1> QED
  BY <1>8, <1>9 DEF after, Keeps

LEMMA ServedIsActive ==
    ASSUME NEW d \in BookedGood, NEW b, Booked!ActiveAt(d, b) # {}
    PROVE  Booked!Served(d, b) \in Bookings /\ Booked!Active(d, Booked!Served(d, b))
<1>1. Booked!Served(d, b) \in Booked!ActiveAt(d, b)
  BY DEF Booked!Served
<1> QED
  BY <1>1 DEF Booked!ActiveAt

LEMMA WatchedKeepsBooked ==
    ASSUME NEW d \in BookedGood, NEW b \in Rooms
    PROVE  Keeps(d, Booked!Watched(d, b))
<1> DEFINE k == Booked!Served(d, b)
           off(state) == [d EXCEPT !.session[k].state = state, !.bay[b].on = FALSE]
<1>0. Keeps(d, d)
  BY DEF Keeps, Heeds
<1>1. CASE Booked!ActiveAt(d, b) = {}
  BY <1>0, <1>1 DEF Booked!Watched
<1>2. CASE Booked!ActiveAt(d, b) # {}
  <2>1. k \in Bookings /\ Commanded(d, k)
    BY <1>2, ServedIsActive, ActiveIsPlaced
  <2>2. Booked!Watched(d, b) \in {d, Booked!FinishSession(d, k), off("offline"), off("fault")}
    BY DEF Booked!Watched
  <2> HIDE DEF k
  <2>3. Keeps(d, off("offline")) /\ Keeps(d, off("fault"))
    <3>1. ASSUME NEW to \in SessionStates \ {"none", "completed", "charging"} PROVE Keeps(d, off(to))
      BY <2>1, MovedKeepsBooked, Zenon
    <3> HIDE DEF off
    <3> QED
      BY <3>1 DEF SessionStates
  <2>4. Keeps(d, Booked!FinishSession(d, k))
    BY <2>1, EndKeepsBooked DEF Keeps
  <2> HIDE DEF off
  <2> QED
    BY <1>0, <2>2, <2>3, <2>4
<1> QED
  BY <1>1, <1>2

LEMMA MeteredKeepsBooked ==
    ASSUME NEW d \in BookedGood, NEW b \in Rooms, NEW supply, supply.given \in Int
    PROVE  Keeps(d, Booked!Metered(d, b, supply))
<1> DEFINE k == Booked!Served(d, b)
           u == BookerOf[k]
           energy == Booked!Smaller(supply.given, d.room[u])
           read == [d EXCEPT !.session[k].energy = @ + energy, !.room[u] = @ - energy]
           dry == [d EXCEPT !.session[k].state = "paused", !.bay[b].on = FALSE]
<1>0. Keeps(d, d) /\ d \in BookedSnapshot
  BY DEF Keeps, Heeds, BookedGood
<1>1. CASE Booked!ActiveAt(d, b) = {} \/ d.session[k].state # "charging"
  <2>1. Booked!Metered(d, b, supply) = d
    BY <1>1 DEF Booked!Metered
  <2> QED
    BY <1>0, <2>1
<1>2. CASE Booked!ActiveAt(d, b) # {} /\ d.session[k].state = "charging"
  <2>1. k \in Bookings /\ Commanded(d, k) /\ u \in Booked!Bookers
    BY <1>2, ServedIsActive, ActiveIsPlaced DEF Booked!Bookers
  <2>2. Booked!Metered(d, b, supply) \in {d, dry, Booked!FinishSession(read, k), read}
    BY <1>2 DEF Booked!Metered
  <2> HIDE DEF k
  <2>3. Keeps(d, dry)
    <3>1. ASSUME NEW to \in SessionStates \ {"none", "completed", "charging"}
          PROVE  Keeps(d, [d EXCEPT !.session[k].state = to, !.bay[b].on = FALSE])
      BY <2>1, MovedKeepsBooked, Zenon
    <3>2. "paused" \in SessionStates \ {"none", "completed", "charging"}
      BY DEF SessionStates
    <3> QED
      BY <3>1, <3>2, Zenon
  <2>4. Keeps(d, read)
    <3> DEFINE taken == d.session[k].energy + energy
               rest == d.room[u] - energy
    <3>1. taken \in Int /\ rest \in Int
      <4>1. d.session[k] \in SessionRow /\ d.room[u] \in Int
        BY <1>0, <2>1, BookedFields
      <4>2. d.session[k].energy \in Int
        BY <4>1 DEF SessionRow
      <4>3. energy \in Int
        BY <4>1 DEF Booked!Smaller
      <4> HIDE DEF energy
      <4> QED
        BY <4>1, <4>2, <4>3
    <3>2. read = [d EXCEPT !.session[k].energy = taken, !.room[u] = rest]
      <4> HIDE DEF energy
      <4> QED
        BY <1>0 DEF BookedSnapshot
    <3> HIDE DEF taken, rest, read, u
    <3>3. Keeps(d, [d EXCEPT !.session[k].energy = taken, !.room[u] = rest])
      BY <1>2, <2>1, <3>1, ReadKeepsBooked, Zenon
    <3> QED
      BY <3>2, <3>3
  <2> HIDE DEF read, dry
  <2>5. Keeps(d, Booked!FinishSession(read, k))
    <3>1. Keeps(read, Booked!FinishSession(read, k))
      BY <2>1, <2>4, EndKeepsBooked DEF Keeps
    <3> QED
      BY <2>4, <3>1, KeepsOn
  <2> QED
    BY <1>0, <2>2, <2>3, <2>4, <2>5
<1> QED
  BY <1>1, <1>2

\* What a tick, or a change of a device, makes of the demo.
LEMMA AdvanceKeepsBooked ==
    ASSUME NEW d \in BookedGood, NEW supply, supply.given \in Int
    PROVE  Keeps(d, Booked!AdvanceEngine(d, supply))
<1> DEFINE base == Booked!Answered(d)
           after == {e \in BookedGood : Heeds(d, e)}
           one(R) == CHOOSE x \in R : TRUE
           Take(b, rest) == Booked!Metered(Booked!Watched(rest, b), b, supply)
           Follow(g) == g = [R \in SUBSET Rooms |->
                            IF R = {} THEN base ELSE Take(one(R), g[R \ {one(R)}])]
           step == [p \in Rooms \X after |-> Take(p[1], p[2])]
           pick == [R \in SUBSET Rooms |-> one(R)]
           range == [R \in SUBSET Rooms |-> after]
<1>1. IsFiniteSet(Rooms)
  BY BookingAssumption
<1>2. \A R \in SUBSET Rooms : R # {} => one(R) \in R
  OBVIOUS
<1>3. ASSUME NEW b \in Rooms, NEW e \in after PROVE Take(b, e) \in after
  <2>1. Keeps(d, e)
    BY DEF Keeps
  <2> DEFINE w == Booked!Watched(e, b)
             m == Booked!Metered(w, b, supply)
  <2>2. Keeps(e, w)
    BY <2>1, WatchedKeepsBooked DEF Keeps
  <2> HIDE DEF w
  <2>3. Keeps(w, m)
    BY <2>2, MeteredKeepsBooked DEF Keeps
  <2> HIDE DEF m
  <2>4. Keeps(d, m)
    BY <2>1, <2>2, <2>3, KeepsOn
  <2> QED
    BY <2>4 DEF Keeps, m, w
<1>4. ASSUME NEW b \in Rooms, NEW e \in after PROVE step[<<b, e>>] = Take(b, e)
  <2> HIDE DEF Take, after
  <2> QED
    OBVIOUS
<1>5. base \in after
  <2>1. Keeps(d, base)
    BY AnsweredKeepsBooked
  <2> HIDE DEF base
  <2> QED
    BY <2>1 DEF Keeps
<1>6. Booked!AdvanceEngine(d, supply) = (CHOOSE g : Follow(g))[Rooms]
  BY DEF Booked!AdvanceEngine, Booked!FoldSet, Booked!MapThenFoldSet
<1> HIDE DEF Take, one, step, after, base
<1>7. \E g : Follow(g)
  <2>1. Picks(pick, Rooms)
    BY <1>2 DEF Picks
  <2>2. \A R \in SUBSET Rooms : R # {} =>
            \A e \in range[R \ {pick[R]}] : step[<<pick[R], e>>] \in range[R]
    BY <1>2, <1>3, <1>4
  <2>3. base \in range[{}]
    BY <1>5
  <2>4. PICK g : IsFold(g, base, pick, step, Rooms) /\ \A R \in SUBSET Rooms : g[R] \in range[R]
    <3> HIDE DEF pick, range
    <3> QED
      BY <1>1, <2>1, <2>2, <2>3, FoldReaches, Zenon
  <2>5. ASSUME NEW R \in SUBSET Rooms
        PROVE  Reached(g, base, pick, step, R) = IF R = {} THEN base ELSE Take(one(R), g[R \ {one(R)}])
    BY <1>2, <1>4, <2>4 DEF Reached
  <2>6. Follow(g)
    BY <2>4, <2>5, Zenon DEF IsFold
  <2> QED
    BY <2>6, Zenon
<1> DEFINE g == CHOOSE g : Follow(g)
<1>8. Follow(g)
  BY <1>7, Zenon
<1>9. g[Rooms] \in after
  <2> DEFINE H == {R \in SUBSET Rooms : g[R] \in after}
  <2>0. \A R \in SUBSET Rooms : g[R] = IF R = {} THEN base ELSE Take(one(R), g[R \ {one(R)}])
    BY <1>8, Zenon
  <2> HIDE DEF g
  <2>1. {} \in H
    BY <1>5, <2>0, Zenon
  <2>2. ASSUME NEW R \in SUBSET Rooms, R # {} PROVE \E x \in R : R \ {x} \in H => R \in H
    <3> SUFFICES ASSUME g[R \ {one(R)}] \in after PROVE g[R] \in after
      BY <1>2, <2>2, Zenon
    <3>1. one(R) \in Rooms /\ g[R] = Take(one(R), g[R \ {one(R)}])
      BY <1>2, <2>0, <2>2
    <3> QED
      BY <1>3, <3>1
  <2> HIDE DEF H
  <2>3. Rooms \in H
    BY <1>1, <2>1, <2>2, SubsetInduction, Zenon
  <2> QED
    BY <2>3 DEF H
<1> QED
  BY <1>6, <1>9 DEF after, Keeps

-----------------------------------------------------------------------------
(* BookingDemo: the operations of the screens *)

LEMMA SentKeepsBooked ==
    ASSUME NEW d \in BookedGood, NEW c \in BookedCommand,
           c.kind # "RESTART" => c.of \in Bookings /\ Commanded(d, c.of)
    PROVE  [d EXCEPT !.commands = <<c>> \o d.commands] \in BookedGood
<1> DEFINE commands == <<c>> \o d.commands
           e == [d EXCEPT !.commands = commands]
<1>0. d \in BookedSnapshot /\ BookedHolds(d)
  BY DEF BookedGood
<1>1. /\ commands \in Seq(BookedCommand) /\ Len(commands) = Len(d.commands) + 1
      /\ \A i \in 1..(Len(d.commands) + 1) : commands[i] = IF i = 1 THEN c ELSE d.commands[i - 1]
      /\ DOMAIN d.commands = 1..Len(d.commands) /\ Len(d.commands) \in Nat
  <2>1. d.commands \in Seq(BookedCommand)
    BY <1>0, BookedFields
  <2> QED
    BY <2>1, Prepended
<1> HIDE DEF commands
<1>2. e \in BookedSnapshot
  BY <1>0, <1>1, BookedTyped, Zenon
<1>3. e.booking = d.booking /\ e.session = d.session /\ e.paid = d.paid /\ e.receipts = d.receipts /\ e.commands = commands
  BY <1>0 DEF BookedSnapshot
<1> HIDE DEF e
<1>4. ASSUME NEW i \in DOMAIN e.commands
      PROVE  \/ e.commands[i] = c
             \/ i - 1 \in DOMAIN d.commands /\ e.commands[i] = d.commands[i - 1]
  <2>1. DOMAIN e.commands = 1..(Len(d.commands) + 1)
    BY <1>1, <1>2, <1>3, BookedFields
  <2> QED
    BY <1>1, <1>3, <2>1
<1>5. \A q \in Bookings : Commanded(d, q) => Commanded(e, q)
  BY <1>3 DEF Commanded
<1>6. CommandsHold(e)
  BY <1>0, <1>4, <1>5 DEF BookedHolds, CommandsHold
<1>7. OnlyOnce(e)
  BY <1>0, <1>3 DEF BookedHolds, OnlyOnce, Booked!Due, Booked!InUse
<1>8. \A q \in Bookings : RowHolds(e, q)
  <2> SUFFICES ASSUME NEW q \in Bookings PROVE RowHolds(e, q)
    OBVIOUS
  <2>1. RowHolds(d, q)
    BY <1>0 DEF BookedHolds
  <2>2. Worth(e, q) <=> Worth(d, q)
    BY <1>3 DEF Worth
  <2> QED
    BY <1>3, <2>1, <2>2 DEF RowHolds, Booked!Due, Booked!Active
<1> QED
  BY <1>2, <1>6, <1>7, <1>8, Zenon DEF BookedHolds, BookedGood, e, commands

LEMMA IssuedKeepsBooked ==
    ASSUME NEW d \in BookedGood, NEW b \in Rooms, NEW override \in BOOLEAN,
           NEW kind \in {"START", "STOP", "PAUSE", "RESTART", "EMERGENCY_STOP"}, NEW k \in Bookings \cup {"none"},
           kind # "RESTART" => k \in Bookings /\ Commanded(d, k)
    PROVE  Booked!Issued(d, b, kind, k, override) \in BookedGood
<1> DEFINE c == Booked!NewCommand(kind, k, b, override, d.bay[b].outcome)
<1>0. d \in BookedSnapshot
  BY DEF BookedGood
<1>1. c \in BookedCommand /\ c.kind = kind /\ c.of = k
  <2>1. d.bay[b] \in Controller
    BY <1>0, BookedFields
  <2>2. d.bay[b].outcome \in {"success", "failure", "timeout"}
    BY <2>1 DEF Controller
  <2> QED
    BY <2>2 DEF Booked!NewCommand, BookedCommand
<1>2. CASE kind # "START"
  <2>1. Booked!Issued(d, b, kind, k, override) = [d EXCEPT !.commands = <<c>> \o d.commands]
    <3>1. Booked!Issued(d, b, kind, k, override) = [d EXCEPT !.commands = <<c>> \o d.commands, !.session = d.session]
      BY <1>2 DEF Booked!Issued
    <3> HIDE DEF c
    <3> QED
      BY <1>0, <3>1, Zenon DEF BookedSnapshot
  <2> HIDE DEF c
  <2> QED
    BY <1>1, <2>1, SentKeepsBooked
<1>3. CASE kind = "START"
  <2> DEFINE to == "starting"
             e == [d EXCEPT !.session[k].state = to]
  <2>1. k \in Bookings /\ Commanded(d, k) /\ to \in SessionStates \ {"none", "completed", "charging"}
    BY <1>3 DEF SessionStates
  <2>2. Booked!Issued(d, b, kind, k, override) = [e EXCEPT !.commands = <<c>> \o d.commands]
    <3>1. Booked!Issued(d, b, kind, k, override)
              = [d EXCEPT !.commands = <<c>> \o d.commands, !.session = [d.session EXCEPT ![k].state = to]]
      BY <1>3 DEF Booked!Issued
    <3> HIDE DEF c, to
    <3> QED
      BY <1>0, <3>1, Zenon DEF BookedSnapshot
  <2> HIDE DEF to, c
  <2>3. PICK room \in Rooms : TRUE
    OBVIOUS
  <2>4. Keeps(d, e) /\ e.commands = d.commands
    BY <2>1, <2>3, MovedKeepsBooked, Zenon
  <2> HIDE DEF e
  <2>5. e \in BookedGood /\ Commanded(e, k)
    BY <2>1, <2>4 DEF Keeps, Heeds
  <2>6. [e EXCEPT !.commands = <<c>> \o e.commands] \in BookedGood
    BY <1>1, <2>1, <2>5, SentKeepsBooked
  <2> QED
    BY <2>2, <2>4, <2>6
<1> QED
  BY <1>2, <1>3

LEMMA CommandKeepsBooked ==
    ASSUME booked \in BookedGood,
           NEW k \in Bookings, NEW kind \in {"START", "STOP", "PAUSE"}, NEW override \in BOOLEAN,
           Booked!Command(kind, k, override)
    PROVE  booked' \in BookedGood
<1> DEFINE b == booked.session[k].bay
<1>1. Booked!Active(booked, k) /\ booked' = Booked!Issued(booked, b, kind, k, override)
  BY DEF Booked!Command, Booked!MayIssue
<1>2. b \in Rooms /\ Commanded(booked, k)
  BY <1>1, ActiveIsPlaced
<1> HIDE DEF b
<1> QED
  BY <1>1, <1>2, IssuedKeepsBooked

LEMMA RestartKeepsBooked ==
    ASSUME booked \in BookedGood, NEW b \in Rooms, Booked!Restart(b)
    PROVE  booked' \in BookedGood
<1> DEFINE kind == "RESTART"
           k == "none"
           override == FALSE
<1>1. /\ booked' = Booked!Issued(booked, b, kind, k, override)
      /\ kind = "RESTART" /\ override \in BOOLEAN /\ k \in Bookings \cup {"none"}
  BY DEF Booked!Restart
<1> HIDE DEF kind, k, override
<1> QED
  BY <1>1, IssuedKeepsBooked

\* A field of a controller.
LEMMA ControllerTyped ==
    ASSUME NEW x \in Controller
    PROVE  /\ \A v \in BOOLEAN : /\ [x EXCEPT !.enabled = v] \in Controller /\ [x EXCEPT !.online = v] \in Controller
                                 /\ [x EXCEPT !.plugged = v] \in Controller /\ [x EXCEPT !.sensor = v] \in Controller
                                 /\ [x EXCEPT !.dry = v] \in Controller
           /\ \A v \in {"success", "failure", "timeout"} : [x EXCEPT !.outcome = v] \in Controller
           /\ \A v \in SUBSET Booked!FaultCodes : [x EXCEPT !.faults = v] \in Controller
           /\ x.faults \in SUBSET Booked!FaultCodes /\ x.sensor \in BOOLEAN
BY DEF Controller

LEMMA EmergencyKeepsBooked ==
    ASSUME booked \in BookedGood, NEW k \in Bookings, Booked!EmergencyStop(k)
    PROVE  booked' \in BookedGood
<1> DEFINE b == booked.session[k].bay
           gone == {c \in Booked!ToSet(booked.commands) : c.bay = b}
           dropped == [booked EXCEPT !.commands = Booked!Without(booked.commands, gone)]
           stopped == Booked!FinishSession(dropped, k)
           fault == [stopped.bay[b] EXCEPT !.faults = @ \cup {"EMERGENCY"}]
           bays == [stopped.bay EXCEPT ![b] = fault]
           e == [stopped EXCEPT !.bay = bays]
           kind == "EMERGENCY_STOP"
           override == FALSE
<1>1. Booked!Active(booked, k) /\ b \in Rooms /\ Commanded(booked, k)
  BY ActiveIsPlaced, Zenon DEF Booked!EmergencyStop
<1>2. booked' = Booked!Issued([stopped EXCEPT !.bay[b].faults = @ \cup {"EMERGENCY"}], b, kind, k, override)
  BY Zenon DEF Booked!EmergencyStop
<1>3. kind \in {"START", "STOP", "PAUSE", "RESTART", "EMERGENCY_STOP"} /\ override \in BOOLEAN
  OBVIOUS
<1> HIDE DEF b, gone, kind, override
<1>4. Keeps(booked, dropped)
  BY DroppedKeepsBooked
<1> HIDE DEF dropped
<1>5. Keeps(dropped, stopped)
  BY <1>4, EndKeepsBooked DEF Keeps
<1> HIDE DEF stopped
<1>6. stopped \in BookedGood /\ stopped \in BookedSnapshot
  BY <1>5 DEF Keeps, BookedGood
<1>7. [stopped EXCEPT !.bay[b].faults = @ \cup {"EMERGENCY"}] = e
  OBVIOUS
<1>8. bays \in [Rooms -> Controller]
  <2>1. stopped.bay \in [Rooms -> Controller]
    BY <1>6, BookedFields
  <2>2. fault \in Controller
    <3> DEFINE x == stopped.bay[b]
               faults == x.faults \cup {"EMERGENCY"}
    <3>1. x \in Controller
      BY <1>1, <2>1
    <3> HIDE DEF x
    <3>2. faults \in SUBSET Booked!FaultCodes
      BY <3>1, ControllerTyped, Zenon DEF Booked!FaultCodes
    <3> HIDE DEF faults
    <3>3. [x EXCEPT !.faults = faults] \in Controller
      BY <3>1, <3>2, ControllerTyped, Zenon
    <3> QED
      BY <3>3 DEF x, faults
  <2> HIDE DEF fault
  <2> QED
    BY <2>1, <2>2, Zenon
<1> HIDE DEF bays
<1>9. Keeps(stopped, e)
  BY <1>6, <1>8, BayKeepsBooked
<1> HIDE DEF e
<1>10. Keeps(booked, e)
  BY <1>4, <1>5, <1>9, KeepsOn
<1>11. e \in BookedGood /\ Commanded(e, k)
  BY <1>1, <1>10 DEF Keeps, Heeds
<1>12. booked' = Booked!Issued(e, b, kind, k, override)
  BY <1>2, <1>7
<1> QED
  BY <1>1, <1>3, <1>11, <1>12, IssuedKeepsBooked

\* Where a car is plugged in, the sessions that wait there go on.
Noticed(d, b) ==
    Booked!FoldSet(LAMBDA k, rest : Booked!Become(rest, k, {"waiting"}, "car-detected"), d, Booked!ActiveAt(d, b))

LEMMA NoticedKeepsBooked ==
    ASSUME NEW d \in BookedGood, NEW b \in Rooms
    PROVE  Keeps(d, Noticed(d, b))
<1> DEFINE waiting == Booked!ActiveAt(d, b)
           after == {e \in BookedGood : Heeds(d, e)}
           one(R) == CHOOSE x \in R : TRUE
           Take(k, rest) == Booked!Become(rest, k, {"waiting"}, "car-detected")
           Follow(g) == g = [R \in SUBSET waiting |-> IF R = {} THEN d ELSE Take(one(R), g[R \ {one(R)}])]
           step == [p \in waiting \X after |-> Take(p[1], p[2])]
           pick == [R \in SUBSET waiting |-> one(R)]
           range == [R \in SUBSET waiting |-> after]
<1>1. IsFiniteSet(waiting)
  BY BookingAssumption, FS_Subset DEF Booked!ActiveAt
<1>2. \A R \in SUBSET waiting : R # {} => one(R) \in R
  OBVIOUS
<1>3. ASSUME NEW k \in waiting, NEW e \in after PROVE Take(k, e) \in after
  <2>1. k \in Bookings /\ Commanded(d, k)
    BY ActiveIsPlaced DEF Booked!ActiveAt
  <2>2. Commanded(e, k) /\ e \in BookedGood /\ Keeps(d, e)
    BY <2>1 DEF Heeds, Keeps
  <2> DEFINE f == Take(k, e)
             to == "car-detected"
  <2>3. to \in SessionStates \ {"none", "completed", "charging"}
    BY DEF SessionStates
  <2> HIDE DEF to
  <2>4. Keeps(e, Booked!Become(e, k, {"waiting"}, to))
    BY <2>1, <2>2, <2>3, BecomeKeepsBooked
  <2>5. Keeps(e, f)
    BY <2>4 DEF to
  <2> HIDE DEF f
  <2>6. Keeps(d, f)
    BY <2>2, <2>5, KeepsOn
  <2> QED
    BY <2>6 DEF Keeps, f
<1>4. ASSUME NEW k \in waiting, NEW e \in after PROVE step[<<k, e>>] = Take(k, e)
  <2> HIDE DEF Take, after
  <2> QED
    OBVIOUS
<1>5. d \in after
  BY DEF Heeds
<1>6. Noticed(d, b) = (CHOOSE g : Follow(g))[waiting]
  BY DEF Noticed, Booked!FoldSet, Booked!MapThenFoldSet
<1> HIDE DEF Take, one, step, after, waiting
<1>7. \E g : Follow(g)
  <2>1. Picks(pick, waiting)
    BY <1>2 DEF Picks
  <2>2. \A R \in SUBSET waiting : R # {} =>
            \A e \in range[R \ {pick[R]}] : step[<<pick[R], e>>] \in range[R]
    BY <1>2, <1>3, <1>4
  <2>3. d \in range[{}]
    BY <1>5
  <2>4. PICK g : IsFold(g, d, pick, step, waiting) /\ \A R \in SUBSET waiting : g[R] \in range[R]
    <3> HIDE DEF pick, range
    <3> QED
      BY <1>1, <2>1, <2>2, <2>3, FoldReaches, Zenon
  <2>5. ASSUME NEW R \in SUBSET waiting
        PROVE  Reached(g, d, pick, step, R) = IF R = {} THEN d ELSE Take(one(R), g[R \ {one(R)}])
    BY <1>2, <1>4, <2>4 DEF Reached
  <2>6. Follow(g)
    BY <2>4, <2>5, Zenon DEF IsFold
  <2> QED
    BY <2>6, Zenon
<1> DEFINE g == CHOOSE g : Follow(g)
<1>8. Follow(g)
  BY <1>7, Zenon
<1>9. g[waiting] \in after
  <2> DEFINE H == {R \in SUBSET waiting : g[R] \in after}
  <2>0. \A R \in SUBSET waiting : g[R] = IF R = {} THEN d ELSE Take(one(R), g[R \ {one(R)}])
    BY <1>8, Zenon
  <2> HIDE DEF g
  <2>1. {} \in H
    BY <1>5, <2>0
  <2>2. ASSUME NEW R \in SUBSET waiting, R # {} PROVE \E x \in R : R \ {x} \in H => R \in H
    <3> SUFFICES ASSUME g[R \ {one(R)}] \in after PROVE g[R] \in after
      BY <1>2, <2>2, Zenon
    <3>1. one(R) \in waiting /\ g[R] = Take(one(R), g[R \ {one(R)}])
      BY <1>2, <2>0, <2>2
    <3> QED
      BY <1>3, <3>1
  <2> HIDE DEF H
  <2>3. waiting \in H
    BY <1>1, <2>1, <2>2, SubsetInduction, Zenon
  <2> QED
    BY <2>3 DEF H
<1> QED
  BY <1>6, <1>9 DEF after, Keeps

LEMMA SetFieldTyped ==
    ASSUME NEW x \in Controller, NEW field, NEW value,
           \/ field \in {"online", "plugged", "sensor", "dry"} /\ value \in BOOLEAN
           \/ field = "outcome" /\ value \in {"success", "failure", "timeout"}
    PROVE  [x EXCEPT ![field] = value] \in Controller /\ [x EXCEPT ![field] = value].faults = x.faults
<1>1. [x EXCEPT ![field] = value] \in Controller
  <2>1. CASE field = "online" /\ value \in BOOLEAN
    BY <2>1, ControllerTyped, Zenon
  <2>2. CASE field = "plugged" /\ value \in BOOLEAN
    BY <2>2, ControllerTyped, Zenon
  <2>3. CASE field = "sensor" /\ value \in BOOLEAN
    BY <2>3, ControllerTyped, Zenon
  <2>4. CASE field = "dry" /\ value \in BOOLEAN
    BY <2>4, ControllerTyped, Zenon
  <2>5. CASE field = "outcome" /\ value \in {"success", "failure", "timeout"}
    BY <2>5, ControllerTyped, Zenon
  <2> QED
    BY <2>1, <2>2, <2>3, <2>4, <2>5
<1>2. field # "faults"
  OBVIOUS
<1> QED
  BY <1>1, <1>2 DEF Controller

LEMMA ConfigureKeepsBooked ==
    ASSUME booked \in BookedGood, NEW b \in Rooms, NEW field, NEW value,
           \/ field \in {"online", "plugged", "sensor", "dry"} /\ value \in BOOLEAN
           \/ field = "outcome" /\ value \in {"success", "failure", "timeout"},
           Booked!Configure(b, field, value)
    PROVE  booked' \in BookedGood
<1> DEFINE x == booked.bay[b]
           y == [x EXCEPT ![field] = value]
           faults == IF field = "sensor" /\ value = TRUE THEN x.faults \cup {"SENSOR"} ELSE x.faults
           z == [y EXCEPT !.faults = faults]
           bays == [booked.bay EXCEPT ![b] = z]
           set == [booked EXCEPT !.bay = bays]
           raw == [booked EXCEPT !.bay[b][field] = value,
                                 !.bay[b].faults = IF field = "sensor" /\ value = TRUE THEN @ \cup {"SENSOR"} ELSE @]
           supply == [given |-> 0, over |-> FALSE]
<1>0. booked \in BookedSnapshot /\ booked.bay \in [Rooms -> Controller] /\ x \in Controller
  BY BookedFields DEF BookedGood
<1>1. raw = set
  <2> DEFINE first == [booked.bay EXCEPT ![b] = y]
             one == [booked EXCEPT !.bay = first]
  <2>1. raw = [booked EXCEPT !.bay[b][field] = value, !.bay[b].faults = faults]
    OBVIOUS
  <2> HIDE DEF faults
  <2>2. [booked EXCEPT !.bay[b][field] = value] = one
    BY <1>0
  <2>3. one.bay = first /\ first[b] = y /\ [first EXCEPT ![b] = z] = bays
    BY <1>0, Zenon DEF BookedSnapshot
  <2>4. [one EXCEPT !.bay = bays] = set
    BY <1>0, Zenon DEF BookedSnapshot
  <2>5. raw = [one EXCEPT !.bay[b].faults = faults]
    BY <2>1, <2>2
  <2> HIDE DEF raw, y, one, first, bays, set
  <2> QED
    BY <2>3, <2>4, <2>5
<1>2. bays \in [Rooms -> Controller]
  <2> HIDE DEF x
  <2>1. y \in Controller
    BY <1>0, SetFieldTyped, Zenon
  <2> HIDE DEF y
  <2>2. faults \in SUBSET Booked!FaultCodes
    BY <1>0, ControllerTyped, Zenon DEF Booked!FaultCodes
  <2> HIDE DEF faults
  <2>3. z \in Controller
    BY <2>1, <2>2, ControllerTyped, Zenon
  <2> HIDE DEF z
  <2> QED
    BY <1>0, <2>3
<1> HIDE DEF bays
<1>3. Keeps(booked, set)
  BY <1>2, BayKeepsBooked
<1>4. booked' = Booked!AdvanceEngine(IF field = "plugged" /\ value = TRUE THEN Noticed(raw, b) ELSE raw, supply)
  BY Zenon DEF Booked!Configure, Noticed
<1> HIDE DEF set, raw
<1>5. Noticed(set, b) \in BookedGood /\ set \in BookedGood
  BY <1>3, NoticedKeepsBooked DEF Keeps
<1>6. supply.given \in Int
  OBVIOUS
<1> HIDE DEF supply
<1> QED
  BY <1>1, <1>4, <1>5, <1>6, AdvanceKeepsBooked DEF Keeps

\* Nothing of a booking is written.
LEMMA ElsewhereKeepsBooked ==
    ASSUME NEW d \in BookedGood,
           NEW online \in BOOLEAN, NEW price \in Int, NEW rooms \in [Booked!Bookers -> Int]
    PROVE  /\ Keeps(d, [d EXCEPT !.station = online])
           /\ Keeps(d, [d EXCEPT !.price = price])
           /\ Keeps(d, [d EXCEPT !.room = rooms])
<1>0. d \in BookedSnapshot
  BY DEF BookedGood
<1> DEFINE same(e) == /\ e \in BookedSnapshot /\ e.booking = d.booking /\ e.session = d.session /\ e.paid = d.paid
                      /\ e.receipts = d.receipts /\ e.commands = d.commands
<1>1. ASSUME NEW e, same(e) PROVE Keeps(d, e)
  <2>1. Leaves(d, e)
    BY <1>1 DEF Leaves
  <2> QED
    BY <1>1, <2>1, NoRow DEF Keeps
<1>2. [d EXCEPT !.station = online] \in BookedSnapshot /\ [d EXCEPT !.price = price] \in BookedSnapshot
      /\ [d EXCEPT !.room = rooms] \in BookedSnapshot
  BY <1>0, BookedTyped, Zenon
<1>3. same([d EXCEPT !.station = online])
  BY <1>0, <1>2, Zenon DEF BookedSnapshot
<1>4. same([d EXCEPT !.price = price])
  BY <1>0, <1>2, Zenon DEF BookedSnapshot
<1>5. same([d EXCEPT !.room = rooms])
  BY <1>0, <1>2, Zenon DEF BookedSnapshot
<1> HIDE DEF same
<1> QED
  BY <1>1, <1>3, <1>4, <1>5

LEMMA StationKeepsBooked ==
    ASSUME booked \in BookedGood, NEW online \in BOOLEAN, Booked!SaveStation(online)
    PROVE  booked' \in BookedGood
<1> DEFINE e == [booked EXCEPT !.station = online]
<1>0. booked.price \in Int /\ booked.room \in [Booked!Bookers -> Int]
  BY BookedFields DEF BookedGood
<1>1. e \in BookedGood
  BY <1>0, ElsewhereKeepsBooked, Zenon DEF Keeps
<1>2. booked' \in {e, Booked!FinishAll(e, Bookings)}
  <2>1. CASE online = TRUE
    BY <2>1 DEF Booked!SaveStation
  <2>2. CASE online = FALSE
    BY <2>2, Zenon DEF Booked!SaveStation
  <2> QED
    BY <2>1, <2>2, Zenon
<1> HIDE DEF e
<1> QED
  BY <1>1, <1>2, EndAllKeepsBooked DEF Keeps

LEMMA UpdateBayKeepsBooked ==
    ASSUME booked \in BookedGood, NEW b \in Rooms, NEW enabled \in BOOLEAN, Booked!UpdateBay(b, enabled)
    PROVE  booked' \in BookedGood
<1> DEFINE x == booked.bay[b]
           y == [x EXCEPT !.enabled = enabled]
           bays == [booked.bay EXCEPT ![b] = y]
           e == [booked EXCEPT !.bay = bays]
           ended == Booked!ActiveAt(booked, b)
<1>0. booked.bay \in [Rooms -> Controller] /\ x \in Controller
  BY BookedFields DEF BookedGood
<1>1. booked' \in {e, Booked!FinishAll(e, ended)}
  <2>1. CASE enabled = TRUE
    BY <2>1 DEF Booked!UpdateBay
  <2>2. CASE enabled = FALSE
    BY <2>2, Zenon DEF Booked!UpdateBay
  <2> QED
    BY <2>1, <2>2, Zenon
<1>2. y \in Controller
  <2> HIDE DEF x
  <2> QED
    BY <1>0, ControllerTyped, Zenon
<1> HIDE DEF y
<1>3. bays \in [Rooms -> Controller]
  BY <1>0, <1>2
<1> HIDE DEF bays
<1>4. e \in BookedGood
  BY <1>3, BayKeepsBooked DEF Keeps
<1>5. ended \in SUBSET Bookings
  BY DEF Booked!ActiveAt
<1> HIDE DEF e, ended
<1> QED
  BY <1>1, <1>4, <1>5, EndAllKeepsBooked DEF Keeps

LEMMA ResolveKeepsBooked ==
    ASSUME booked \in BookedGood, NEW b \in Rooms, NEW fault, Booked!ResolveFault(b, fault)
    PROVE  booked' \in BookedGood
<1> DEFINE x == booked.bay[b]
           faults == x.faults \ {fault}
           sensor == x.sensor /\ fault # "SENSOR"
           y == [x EXCEPT !.faults = faults]
           z == [y EXCEPT !.sensor = sensor]
           bays == [booked.bay EXCEPT ![b] = z]
           e == [booked EXCEPT !.bay = bays]
<1>0. booked \in BookedSnapshot /\ booked.bay \in [Rooms -> Controller] /\ x \in Controller
  BY BookedFields DEF BookedGood
<1>1. booked' = [booked EXCEPT !.bay[b].faults = faults, !.bay[b].sensor = sensor]
  BY <1>0 DEF Booked!ResolveFault, BookedSnapshot, Controller
<1>2. faults \in SUBSET Booked!FaultCodes /\ sensor \in BOOLEAN
  <2> HIDE DEF x
  <2> QED
    BY <1>0, ControllerTyped, Zenon
<1> HIDE DEF faults, sensor
<1>3. z \in Controller
  <2> HIDE DEF x
  <2>1. y \in Controller
    BY <1>0, <1>2, ControllerTyped, Zenon
  <2> HIDE DEF y
  <2> QED
    BY <1>2, <2>1, ControllerTyped, Zenon
<1>4. booked' = e
  <2> DEFINE first == [booked.bay EXCEPT ![b] = y]
             one == [booked EXCEPT !.bay = first]
  <2>1. [booked EXCEPT !.bay[b].faults = faults] = one
    BY <1>0
  <2>2. one.bay = first /\ first[b] = y /\ [first EXCEPT ![b] = z] = bays
    BY <1>0, Zenon DEF BookedSnapshot
  <2>3. [one EXCEPT !.bay = bays] = e
    BY <1>0, Zenon DEF BookedSnapshot
  <2>4. booked' = [one EXCEPT !.bay[b].sensor = sensor]
    BY <1>1, <2>1
  <2> HIDE DEF y, one, first, bays, e
  <2> QED
    BY <2>2, <2>3, <2>4
<1> HIDE DEF z
<1>5. bays \in [Rooms -> Controller]
  BY <1>0, <1>3
<1> HIDE DEF bays
<1>6. e \in BookedGood
  BY <1>5, BayKeepsBooked DEF Keeps
<1> QED
  BY <1>4, <1>6

LEMMA PricingKeepsBooked ==
    ASSUME booked \in BookedGood, NEW price \in Prices, Booked!SavePricing(price)
    PROVE  booked' \in BookedGood
<1>1. price \in Int /\ booked.room \in [Booked!Bookers -> Int]
  BY BookedFields, BookingAssumption DEF BookedGood
<1>2. booked' = [booked EXCEPT !.price = price]
  BY DEF Booked!SavePricing
<1>3. TRUE \in BOOLEAN
  OBVIOUS
<1> QED
  BY <1>1, <1>2, <1>3, ElsewhereKeepsBooked, Zenon DEF Keeps

LEMMA OtherVehicleKeepsBooked ==
    ASSUME booked \in BookedGood, NEW u \in Booked!Bookers, NEW room \in 0..Room, Booked!SaveVehicle(u, room)
    PROVE  booked' \in BookedGood
<1> DEFINE rooms == [booked.room EXCEPT ![u] = room]
<1>0. booked.room \in [Booked!Bookers -> Int] /\ booked.price \in Int /\ TRUE \in BOOLEAN
  BY BookedFields DEF BookedGood
<1>1. booked' = [booked EXCEPT !.room = rooms]
  BY DEF Booked!SaveVehicle
<1>2. rooms \in [Booked!Bookers -> Int]
  BY <1>0, BookingAssumption
<1> HIDE DEF rooms
<1> QED
  BY <1>0, <1>1, <1>2, ElsewhereKeepsBooked, Zenon DEF Keeps

\* Commands grow older, and stay what they are about.
LEMMA TimeKeepsBooked ==
    ASSUME booked \in BookedGood, NEW hours \in {0, 1}, Booked!Elapse(hours)
    PROVE  booked' \in BookedGood
<1> DEFINE d == booked
           older(c) == Booked!Older(c, hours)
           commands == [i \in DOMAIN d.commands |-> older(d.commands[i])]
           later == d.now + hours
           e == [d EXCEPT !.now = later]
           f == [e EXCEPT !.commands = commands]
<1>0. d \in BookedSnapshot /\ BookedHolds(d)
  BY DEF BookedGood
<1>1. booked' = f
  <2>1. booked' = [d EXCEPT !.now = later, !.commands = commands]
    BY DEF Booked!Elapse
  <2> HIDE DEF commands, later
  <2> QED
    BY <1>0, <2>1 DEF BookedSnapshot
<1>2. ASSUME NEW c \in BookedCommand
      PROVE  older(c) \in BookedCommand /\ older(c).of = c.of /\ older(c).kind = c.kind
  <2> DEFINE new == IF hours > 0 THEN 2 ELSE Booked!Smaller(c.age + 1, 2)
  <2>1. c.age \in 0..2
    BY <1>2 DEF BookedCommand
  <2>2. new \in 0..2
    BY <2>1 DEF Booked!Smaller
  <2>3. older(c) = [c EXCEPT !.age = new]
    BY DEF Booked!Older
  <2> HIDE DEF new, older
  <2> QED
    BY <1>2, <2>2, <2>3 DEF BookedCommand
<1>3. d.commands \in Seq(BookedCommand) /\ DOMAIN d.commands = 1..Len(d.commands) /\ Len(d.commands) \in Nat
      /\ (\A i \in DOMAIN d.commands : d.commands[i] \in BookedCommand) /\ d.now \in Int
  BY <1>0, BookedFields
<1> HIDE DEF older
<1>4. commands \in Seq(BookedCommand) /\ DOMAIN commands = DOMAIN d.commands
      /\ \A i \in DOMAIN d.commands : commands[i].of = d.commands[i].of /\ commands[i].kind = d.commands[i].kind
  <2>1. commands \in [1..Len(d.commands) -> BookedCommand]
    BY <1>2, <1>3
  <2>2. commands \in Seq(BookedCommand)
    BY <1>3, <2>1
  <2>3. \A i \in DOMAIN d.commands : commands[i] = older(d.commands[i])
    OBVIOUS
  <2> QED
    BY <1>2, <1>3, <2>2, <2>3
<1>5. later \in Int
  BY <1>3
<1> HIDE DEF commands, later
<1>6. e \in BookedSnapshot
  BY <1>0, <1>5, BookedTyped, Zenon
<1>7. e.booking = d.booking /\ e.session = d.session /\ e.paid = d.paid /\ e.receipts = d.receipts
  BY <1>0 DEF BookedSnapshot
<1> HIDE DEF e
<1>8. f \in BookedSnapshot
  BY <1>4, <1>6, BookedTyped, Zenon
<1>9. f.booking = d.booking /\ f.session = d.session /\ f.paid = d.paid /\ f.receipts = d.receipts /\ f.commands = commands
  BY <1>6, <1>7 DEF BookedSnapshot
<1> HIDE DEF f
<1>10. CommandsHold(f)
  <2>1. \A q \in Bookings : Commanded(d, q) => Commanded(f, q)
    BY <1>9 DEF Commanded
  <2> QED
    BY <1>0, <1>4, <1>9, <2>1 DEF BookedHolds, CommandsHold
<1>11. OnlyOnce(f)
  BY <1>0, <1>9 DEF BookedHolds, OnlyOnce, Booked!Due, Booked!InUse
<1>12. \A q \in Bookings : RowHolds(f, q)
  <2> SUFFICES ASSUME NEW q \in Bookings PROVE RowHolds(f, q)
    OBVIOUS
  <2>1. RowHolds(d, q)
    BY <1>0 DEF BookedHolds
  <2>2. Worth(f, q) <=> Worth(d, q)
    BY <1>9 DEF Worth
  <2> QED
    BY <1>9, <2>1, <2>2 DEF RowHolds, Booked!Due, Booked!Active
<1> QED
  BY <1>1, <1>8, <1>10, <1>11, <1>12 DEF BookedHolds, BookedGood

LEMMA TickKeepsBooked ==
    ASSUME booked \in BookedGood, NEW supply \in Booked!Supplies, Booked!Tick(supply)
    PROVE  booked' \in BookedGood
<1>1. supply.given \in Int
  BY BookingAssumption DEF Booked!Supplies
<1> QED
  BY <1>1, AdvanceKeepsBooked DEF Booked!Tick, Keeps

LEMMA PresenceKeepsBooked ==
    ASSUME booked \in BookedGood, NEW k \in Bookings, NEW present \in BOOLEAN, Booked!Presence(k, present)
    PROVE  booked' \in BookedGood
<1> DEFINE b == booked.session[k].bay
           x == booked.bay[b]
           y == [x EXCEPT !.plugged = present]
           bays == [booked.bay EXCEPT ![b] = y]
           e == [booked EXCEPT !.bay = bays]
           to == IF present THEN "car-detected" ELSE "waiting"
           moved == Booked!Become(e, k, {"waiting", "car-detected"}, to)
<1>0. booked \in BookedSnapshot /\ booked.bay \in [Rooms -> Controller] /\ booked.session[k] \in SessionRow
  BY BookedFields DEF BookedGood
<1>1. b \in Rooms /\ b # "none"
  BY <1>0 DEF SessionRow, Booked!Presence
<1>2. booked' \in {moved, Booked!FinishSession(moved, k)}
  BY DEF Booked!Presence
<1>3. x \in Controller
  BY <1>0, <1>1
<1>4. y \in Controller
  <2> HIDE DEF x
  <2> QED
    BY <1>3, ControllerTyped, Zenon
<1> HIDE DEF y
<1>5. bays \in [Rooms -> Controller]
  BY <1>0, <1>4, Zenon
<1> HIDE DEF bays
<1>6. Keeps(booked, e) /\ e.session = booked.session
  BY <1>0, <1>5, BayKeepsBooked, Zenon DEF BookedSnapshot
<1>7. e.session[k].state \in {"waiting", "car-detected"} => Commanded(e, k)
  <2>1. e.session[k].state \in {"waiting", "car-detected"} => Commanded(booked, k)
    BY <1>6, ActiveIsPlaced DEF Booked!Active
  <2> QED
    BY <1>6, <2>1 DEF Keeps, Heeds
<1>8. to \in SessionStates \ {"none", "completed", "charging"}
  BY DEF SessionStates
<1> HIDE DEF e, to
<1>9. Keeps(e, moved)
  BY <1>6, <1>7, <1>8, BecomeKeepsBooked, Zenon DEF Keeps
<1> HIDE DEF moved
<1> QED
  BY <1>2, <1>9, EndKeepsBooked DEF Keeps

LEMMA EnterKeepsBooked ==
    ASSUME booked \in BookedGood, NEW k \in Bookings, Booked!Enter(k)
    PROVE  booked' \in BookedGood
<1> DEFINE d == booked
           b == d.booking[k].bay
           new == [Booked!NoSession EXCEPT !.state = "waiting", !.bay = b]
           session == [d.session EXCEPT ![k] = new]
           e == [d EXCEPT !.session = session]
<1>0. /\ d \in BookedSnapshot /\ d \in BookedGood /\ RowHolds(d, k) /\ d.booking[k] \in BookingRow
      /\ d.session \in [Bookings -> SessionRow] /\ d.booking \in [Bookings -> BookingRow]
  BY BookedFields DEF BookedGood, BookedHolds
<1>1. /\ Booked!Due(d, k) /\ d.session[k].state = "none" /\ booked' = e
  BY DEF Booked!Enter
<1>2. d.booking[k].status \in {"upcoming", "charging"} /\ b \in Rooms /\ b # "none"
  BY <1>0, <1>1 DEF RowHolds, Booked!Due, BookingRow
<1>3. new \in SessionRow /\ new.state = "waiting" /\ new.bay = b
  <2>2. b \in Rooms
    BY <1>2
  <2> DEFINE to == "waiting"
             zero == 0
             from == "none"
             empty == [state |-> from, bay |-> from, energy |-> zero, cost |-> zero]
  <2>3. new = [empty EXCEPT !.state = to, !.bay = b]
    BY DEF Booked!NoSession
  <2> HIDE DEF b, to, zero, from, new
  <2>1. new = [state |-> to, bay |-> b, energy |-> zero, cost |-> zero]
    BY <2>3, Zenon
  <2>4. zero \in Int /\ to \in SessionStates /\ to = "waiting"
    BY DEF zero, to, SessionStates
  <2> QED
    BY <2>1, <2>2, <2>4 DEF SessionRow
<1> HIDE DEF new
<1>4. session \in [Bookings -> SessionRow] /\ session[k] = new
      /\ \A q \in Bookings \ {k} : session[q] = d.session[q]
  BY <1>0, <1>3
<1> HIDE DEF session
<1>5. e \in BookedSnapshot
  BY <1>0, <1>4, BookedTyped, Zenon
<1>6. e.session = session /\ e.booking = d.booking /\ e.paid = d.paid /\ e.receipts = d.receipts /\ e.commands = d.commands
  BY <1>0 DEF BookedSnapshot
<1> HIDE DEF e
<1>7. Touches(d, e, k) /\ Stays(d, e, k) /\ Leaves(d, e)
  BY <1>4, <1>6 DEF Touches, Stays, Leaves, Booked!Due
<1>8. ~Commanded(d, k)
  BY <1>1 DEF Commanded
<1>9. e.session[k] = new /\ (Booked!Due(e, k) <=> Booked!Due(d, k))
  BY <1>4, <1>6 DEF Booked!Due
<1>10. Worth(e, k)
  BY <1>0, <1>2, <1>6 DEF RowHolds, Worth
<1>11. RowHolds(e, k)
  BY <1>0, <1>2, <1>3, <1>6, <1>9, <1>10 DEF RowHolds, Booked!Active
<1> QED
  BY <1>0, <1>1, <1>5, <1>7, <1>8, <1>11, OneRow

\* A refund an administrator approves is of a booking that was charged before the
\* demo began.
LEMMA ApprovedKeepsBooked ==
    ASSUME booked \in BookedGood, Booked!ApproveRefund
    PROVE  booked' \in BookedGood
<1> DEFINE d == booked
           k == Sample
           amount == -Fee
           p == Booked!Pay(d, <<"REVIEW", k>>, k, amount)
           review == "succeeded"
           e == [p EXCEPT !.review = review]
<1>0. /\ d \in BookedSnapshot /\ d \in BookedGood /\ k \in Bookings /\ RowHolds(d, k)
      /\ amount \in Int /\ Fee \in Int
      /\ d.session[k] \in SessionRow
  BY BookedFields, BookingAssumption DEF BookedGood, BookedHolds
<1>1. d.session[k].state = "completed" /\ d.session[k].bay = "none" /\ booked' = e
  BY DEF Booked!ApproveRefund
<1>2. amount = -Fee /\ review \in {"pending", "succeeded"}
  OBVIOUS
<1> HIDE DEF amount, k, review
<1>3. Paid(d, p, "REVIEW", k, amount)
  <2>1. "REVIEW" \in {"TX", "SETTLE", "RF", "REVIEW"}
    OBVIOUS
  <2> QED
    BY <1>0, <2>1, PaySaves
<1> HIDE DEF p
<1>4. /\ p \in BookedSnapshot /\ p.booking = d.booking /\ p.session = d.session /\ p.commands = d.commands
      /\ p.receipts = d.receipts \cup {<<"REVIEW", k>>}
      /\ (\A q \in Bookings \ {k} : p.paid[q] = d.paid[q])
      /\ p.paid[k] = IF <<"REVIEW", k>> \in d.receipts THEN d.paid[k] ELSE d.paid[k] + amount
  BY <1>3 DEF Paid
<1>5. e \in BookedSnapshot
  BY <1>2, <1>4, BookedTyped, Zenon
<1>6. /\ e.booking = d.booking /\ e.session = d.session /\ e.commands = d.commands
      /\ e.receipts = d.receipts \cup {<<"REVIEW", k>>} /\ e.paid = p.paid
  BY <1>4 DEF BookedSnapshot
<1> HIDE DEF e
<1>7. Touches(d, e, k) /\ Stays(d, e, k) /\ Leaves(d, e)
  BY <1>4, <1>6 DEF Touches, Stays, Leaves, Booked!Due
<1>8. d.booking[k].status = "completed"
  BY <1>0, <1>1 DEF RowHolds
<1>9. Worth(e, k)
  <2> DEFINE cost == d.session[k].cost
             before == IF <<"REVIEW", k>> \in d.receipts THEN Fee ELSE 0
  <2>1. d.paid[k] = cost - before
        /\ (d.booking[k].price # 0 => cost = d.session[k].energy * d.booking[k].price + Fee)
    BY <1>0, <1>1, <1>8 DEF RowHolds, Worth
  <2>2. cost \in Int /\ before \in Int
    BY <1>0 DEF SessionRow
  <2>3. p.paid[k] = cost - Fee
    BY <1>0, <1>2, <1>4, <2>1, <2>2
  <2>4. <<"REVIEW", k>> \in e.receipts
    BY <1>6
  <2> QED
    BY <1>6, <1>8, <2>1, <2>3, <2>4 DEF Worth
<1>10. RowHolds(e, k) /\ (Commanded(d, k) => Commanded(e, k))
  BY <1>0, <1>1, <1>6, <1>8, <1>9 DEF RowHolds, Commanded, Booked!Due, Booked!Active
<1> QED
  BY <1>0, <1>1, <1>5, <1>7, <1>10, OneRow

-----------------------------------------------------------------------------
\* A step that gives one booking its hours, or another bay.
LEMMA PlacedRow ==
    ASSUME NEW d \in BookedGood, NEW e \in BookedSnapshot, NEW k \in Bookings, Touches(d, e, k), RowHolds(e, k),
           Commanded(d, k) => Commanded(e, k), Leaves(d, e),
           Booked!Due(e, k),
           \A q \in Bookings \ {k} :
              ~(d.booking[q].bay = e.booking[k].bay
                /\ Booked!Overlaps(e.booking[k].start, e.booking[k].hours, d.booking[q]))
    PROVE  e \in BookedGood
<1>0. BookedHolds(d) /\ d \in BookedSnapshot
  BY DEF BookedGood
<1>1. Heeds(d, e)
  BY OthersStay DEF Heeds
<1>2. CommandsHold(e)
  BY <1>0, <1>1, CommandsStay DEF BookedHolds
<1>3. \A q \in Bookings : RowHolds(e, q)
  BY <1>0, OthersStay DEF BookedHolds
<1>4. \A q \in Bookings : /\ e.booking[q].start \in Int /\ e.booking[q].hours \in Int
                          /\ (q # k => e.booking[q] = d.booking[q])
  <2>1. \A q \in Bookings : e.booking[q] \in BookingRow
    BY BookedFields
  <2> QED
    BY <2>1, Zenon DEF BookingRow, Touches
<1>5. ASSUME NEW q \in Bookings, Booked!Due(e, q), NEW j \in Bookings \ {q},
             e.booking[j].bay = e.booking[q].bay,
             Booked!Overlaps(e.booking[q].start, e.booking[q].hours, e.booking[j])
      PROVE  FALSE
  <2>1. CASE q = k
    BY <1>4, <1>5, <2>1
  <2>2. CASE q # k /\ j = k
    <3>1. Booked!Overlaps(e.booking[k].start, e.booking[k].hours, d.booking[q])
      BY <1>4, <1>5, <2>2 DEF Booked!Overlaps, Booked!Due
    <3> QED
      BY <1>4, <1>5, <2>2, <3>1
  <2>3. CASE q # k /\ j # k
    <3>1. e.booking[q] = d.booking[q] /\ e.booking[j] = d.booking[j] /\ Booked!Due(d, q)
      BY <1>4, <1>5, <2>3 DEF Booked!Due
    <3> QED
      BY <1>0, <1>5, <3>1 DEF BookedHolds, OnlyOnce, Booked!InUse
  <2> QED
    BY <2>1, <2>2, <2>3
<1>6. OnlyOnce(e)
  BY <1>5 DEF OnlyOnce, Booked!InUse
<1> QED
  BY <1>2, <1>3, <1>6 DEF BookedGood, BookedHolds

LEMMA UpdateKeepsBooked ==
    ASSUME booked \in BookedGood, NEW k \in Bookings, NEW b \in Rooms, Booked!UpdateBooking(k, b)
    PROVE  booked' \in BookedGood
<1> DEFINE d == booked
           bk == d.booking[k]
           over == [bk EXCEPT !.bay = b]
           booking == [d.booking EXCEPT ![k] = over]
           e == [d EXCEPT !.booking = booking]
<1>0. /\ d \in BookedSnapshot /\ d \in BookedGood /\ RowHolds(d, k) /\ bk \in BookingRow
      /\ d.booking \in [Bookings -> BookingRow]
  BY BookedFields DEF BookedGood, BookedHolds
<1>1. /\ bk.status = "upcoming" /\ ~Booked!InUse(d, b, bk.start, bk.hours, k) /\ ~Booked!Active(d, k)
      /\ booked' = e
  BY DEF Booked!UpdateBooking
<1>2. over \in BookingRow /\ over.status = bk.status /\ over.bay = b /\ over.start = bk.start
      /\ over.hours = bk.hours /\ over.price = bk.price /\ over.advance = bk.advance
  <2> HIDE DEF bk
  <2>1. bk.status \in {"none", "upcoming", "charging", "completed", "cancelled"}
    BY <1>0 DEF BookingRow
  <2>2. over \in BookingRow
    BY <1>0, <2>1, BookingTyped, Zenon
  <2> QED
    BY <1>0, <2>2 DEF BookingRow
<1> HIDE DEF over
<1>3. booking \in [Bookings -> BookingRow] /\ booking[k] = over
      /\ \A q \in Bookings \ {k} : booking[q] = d.booking[q]
  BY <1>0, <1>2
<1> HIDE DEF booking
<1>4. e \in BookedSnapshot
  BY <1>0, <1>3, BookedTyped, Zenon
<1>5. e.session = d.session /\ e.booking = booking /\ e.paid = d.paid /\ e.receipts = d.receipts /\ e.commands = d.commands
  BY <1>0 DEF BookedSnapshot
<1> HIDE DEF e
<1>6. Touches(d, e, k) /\ Leaves(d, e) /\ e.booking[k] = over
  BY <1>3, <1>5 DEF Touches, Leaves
<1>7. Booked!Due(e, k) /\ Booked!Due(d, k) /\ b # "none"
  BY <1>1, <1>2, <1>6, BookingAssumption DEF Booked!Due
<1>8. Worth(e, k)
  BY <1>0, <1>1, <1>2, <1>5, <1>6 DEF RowHolds, Worth
<1>9. RowHolds(e, k)
  BY <1>0, <1>1, <1>2, <1>5, <1>6, <1>7, <1>8 DEF RowHolds, Booked!Active
<1>10. Commanded(d, k) => Commanded(e, k)
  BY <1>1, <1>2, <1>5, <1>6 DEF Commanded
<1>11. \A q \in Bookings \ {k} :
          ~(d.booking[q].bay = e.booking[k].bay
            /\ Booked!Overlaps(e.booking[k].start, e.booking[k].hours, d.booking[q]))
  BY <1>1, <1>2, <1>6 DEF Booked!InUse
<1> QED
  BY <1>0, <1>1, <1>4, <1>6, <1>7, <1>9, <1>10, <1>11, PlacedRow

LEMMA AdvanceIsNumber ==
    ASSUME NEW price \in Int, NEW hours \in Int
    PROVE  Booked!Advance(price, hours) \in Int
<1> DEFINE product == hours * Expected * price
<1>1. product \in Int /\ Fee \in Int
  <2>1. Expected \in Int /\ Fee \in Int
    BY BookingAssumption
  <2>2. \A x, y, z \in Int : x * y * z \in Int
    OBVIOUS
  <2> QED
    BY <2>1, <2>2
<1>2. Booked!Advance(price, hours) = (3 * (product + Fee) + 9) \div 10
  BY DEF Booked!Advance, Booked!EstimateCost
<1> HIDE DEF product
<1> DEFINE sum == 3 * (product + Fee) + 9
<1>3. sum \in Int
  BY <1>1
<1> HIDE DEF sum
<1>4. sum \div 10 \in Int
  BY <1>3
<1> QED
  BY <1>2, <1>4 DEF sum

LEMMA ReserveKeepsBooked ==
    ASSUME booked \in BookedGood, NEW k \in Bookings, NEW start \in 1..MaxTime, NEW hours \in Hours,
           Booked!Reserve(k, start, hours)
    PROVE  booked' \in BookedGood
<1> DEFINE d == booked
           advance == Booked!Advance(d.price, hours)
           p == Booked!Pay(d, <<"TX", k>>, k, advance)
<1>1. PICK b \in Booked!FreeBays(d, start, hours) :
          booked' = [p EXCEPT !.booking[k] = [status |-> "upcoming", bay |-> b, start |-> start, hours |-> hours,
                                              price |-> d.price, advance |-> advance]]
  BY DEF Booked!Reserve
<1> DEFINE new == [status |-> "upcoming", bay |-> b, start |-> start, hours |-> hours,
                   price |-> d.price, advance |-> advance]
           booking == [d.booking EXCEPT ![k] = new]
           e == [p EXCEPT !.booking = booking]
<1>0. /\ d \in BookedSnapshot /\ d \in BookedGood /\ RowHolds(d, k) /\ d.booking[k] \in BookingRow
      /\ d.booking \in [Bookings -> BookingRow] /\ d.price \in Int /\ d.paid[k] \in Int
  BY BookedFields DEF BookedGood, BookedHolds
<1>2. d.booking[k].status = "none" /\ b \in Rooms /\ b # "none"
      /\ \A q \in Bookings : ~(d.booking[q].bay = b /\ Booked!Overlaps(start, hours, d.booking[q]))
  <2>1. b \in Rooms /\ ~Booked!InUse(d, b, start, hours, "none")
    BY DEF Booked!FreeBays
  <2>2. "none" \notin Bookings /\ b # "none"
    BY <2>1, BookingAssumption
  <2> QED
    BY <2>1, <2>2 DEF Booked!InUse, Booked!Reserve
<1>3. start \in Int /\ hours \in Int /\ advance \in Int
  <2>1. start \in Int /\ hours \in Int
    BY BookingAssumption
  <2> QED
    BY <1>0, <2>1, AdvanceIsNumber, Zenon
<1> HIDE DEF advance
<1>4. Paid(d, p, "TX", k, advance)
  <2>1. "TX" \in {"TX", "SETTLE", "RF", "REVIEW"}
    OBVIOUS
  <2> QED
    BY <1>0, <1>3, <2>1, PaySaves
<1> HIDE DEF p
<1>5. /\ p \in BookedSnapshot /\ p.booking = d.booking /\ p.session = d.session /\ p.commands = d.commands
      /\ p.receipts = d.receipts \cup {<<"TX", k>>}
      /\ (\A q \in Bookings \ {k} : p.paid[q] = d.paid[q])
      /\ p.paid[k] = IF <<"TX", k>> \in d.receipts THEN d.paid[k] ELSE d.paid[k] + advance
  BY <1>4 DEF Paid
<1>6. p.paid[k] = advance /\ d.session[k].state = "none"
      /\ <<"SETTLE", k>> \notin d.receipts /\ <<"RF", k>> \notin d.receipts /\ <<"REVIEW", k>> \notin d.receipts
  <2>1. <<"TX", k>> \notin d.receipts /\ d.paid[k] = 0
    BY <1>0, <1>2 DEF RowHolds, Worth
  <2> QED
    BY <1>0, <1>2, <1>3, <1>5, <2>1 DEF RowHolds
<1>7. new \in BookingRow /\ new.status = "upcoming" /\ new.bay = b /\ new.start = start /\ new.hours = hours
      /\ new.advance = advance
  BY <1>0, <1>2, <1>3 DEF BookingRow
<1>8. booked' = e
  BY <1>1, <1>5
<1> HIDE DEF new
<1>9. booking \in [Bookings -> BookingRow] /\ booking[k] = new
      /\ \A q \in Bookings \ {k} : booking[q] = d.booking[q]
  BY <1>0, <1>7
<1> HIDE DEF booking
<1>10. e \in BookedSnapshot
  BY <1>5, <1>9, BookedTyped, Zenon
<1>11. e.session = d.session /\ e.booking = booking /\ e.paid = p.paid /\ e.receipts = p.receipts /\ e.commands = d.commands
  BY <1>5 DEF BookedSnapshot
<1> HIDE DEF e
<1>12. Touches(d, e, k) /\ Leaves(d, e) /\ e.booking[k] = new
  BY <1>5, <1>9, <1>11 DEF Touches, Leaves
<1>13. Booked!Due(e, k)
  BY <1>7, <1>12 DEF Booked!Due
<1>14. Worth(e, k)
  BY <1>6, <1>7, <1>11, <1>12 DEF Worth
<1>15. \A x \in {"SETTLE", "RF", "REVIEW"} : <<x, k>> \notin e.receipts
  BY <1>5, <1>6, <1>11
<1>16. RowHolds(e, k)
  BY <1>2, <1>6, <1>7, <1>11, <1>12, <1>14, <1>15 DEF RowHolds, Booked!Active
<1>17. ~Commanded(d, k)
  BY <1>6 DEF Commanded
<1>18. \A q \in Bookings \ {k} :
          ~(d.booking[q].bay = e.booking[k].bay
            /\ Booked!Overlaps(e.booking[k].start, e.booking[k].hours, d.booking[q]))
  BY <1>2, <1>7, <1>12
<1> QED
  BY <1>0, <1>8, <1>10, <1>12, <1>13, <1>16, <1>17, <1>18, PlacedRow

LEMMA CancelKeepsBooked ==
    ASSUME booked \in BookedGood, NEW k \in Bookings, Booked!Cancel(k)
    PROVE  booked' \in BookedGood
<1> DEFINE d == booked
           bk == d.booking[k]
           s == d.session[k]
           amount == Booked!Refundable(d, k)
           back == -amount
           p == IF amount = 0 THEN d ELSE Booked!Pay(d, <<"RF", k>>, k, back)
           to == IF s.state = "none" THEN "none" ELSE "completed"
           over == [bk EXCEPT !.status = "cancelled"]
           new == [s EXCEPT !.state = to]
           booking == [d.booking EXCEPT ![k] = over]
           session == [d.session EXCEPT ![k] = new]
           gone == {c \in Booked!ToSet(d.commands) : c.of = k}
           commands == Left(d.commands, gone)
           e == [[[p EXCEPT !.booking = booking] EXCEPT !.session = session] EXCEPT !.commands = commands]
<1>0. /\ d \in BookedSnapshot /\ BookedHolds(d) /\ d \in BookedGood /\ RowHolds(d, k)
      /\ bk \in BookingRow /\ s \in SessionRow /\ d.paid[k] \in Int /\ d.now \in Int
      /\ d.booking \in [Bookings -> BookingRow] /\ d.session \in [Bookings -> SessionRow]
      /\ d.commands \in Seq(BookedCommand)
  BY BookedFields DEF BookedGood, BookedHolds
<1>1. bk.status = "upcoming" /\ booked' = Booked!Cancelled(d, k)
  BY DEF Booked!Cancel
<1>2. /\ bk.advance \in Int /\ Booked!Forfeit(bk) \in Int
      /\ amount \in Int /\ amount >= 0
      /\ amount # 0 => amount = bk.advance - Booked!Forfeit(bk)
  <2>1. bk.advance \in Int /\ Booked!Forfeit(bk) \in Int
    <3>1. Fee \in Int /\ CancellationFee \in Int
      BY BookingAssumption
    <3>2. Booked!Forfeit(bk) \in Int
      <4> HIDE DEF bk
      <4> QED
        BY <3>1 DEF Booked!Forfeit
    <3>3. bk.advance \in Int
      BY <1>0 DEF BookingRow
    <3> QED
      BY <3>2, <3>3
  <2> DEFINE rest == bk.advance - Booked!Forfeit(bk)
  <2>2. amount \in {Booked!Larger(0, rest), 0}
    BY DEF Booked!Refundable
  <2>3. rest \in Int
    BY <2>1
  <2> HIDE DEF amount, rest
  <2>4. amount \in Int /\ amount >= 0 /\ (amount # 0 => amount = rest)
    BY <2>2, <2>3 DEF Booked!Larger
  <2> QED
    BY <2>1, <2>4 DEF rest
<1>3. booked' = [p EXCEPT !.booking[k].status = "cancelled",
                          !.session[k].state = IF @ = "none" THEN "none" ELSE "completed",
                          !.commands = Booked!Without(@, {c \in Booked!ToSet(@) : c.of = k})]
  BY <1>1 DEF Booked!Cancelled
<1> HIDE DEF amount
<1>4. /\ p \in BookedSnapshot /\ p.booking = d.booking /\ p.session = d.session /\ p.commands = d.commands
      /\ (\A q \in Bookings \ {k} : p.paid[q] = d.paid[q])
      /\ \A q \in Bookings \ {k} : \A x \in {"TX", "SETTLE", "RF", "REVIEW"} :
            <<x, q>> \in p.receipts <=> <<x, q>> \in d.receipts
      /\ p.paid[k] = d.paid[k] - amount
  <2>1. CASE amount = 0
    BY <1>0, <2>1
  <2>2. CASE amount # 0
    <3>1. back \in Int
      BY <1>2
    <3>2. back = -amount
      OBVIOUS
    <3> DEFINE r == Booked!Pay(d, <<"RF", k>>, k, back)
    <3>3. p = r
      BY <2>2
    <3> HIDE DEF back
    <3>4. Paid(d, r, "RF", k, back)
      <4>1. "RF" \in {"TX", "SETTLE", "RF", "REVIEW"}
        OBVIOUS
      <4> QED
        BY <1>0, <3>1, <4>1, PaySaves
    <3> HIDE DEF r, p
    <3>5. <<"RF", k>> \notin d.receipts
      BY <1>0, <1>1 DEF RowHolds, Booked!Due
    <3>6. p.paid[k] = d.paid[k] + back /\ p.receipts = d.receipts \cup {<<"RF", k>>}
      BY <3>3, <3>4, <3>5 DEF Paid
    <3>7. p.paid[k] = d.paid[k] - amount
      BY <1>0, <1>2, <3>2, <3>6
    <3> QED
      BY <3>3, <3>4, <3>6, <3>7 DEF Paid
  <2> QED
    BY <2>1, <2>2, Zenon
<1> HIDE DEF p
<1>5. booked' = [p EXCEPT !.booking = booking, !.session = session, !.commands = commands]
  <2>1. Booked!Without(d.commands, gone) = commands
    BY BookedWithout
  <2>2. booked' = [p EXCEPT !.booking[k].status = "cancelled", !.session[k].state = to, !.commands = commands]
    BY <1>3, <1>4, <2>1, Zenon
  <2> HIDE DEF to, commands
  <2> QED
    BY <1>4, <2>2, Zenon DEF BookedSnapshot
<1>6. over \in BookingRow /\ over.status = "cancelled" /\ over.bay = bk.bay /\ over.price = bk.price
      /\ over.advance = bk.advance
  <2> HIDE DEF bk
  <2> QED
    BY <1>0, Zenon DEF BookingRow
<1>7. new \in SessionRow /\ new.state = to /\ new.bay = s.bay /\ to \in {"none", "completed"}
      /\ (to = "completed" => s.state # "none")
  <2>1. to \in {"none", "completed"} /\ to \in SessionStates /\ (to = "completed" => s.state # "none")
    BY DEF SessionStates
  <2> HIDE DEF s, to
  <2>2. new \in SessionRow
    BY <1>0, <2>1, SessionTyped, Zenon
  <2> QED
    BY <1>0, <2>1, <2>2 DEF SessionRow
<1>8. /\ commands \in Seq(BookedCommand) /\ PartOf(commands, d.commands)
      /\ \A i \in 1..Len(commands) : commands[i] \notin gone
  <2> HIDE DEF gone
  <2> QED
    BY <1>0, LeftIsPart
<1> HIDE DEF over, new, commands
<1>9. /\ booking \in [Bookings -> BookingRow] /\ booking[k] = over
      /\ session \in [Bookings -> SessionRow] /\ session[k] = new
      /\ \A q \in Bookings \ {k} : booking[q] = d.booking[q] /\ session[q] = d.session[q]
  BY <1>0, <1>6, <1>7
<1> HIDE DEF booking, session
<1>10. booked' = e
  BY <1>4, <1>5 DEF BookedSnapshot
<1>11. /\ e \in BookedSnapshot
       /\ e.booking = booking /\ e.session = session /\ e.commands = commands
       /\ e.paid = p.paid /\ e.receipts = p.receipts
  <2> DEFINE a == [p EXCEPT !.booking = booking]
             b == [a EXCEPT !.session = session]
  <2>1. a \in BookedSnapshot
    BY <1>4, <1>9, BookedTyped, Zenon
  <2>2. a.booking = booking /\ a.paid = p.paid /\ a.receipts = p.receipts
    BY <1>4 DEF BookedSnapshot
  <2> HIDE DEF a
  <2>3. b \in BookedSnapshot
    BY <1>9, <2>1, BookedTyped, Zenon
  <2>4. b.booking = booking /\ b.session = session /\ b.paid = p.paid /\ b.receipts = p.receipts
    BY <2>1, <2>2 DEF BookedSnapshot
  <2> HIDE DEF b
  <2>5. [b EXCEPT !.commands = commands] \in BookedSnapshot
    BY <1>8, <2>3, BookedTyped, Zenon
  <2>6. e = [b EXCEPT !.commands = commands]
    BY DEF a, b
  <2> HIDE DEF e
  <2> QED
    BY <2>3, <2>4, <2>5, <2>6, Zenon DEF BookedSnapshot
<1> HIDE DEF e
<1>12. Touches(d, e, k) /\ e.booking[k] = over /\ e.session[k] = new /\ e.paid[k] = d.paid[k] - amount
  BY <1>4, <1>9, <1>11 DEF Touches
<1>13. ~Booked!Due(e, k) /\ ~Booked!Active(e, k)
  BY <1>6, <1>7, <1>12 DEF Booked!Due, Booked!Active
<1>14. \A q \in Bookings : Stays(d, e, q)
  <2>1. e.booking[k].bay = bk.bay /\ e.booking[k].start = bk.start /\ e.booking[k].hours = bk.hours
    <3> HIDE DEF bk
    <3>1. over.start = bk.start /\ over.hours = bk.hours
      BY <1>0 DEF over, BookingRow
    <3> QED
      BY <1>6, <1>12, <3>1
  <2> QED
    BY <1>12, <1>13, <2>1, Zenon DEF Stays, Touches, Booked!Due
<1>15. OnlyOnce(e)
  BY <1>0, <1>14, OnceStays DEF BookedHolds
<1>16. Worth(e, k)
  <2>1. d.paid[k] = bk.advance
    BY <1>0, <1>1 DEF RowHolds, Worth
  <2>2. Booked!Forfeit(over) = Booked!Forfeit(bk)
    BY <1>6 DEF Booked!Forfeit
  <2>3. bk.advance - amount \in {bk.advance, Booked!Smaller(bk.advance, Booked!Forfeit(bk))}
    <3> DEFINE x == bk.advance
               y == Booked!Forfeit(bk)
    <3>1. x \in Int /\ y \in Int /\ amount \in Int /\ amount >= 0 /\ (amount # 0 => amount = x - y)
      BY <1>2
    <3> HIDE DEF x, y
    <3>2. x - amount \in {x, Booked!Smaller(x, y)}
      BY <3>1 DEF Booked!Smaller
    <3> QED
      BY <3>2 DEF x, y
  <2> QED
    BY <1>6, <1>12, <2>1, <2>2, <2>3 DEF Worth
<1>17. RowHolds(e, k)
  <2>1. bk.bay # "none" /\ (to = "completed" => s.bay # "none")
    BY <1>0, <1>1, <1>7 DEF RowHolds, Booked!Active
  <2> QED
    BY <1>6, <1>7, <1>12, <1>13, <1>16, <2>1 DEF RowHolds
<1>18. \A q \in Bookings : RowHolds(e, q)
  BY <1>0, <1>12, <1>17, OthersStay DEF BookedHolds
<1>19. CommandsHold(e)
  <2> SUFFICES ASSUME NEW i \in DOMAIN e.commands, e.commands[i].kind # "RESTART"
               PROVE  e.commands[i].of \in Bookings /\ Commanded(e, e.commands[i].of)
    BY DEF CommandsHold
  <2>1. DOMAIN commands = 1..Len(commands) /\ DOMAIN d.commands = 1..Len(d.commands)
    BY <1>0, <1>8
  <2>2. PICK place \in [1..Len(commands) -> 1..Len(d.commands)] :
            \A j \in 1..Len(commands) : commands[j] = d.commands[place[j]]
    BY <1>8, Zenon DEF PartOf
  <2>3. PICK j \in DOMAIN d.commands : commands[i] = d.commands[j]
    BY <1>11, <2>1, <2>2
  <2>4. commands[i].of # k
    BY <1>8, <1>11, <2>1, <2>3 DEF Booked!ToSet
  <2>5. commands[i].of \in Bookings /\ Commanded(d, commands[i].of)
    BY <1>0, <1>11, <2>3 DEF BookedHolds, CommandsHold
  <2> QED
    BY <1>11, <1>12, <2>4, <2>5, OthersStay
<1> QED
  BY <1>10, <1>11, <1>15, <1>18, <1>19 DEF BookedGood, BookedHolds

-----------------------------------------------------------------------------
(* BookingDemo: the specification *)

\* What a seed is.
SeedHolds(seed, b) ==
    /\ seed.booking \in BookingRow /\ seed.session \in SessionRow /\ seed.paid \in Int
    /\ seed.receipts \in SUBSET {"TX", "RF"} /\ seed.booking.price = 0
    /\ \/ /\ seed.booking.status = "upcoming" /\ seed.session.state = "none" /\ seed.booking.bay = b
          /\ seed.paid = seed.booking.advance /\ seed.receipts = {"TX"}
       \/ /\ seed.booking.status = "completed" /\ seed.session.state = "completed" /\ seed.booking.bay = b
          /\ seed.session.bay = "none" /\ seed.paid = seed.session.cost /\ seed.receipts = {"TX"}
       \/ /\ seed.booking.status = "cancelled" /\ seed.session.state = "none" /\ seed.booking.bay = b
          /\ seed.paid = Booked!Smaller(seed.booking.advance, Fee)
       \/ /\ seed.booking.status = "none" /\ seed.session.state = "none" /\ seed.paid = 0 /\ seed.receipts = {}

LEMMA SeedIsOne ==
    ASSUME NEW price \in Prices, NEW b \in Rooms, NEW seed \in Booked!Seeds(price, b)
    PROVE  SeedHolds(seed, b)
<1> DEFINE zero == 0
           one == 1
           none == "none"
           up == "upcoming"
           past == "completed"
           off == "cancelled"
           adv == Booked!Advance(price, one)
           cost == Expected * price + Fee
           small == Booked!Smaller(adv, Fee)
           empty == [status |-> none, bay |-> none, start |-> zero, hours |-> zero, price |-> zero, advance |-> zero]
           free == [state |-> none, bay |-> none, energy |-> zero, cost |-> zero]
           own == [empty EXCEPT !.bay = b, !.hours = one, !.advance = adv]
           b1 == [own EXCEPT !.status = up, !.start = one]
           b2 == [own EXCEPT !.status = past, !.advance = cost]
           b3 == [own EXCEPT !.status = off]
           s2 == [free EXCEPT !.state = past, !.energy = Expected, !.cost = cost]
<1>1. seed \in {[booking |-> b1, session |-> free, paid |-> adv, receipts |-> {"TX"}],
                [booking |-> b2, session |-> s2, paid |-> cost, receipts |-> {"TX"}],
                [booking |-> b3, session |-> free, paid |-> small, receipts |-> {"TX", "RF"}],
                [booking |-> empty, session |-> free, paid |-> zero, receipts |-> {}]}
  BY DEF Booked!Seeds, Booked!NoBooking, Booked!NoSession
<1>2. /\ adv \in Int /\ cost \in Int /\ small \in Int /\ Expected \in Int /\ zero \in Int /\ one \in Int
  <2>1. price \in Int /\ Expected \in Int /\ Fee \in Int /\ zero \in Int /\ one \in Int
    BY BookingAssumption
  <2>2. \A x, y, z \in Int : x * y + z \in Int
    OBVIOUS
  <2>3. cost \in Int
    BY <2>1, <2>2
  <2>4. adv \in Int
    BY <2>1, AdvanceIsNumber
  <2> HIDE DEF adv, cost
  <2>5. small \in Int
    BY <2>1, <2>4 DEF Booked!Smaller
  <2> QED
    BY <2>1, <2>3, <2>4, <2>5
<1>3. none = "none" /\ up = "upcoming" /\ past = "completed" /\ off = "cancelled" /\ zero = 0 /\ small = Booked!Smaller(adv, Fee)
  OBVIOUS
<1> HIDE DEF zero, one, none, up, past, off, adv, cost, small
<1>4. own = [status |-> none, bay |-> b, start |-> zero, hours |-> one, price |-> zero, advance |-> adv]
  <2> DEFINE o1 == [empty EXCEPT !.bay = b]
             o2 == [o1 EXCEPT !.hours = one]
             o3 == [o2 EXCEPT !.advance = adv]
  <2>1. own = o3
    <3> HIDE DEF empty
    <3> QED
      OBVIOUS
  <2>2. o1 = [status |-> none, bay |-> b, start |-> zero, hours |-> zero, price |-> zero, advance |-> zero]
    OBVIOUS
  <2> HIDE DEF o1, own
  <2>3. o2 = [status |-> none, bay |-> b, start |-> zero, hours |-> one, price |-> zero, advance |-> zero]
    BY <2>2
  <2> HIDE DEF o2
  <2>4. o3 = [status |-> none, bay |-> b, start |-> zero, hours |-> one, price |-> zero, advance |-> adv]
    BY <2>3
  <2> HIDE DEF o3
  <2> QED
    BY <2>1, <2>4
<1> HIDE DEF own
<1>5. /\ b1 = [status |-> up, bay |-> b, start |-> one, hours |-> one, price |-> zero, advance |-> adv]
      /\ b2 = [status |-> past, bay |-> b, start |-> zero, hours |-> one, price |-> zero, advance |-> cost]
      /\ b3 = [status |-> off, bay |-> b, start |-> zero, hours |-> one, price |-> zero, advance |-> adv]
  <2> DEFINE c1 == [own EXCEPT !.status = up]
             c2 == [own EXCEPT !.status = past]
  <2>1. b1 = [c1 EXCEPT !.start = one] /\ b2 = [c2 EXCEPT !.advance = cost]
    OBVIOUS
  <2>2. c1 = [status |-> up, bay |-> b, start |-> zero, hours |-> one, price |-> zero, advance |-> adv]
    BY <1>4
  <2>3. c2 = [status |-> past, bay |-> b, start |-> zero, hours |-> one, price |-> zero, advance |-> adv]
    BY <1>4
  <2>4. b3 = [status |-> off, bay |-> b, start |-> zero, hours |-> one, price |-> zero, advance |-> adv]
    BY <1>4
  <2> HIDE DEF c1, c2, b1, b2, b3
  <2>5. b1 = [status |-> up, bay |-> b, start |-> one, hours |-> one, price |-> zero, advance |-> adv]
    BY <2>1, <2>2
  <2>6. b2 = [status |-> past, bay |-> b, start |-> zero, hours |-> one, price |-> zero, advance |-> cost]
    BY <2>1, <2>3
  <2> QED
    BY <2>4, <2>5, <2>6
<1>6. s2 = [state |-> past, bay |-> none, energy |-> Expected, cost |-> cost]
  <2> DEFINE f1 == [free EXCEPT !.state = past]
             f2 == [f1 EXCEPT !.energy = Expected]
  <2>1. s2 = [f2 EXCEPT !.cost = cost]
    <3> HIDE DEF free
    <3> QED
      OBVIOUS
  <2>2. f1 = [state |-> past, bay |-> none, energy |-> zero, cost |-> zero]
    OBVIOUS
  <2> HIDE DEF f1, s2
  <2>3. f2 = [state |-> past, bay |-> none, energy |-> Expected, cost |-> zero]
    BY <2>2
  <2> HIDE DEF f2
  <2> QED
    BY <2>1, <2>3
<1>7. /\ b1 \in BookingRow /\ b1.status = up /\ b1.bay = b /\ b1.price = zero /\ b1.advance = adv
      /\ b2 \in BookingRow /\ b2.status = past /\ b2.bay = b /\ b2.price = zero
      /\ b3 \in BookingRow /\ b3.status = off /\ b3.bay = b /\ b3.price = zero /\ b3.advance = adv
  <2> HIDE DEF b1, b2, b3
  <2> QED
    BY <1>2, <1>3, <1>5 DEF BookingRow
<1>8. /\ empty \in BookingRow /\ empty.status = none /\ empty.price = zero
      /\ free \in SessionRow /\ free.state = none
  BY <1>2, <1>3 DEF BookingRow, SessionRow, SessionStates
<1>9. s2 \in SessionRow /\ s2.state = past /\ s2.bay = none /\ s2.cost = cost
  <2> HIDE DEF s2
  <2> QED
    BY <1>2, <1>3, <1>6 DEF SessionRow, SessionStates
<1> HIDE DEF b1, b2, b3, s2, free, empty
<1>10. CASE seed = [booking |-> b1, session |-> free, paid |-> adv, receipts |-> {"TX"}]
  BY <1>2, <1>3, <1>7, <1>8, <1>10 DEF SeedHolds
<1>11. CASE seed = [booking |-> b2, session |-> s2, paid |-> cost, receipts |-> {"TX"}]
  BY <1>2, <1>3, <1>7, <1>9, <1>11 DEF SeedHolds
<1>12. CASE seed = [booking |-> b3, session |-> free, paid |-> small, receipts |-> {"TX", "RF"}]
  BY <1>2, <1>3, <1>7, <1>8, <1>12 DEF SeedHolds
<1>13. CASE seed = [booking |-> empty, session |-> free, paid |-> zero, receipts |-> {}]
  BY <1>2, <1>3, <1>8, <1>13 DEF SeedHolds
<1> QED
  BY <1>1, <1>10, <1>11, <1>12, <1>13

LEMMA NetworkIsOne ==
    ASSUME NEW price \in Prices
    PROVE  LET n == Booked!Network(price)
           IN  /\ n \in BookedSnapshot
               /\ \A q \in Bookings : /\ n.booking[q].status = "none" /\ n.session[q].state = "none"
                                      /\ n.paid[q] = 0
               /\ n.receipts = {} /\ n.commands = <<>>
<1> DEFINE n == Booked!Network(price)
           rows == [k \in Bookings |-> Booked!NoBooking]
           sessions == [k \in Bookings |-> Booked!NoSession]
           nothing == [k \in Bookings |-> 0]
           bays == [b \in Rooms |-> Booked!IdleDevice]
           rooms == [u \in Booked!Bookers |-> Room]
           commands == <<>>
           zero == 0
           open == TRUE
           pending == "pending"
           none == {}
<1>1. n = [booking |-> rows, session |-> sessions, paid |-> nothing, receipts |-> none, commands |-> commands,
           bay |-> bays, station |-> open, room |-> rooms, review |-> pending, price |-> price, now |-> zero]
  BY DEF Booked!Network
<1>2. Booked!IdleDevice \in Controller
  BY DEF Booked!IdleDevice, Controller
<1>3. Booked!NoBooking \in BookingRow /\ Booked!NoBooking.status = "none"
  BY DEF Booked!NoBooking, BookingRow
<1>4. Booked!NoSession \in SessionRow /\ Booked!NoSession.state = "none"
  BY DEF Booked!NoSession, SessionRow, SessionStates
<1>5. /\ rows \in [Bookings -> BookingRow] /\ sessions \in [Bookings -> SessionRow]
      /\ nothing \in [Bookings -> Int] /\ bays \in [Rooms -> Controller]
  BY <1>2, <1>3, <1>4
<1>6. rooms \in [Booked!Bookers -> Int] /\ price \in Int
  BY BookingAssumption
<1>7. commands \in Seq(BookedCommand) /\ none \in SUBSET Receipt /\ zero \in Int
      /\ open \in BOOLEAN /\ pending \in {"pending", "succeeded"}
  OBVIOUS
<1>8. \A q \in Bookings : rows[q].status = "none" /\ sessions[q].state = "none" /\ nothing[q] = 0
  BY <1>3, <1>4
<1>9. none = {} /\ commands = <<>>
  OBVIOUS
<1> HIDE DEF n, rows, sessions, nothing, bays, rooms, commands, zero, open, pending, none
<1>10. n \in BookedSnapshot
  BY <1>1, <1>5, <1>6, <1>7 DEF BookedSnapshot
<1>11. n.booking = rows /\ n.session = sessions /\ n.paid = nothing /\ n.receipts = none /\ n.commands = commands
  BY <1>1
<1> QED
  BY <1>8, <1>9, <1>10, <1>11 DEF n

LEMMA BookedBegins == Booked!Init => booked \in BookedGood
<1> SUFFICES ASSUME Booked!Init PROVE booked \in BookedGood
  OBVIOUS
<1> DEFINE first == CHOOSE b \in Rooms : TRUE
           k == Sample
<1>0. PICK price \in Prices : \E seed \in Booked!Seeds(price, CHOOSE b \in Rooms : TRUE) :
          booked = [Booked!Network(price) EXCEPT
                        !.booking[Sample] = seed.booking, !.session[Sample] = seed.session,
                        !.paid[Sample] = seed.paid, !.receipts = {<<r, Sample>> : r \in seed.receipts}]
  BY Zenon DEF Booked!Init
<1>1. PICK seed \in Booked!Seeds(price, first) :
          booked = [Booked!Network(price) EXCEPT
                        !.booking[k] = seed.booking, !.session[k] = seed.session, !.paid[k] = seed.paid,
                        !.receipts = {<<r, k>> : r \in seed.receipts}]
  BY <1>0, Zenon
<1>2. first \in Rooms /\ first # "none" /\ k \in Bookings
  BY BookingAssumption
<1> HIDE DEF first, k
<1>3. SeedHolds(seed, first)
  BY <1>2, SeedIsOne
<1> DEFINE n == Booked!Network(price)
           x == seed.booking
           y == seed.session
           z == seed.paid
           booking == [n.booking EXCEPT ![k] = x]
           session == [n.session EXCEPT ![k] = y]
           paid == [n.paid EXCEPT ![k] = z]
           receipts == {<<r, k>> : r \in seed.receipts}
           bays == n.bay
           e == Written(n, booking, session, paid, receipts, bays)
<1>4. /\ n \in BookedSnapshot
      /\ \A q \in Bookings : n.booking[q].status = "none" /\ n.session[q].state = "none" /\ n.paid[q] = 0
      /\ n.receipts = {} /\ n.commands = <<>>
  BY NetworkIsOne
<1> HIDE DEF n
<1>5. /\ n.booking \in [Bookings -> BookingRow] /\ n.session \in [Bookings -> SessionRow]
      /\ n.paid \in [Bookings -> Int] /\ bays \in [Rooms -> Controller] /\ n.commands = <<>>
  BY <1>4, BookedFields
<1>6. x \in BookingRow /\ y \in SessionRow /\ z \in Int /\ seed.receipts \in SUBSET {"TX", "RF"} /\ x.price = 0
  BY <1>3 DEF SeedHolds
<1>7. booked = e
  <2>1. booked = [n EXCEPT !.booking[k] = x, !.session[k] = y, !.paid[k] = z, !.receipts = receipts]
    BY <1>1 DEF n
  <2> HIDE DEF x, y, z, receipts
  <2>2. booked = [n EXCEPT !.booking = booking, !.session = session, !.paid = paid, !.receipts = receipts]
    BY <1>4, <2>1 DEF BookedSnapshot
  <2> HIDE DEF booking, session, paid
  <2> QED
    BY <1>4, <2>2, Zenon DEF Written, BookedSnapshot
<1>8. receipts \in SUBSET Receipt
      /\ \A q \in Bookings : \A r \in {"TX", "SETTLE", "RF", "REVIEW"} :
            <<r, q>> \in receipts <=> q = k /\ r \in seed.receipts
  BY <1>2, <1>6 DEF Receipt
<1> HIDE DEF x, y, z, receipts
<1>9. /\ booking \in [Bookings -> BookingRow] /\ session \in [Bookings -> SessionRow] /\ paid \in [Bookings -> Int]
      /\ booking[k] = x /\ session[k] = y /\ paid[k] = z
      /\ \A q \in Bookings \ {k} : booking[q].status = "none" /\ session[q].state = "none" /\ paid[q] = 0
  BY <1>2, <1>4, <1>5, <1>6
<1> HIDE DEF booking, session, paid, bays
<1>10. /\ e \in BookedSnapshot /\ e.booking = booking /\ e.session = session /\ e.paid = paid
       /\ e.receipts = receipts /\ e.commands = <<>>
  <2>1. receipts \in SUBSET Receipt
    BY <1>8
  <2>2. n \in BookedSnapshot /\ bays \in [Rooms -> Controller]
    BY <1>4, <1>5
  <2>3. /\ booking \in [Bookings -> BookingRow] /\ session \in [Bookings -> SessionRow]
        /\ paid \in [Bookings -> Int]
    BY <1>9
  <2>4. /\ e \in BookedSnapshot /\ e.booking = booking /\ e.session = session /\ e.paid = paid
        /\ e.receipts = receipts /\ e.commands = n.commands
    BY <2>1, <2>2, <2>3, WrittenTyped
  <2> QED
    BY <1>5, <2>4
<1> HIDE DEF e
<1>11. CommandsHold(e)
  <2>1. DOMAIN (<<>>) = {}
    OBVIOUS
  <2> QED
    BY <1>10, <2>1 DEF CommandsHold
<1>12. OnlyOnce(e)
  BY <1>9, <1>10 DEF OnlyOnce, Booked!Due, Booked!InUse, Booked!Overlaps
<1>13. ASSUME NEW q \in Bookings \ {k} PROVE RowHolds(e, q)
  <2>1. e.booking[q].status = "none" /\ e.session[q].state = "none" /\ e.paid[q] = 0
    BY <1>9, <1>10
  <2>2. \A r \in {"TX", "SETTLE", "RF", "REVIEW"} : <<r, q>> \notin e.receipts
    BY <1>8, <1>10, Zenon
  <2>3. Worth(e, q)
    BY <2>1 DEF Worth
  <2> QED
    BY <2>1, <2>2, <2>3 DEF RowHolds, Booked!Due, Booked!Active
<1>14. RowHolds(e, k)
  <2>1. e.booking[k] = x /\ e.session[k] = y /\ e.paid[k] = z
    BY <1>9, <1>10
  <2>2. \A r \in {"TX", "SETTLE", "RF", "REVIEW"} : <<r, k>> \in e.receipts <=> r \in seed.receipts
    BY <1>2, <1>8, <1>10, Zenon
  <2>3. <<"SETTLE", k>> \notin e.receipts /\ <<"REVIEW", k>> \notin e.receipts
    BY <1>6, <2>2
  <2>4. CASE x.status = "upcoming"
    <3>1. y.state = "none" /\ x.bay = first /\ z = x.advance /\ seed.receipts = {"TX"}
      BY <1>3, <2>4 DEF SeedHolds, x, y, z
    <3>2. <<"RF", k>> \notin e.receipts
      BY <2>2, <3>1
    <3>3. Worth(e, k)
      BY <2>1, <2>4, <3>1 DEF Worth
    <3> QED
      BY <1>2, <2>1, <2>3, <2>4, <3>1, <3>2, <3>3 DEF RowHolds, Booked!Due, Booked!Active
  <2>5. CASE x.status = "completed"
    <3>1. y.state = "completed" /\ y.bay = "none" /\ x.bay = first /\ z = y.cost
      BY <1>3, <2>5 DEF SeedHolds, x, y, z
    <3>2. z = y.cost - 0
      BY <1>6, <3>1
    <3>3. Worth(e, k)
      BY <1>6, <2>1, <2>3, <2>5, <3>2 DEF Worth
    <3> QED
      BY <1>2, <2>1, <2>3, <2>5, <3>1, <3>3 DEF RowHolds, Booked!Due, Booked!Active
  <2>6. CASE x.status = "cancelled"
    <3>1. y.state = "none" /\ x.bay = first /\ z = Booked!Smaller(x.advance, Fee)
      BY <1>3, <2>6 DEF SeedHolds, x, y, z
    <3>2. Booked!Forfeit(x) = Fee
      BY <1>6, BookingAssumption DEF Booked!Forfeit
    <3>3. Worth(e, k)
      BY <2>1, <2>6, <3>1, <3>2 DEF Worth
    <3> QED
      BY <1>2, <2>1, <2>3, <2>6, <3>1, <3>3 DEF RowHolds, Booked!Due, Booked!Active
  <2>7. CASE x.status = "none"
    <3>1. y.state = "none" /\ z = 0 /\ seed.receipts = {}
      BY <1>3, <2>7 DEF SeedHolds, x, y, z
    <3>2. \A r \in {"TX", "SETTLE", "RF", "REVIEW"} : <<r, k>> \notin e.receipts
      BY <2>2, <3>1
    <3>3. Worth(e, k)
      BY <2>1, <2>7, <3>1 DEF Worth
    <3> QED
      BY <2>1, <2>7, <3>1, <3>2, <3>3 DEF RowHolds, Booked!Due, Booked!Active
  <2> QED
    BY <1>3, <2>4, <2>5, <2>6, <2>7 DEF SeedHolds, x
<1> QED
  BY <1>7, <1>10, <1>11, <1>12, <1>13, <1>14 DEF BookedGood, BookedHolds

LEMMA BookedIsThere == Spec => Booked!Spec
<1>1. Init => Booked!Init
  BY DEF Init
<1>2. [Next]_vars => [Booked!Next]_booked
  BY DEF Next, vars
<1> QED
  BY <1>1, <1>2, PTL DEF Spec, Booked!Spec

\* One step for each operation of the demo.
LEMMA StepKeepsBooked == booked \in BookedGood /\ [Booked!Next]_booked => booked' \in BookedGood
<1> SUFFICES ASSUME booked \in BookedGood, [Booked!Next]_booked PROVE booked' \in BookedGood
  OBVIOUS
<1>1. CASE UNCHANGED booked
  BY <1>1
<1>2. ASSUME NEW supply \in Booked!Supplies, Booked!Tick(supply) PROVE booked' \in BookedGood
  BY <1>2, TickKeepsBooked
<1>3. ASSUME NEW k \in Bookings,
             \/ \E start \in 1..MaxTime, hours \in Hours : Booked!Reserve(k, start, hours)
             \/ Booked!Cancel(k) \/ Booked!Enter(k) \/ Booked!EmergencyStop(k)
      PROVE  booked' \in BookedGood
  BY <1>3, ReserveKeepsBooked, CancelKeepsBooked, EnterKeepsBooked, EmergencyKeepsBooked
<1>4. ASSUME NEW k \in Bookings,
             \/ \E present \in BOOLEAN : Booked!Presence(k, present)
             \/ \E b \in Rooms : Booked!UpdateBooking(k, b)
      PROVE  booked' \in BookedGood
  BY <1>4, PresenceKeepsBooked, UpdateKeepsBooked
<1>5. ASSUME NEW k \in Bookings,
             \/ \E override \in BOOLEAN : Booked!Command("START", k, override)
             \/ \E kind \in {"STOP", "PAUSE"} : Booked!Command(kind, k, FALSE)
      PROVE  booked' \in BookedGood
  <2>1. /\ {"STOP", "PAUSE"} \subseteq {"START", "STOP", "PAUSE"} /\ "START" \in {"START", "STOP", "PAUSE"}
        /\ FALSE \in BOOLEAN
    OBVIOUS
  <2> QED
    BY <1>5, <2>1, CommandKeepsBooked, Zenon
<1>6. ASSUME NEW b \in Rooms,
             \/ Booked!Restart(b)
             \/ \E enabled \in BOOLEAN : Booked!UpdateBay(b, enabled)
             \/ \E fault \in Booked!FaultCodes : Booked!ResolveFault(b, fault)
      PROVE  booked' \in BookedGood
  BY <1>6, RestartKeepsBooked, UpdateBayKeepsBooked, ResolveKeepsBooked
<1>7. ASSUME NEW b \in Rooms,
             \/ \E field \in {"online", "plugged", "sensor", "dry"}, value \in BOOLEAN :
                    Booked!Configure(b, field, value)
             \/ \E outcome \in {"success", "failure", "timeout"} : Booked!Configure(b, "outcome", outcome)
      PROVE  booked' \in BookedGood
  BY <1>7, ConfigureKeepsBooked
<1>8. ASSUME \/ Booked!ApproveRefund
             \/ \E online \in BOOLEAN : Booked!SaveStation(online)
             \/ \E price \in Prices : Booked!SavePricing(price)
             \/ \E u \in Booked!Bookers, room \in 0..Room : Booked!SaveVehicle(u, room)
             \/ \E hours \in {0, 1} : Booked!Elapse(hours)
      PROVE  booked' \in BookedGood
  BY <1>8, ApprovedKeepsBooked, StationKeepsBooked, PricingKeepsBooked, OtherVehicleKeepsBooked, TimeKeepsBooked
<1> QED
  BY <1>1, <1>2, <1>3, <1>4, <1>5, <1>6, <1>7, <1>8, Zenon DEF Booked!Next

LEMMA BookedStaysGood == Spec => [](booked \in BookedGood)
<1>1. Booked!Init => booked \in BookedGood
  BY BookedBegins
<1>2. booked \in BookedGood /\ [Booked!Next]_booked => (booked \in BookedGood)'
  BY StepKeepsBooked
<1> QED
  BY <1>1, <1>2, BookedIsThere, PTL DEF Booked!Spec

\* What a booking has paid, less what it got back, is what it is worth (BooksBalance of
\* BookingDemo, engine.ts' finishSession and demo.ts' cancelDemoBooking), in every state of
\* the demo, for any number of bookings and bays and any prices.
THEOREM BooksStayBalanced == Spec => []BooksBalance
<1>1. booked \in BookedGood => BooksBalance
  BY Zenon DEF BookedGood, BookedHolds, RowHolds, Worth, BooksBalance, Booked!BooksBalance
<1> QED
  BY <1>1, BookedStaysGood, PTL

\* No bay is promised twice for the same hour (NoDoubleBooking of BookingDemo,
\* booking-rules.ts), whatever is reserved, moved, cancelled or charged.
THEOREM NeverPromisedTwice == Spec => []NoDoubleBooking
<1>1. booked \in BookedGood => NoDoubleBooking
  BY DEF BookedGood, BookedHolds, OnlyOnce, NoDoubleBooking, Booked!NoDoubleBooking
<1> QED
  BY <1>1, BookedStaysGood, PTL

=============================================================================
