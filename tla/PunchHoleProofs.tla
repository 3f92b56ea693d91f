--------------------------- MODULE PunchHoleProofs ---------------------------
(***************************************************************************)
(* PunchHole, for any addresses, border, lists and number of connections:  *)
(* types, where the two ends of a call meet, what crosses the border of    *)
(* the LAN, and that the rotation spreads the load.                        *)
(***************************************************************************)
EXTENDS PunchHole, SequenceTheorems, TLAPS

\* What the messages on their way have in them already.
OnItsWay ==
  /\ call.msg \in ToDevice \cup FromDevice /\ call.relay = LocalIp => IsLan(call.at)
  /\ call.msg \in ToDevice /\ ~call.forced =>
       /\ IsLan(call.from) <=> IsLan(call.at)
       /\ call.relay # LocalIp
  /\ call.msg \in {"FetchLocalAddr", "LocalAddr", "PunchHoleSent"} =>
       (IsLan(call.from) <=> IsLan(call.at))
  /\ call.msg = "PunchHoleSent" => call.relay # LocalIp
  /\ call.msg = "RelayResponse" => call.deviceRelay = call.relay

CallInv == OnItsWay /\ MeetAtOneRelay /\ LanBoundary

-----------------------------------------------------------------------------
\* A name that is drawn is a server of the list.
LEMMA PickedIsServer ==
  ASSUME TypeOK, NEW l \in List
  PROVE  Picked(l) \in Server \cup {NoServer} /\ Picked(l) \in Name /\ Picked(l) # LocalIp
<1>1. l \in Seq(Server) /\ Len(l) \in Nat /\ rot \in Nat
  BY RotationAssumption, LenProperties DEF TypeOK, RotationTypeOK
<1>2. l = <<>> \/ Len(l) > 0
  BY <1>1, EmptySeq
<1>3. Len(l) > 0 => (rot % Len(l)) + 1 \in 1..Len(l) /\ 1 \in 1..Len(l)
  BY <1>1
<1>4. Picked(l) \in Server \cup {NoServer}
  BY <1>1, <1>2, <1>3, ElementOfSeq DEF Picked
<1>. QED BY <1>4, PunchHoleAssumption DEF Name

\* The counter stays in its range.
LEMMA NextRotType ==
  ASSUME NEW n \in Nat
  PROVE  NextRot(n) \in 0..(2^RotationBits - 1)
<1>. DEFINE m == 2^RotationBits
<1>1. m \in Nat \ {0}
  BY RotationAssumption
<1>2. (n + 1) % m \in 0..(m - 1)
  <2>. HIDE DEF m
  <2>. QED BY <1>1
<1>. QED BY <1>2 DEF NextRot

LEMMA GetRelayServerType ==
  ASSUME TypeOK, NEW l \in List, GetRelayServer(l), UNCHANGED listVars
  PROVE  RotationTypeOK'
<1>1. rot \in Nat
  BY RotationAssumption DEF TypeOK, RotationTypeOK
<1>2. CASE UNCHANGED counterVars
  BY <1>2 DEF TypeOK, RotationTypeOK, listVars, counterVars
<1>3. CASE rot' = NextRot(rot) /\ Count(l, Picked(l))
  <2>1. rot' \in 0..(2^RotationBits - 1)
    BY <1>1, <1>3, NextRotType
  <2>2. lastList' \in List /\ given' \in [Server -> Nat]
    BY <1>3 DEF Count, TypeOK, RotationTypeOK
  <2>. QED BY <2>1, <2>2 DEF TypeOK, RotationTypeOK, listVars
<1>. QED BY <1>2, <1>3 DEF GetRelayServer

-----------------------------------------------------------------------------
\* A request: refused, or with the name of a relay server on its way.
LEMMA RequestStep ==
  ASSUME TypeOK, Request
  PROVE  TypeOK' /\ CallInv'
<1>1. ASSUME NEW why \in Refusal, Refuse(why) PROVE TypeOK' /\ CallInv'
  <2>1. call' = [NoCall EXCEPT !.msg = why] /\ UNCHANGED <<rotationVars, always, device>>
    BY <1>1 DEF Refuse
  <2>2. call' \in Call
    BY <2>1 DEF NoCall, Call, Name
  <2>3. TypeOK'
    BY <2>1, <2>2 DEF TypeOK, RotationTypeOK, rotationVars
  <2>4. LocalIp # NoServer
    BY PunchHoleAssumption
  <2>5. CallInv'
    BY <2>1, <2>4 DEF NoCall, Refusal, CallInv, OnItsWay, MeetAtOneRelay, LanBoundary,
                      ToDevice, FromDevice, Told
  <2>. QED BY <2>3, <2>5
<1>2. ASSUME NEW from \in Ip, NEW ws \in BOOLEAN, NEW l \in List, Ask(from, ws, l)
      PROVE  TypeOK' /\ CallInv'
  <2>1. Picked(l) \in Name /\ Picked(l) # LocalIp /\ LocalIp # NoServer /\ LocalIp \in Name
    BY PickedIsServer, PunchHoleAssumption DEF Name
  <2>2. /\ call'.msg = IF SameIntranet(from, device, ws) THEN "FetchLocalAddr" ELSE "PunchHole"
        /\ call'.relay = IF Forced(from, device) /\ IsLan(device) THEN LocalIp ELSE Picked(l)
        /\ call'.from = from /\ call'.at = device /\ call'.forced = Forced(from, device)
        /\ call'.deviceRelay = NoServer /\ device \in Ip
    BY <1>2 DEF Ask
  <2>3. Forced(from, device) \in BOOLEAN
    BY DEF Forced, IsLan, TypeOK
  <2>4. call' \in Call
    BY <1>2, <2>1, <2>3 DEF Ask, Call, Name, ToDevice, TypeOK
  <2>5. TypeOK'
    BY <1>2, <2>4, GetRelayServerType DEF Ask, TypeOK
  <2>6. SameIntranet(from, device, ws) => (IsLan(from) <=> IsLan(device))
    BY DEF SameIntranet
  <2>7. ~Forced(from, device) => (IsLan(from) <=> IsLan(device))
    BY DEF Forced, IsLan
  <2>8. /\ call'.msg \in {"FetchLocalAddr", "PunchHole"}
        /\ call'.relay = LocalIp => IsLan(device) /\ Forced(from, device)
        /\ call'.msg = "FetchLocalAddr" => (IsLan(from) <=> IsLan(device))
    BY <2>1, <2>2, <2>6
  <2>9. OnItsWay'
    BY <2>2, <2>7, <2>8 DEF OnItsWay, ToDevice, FromDevice, IsLan
  <2>10. MeetAtOneRelay' /\ LanBoundary'
    BY <2>1, <2>2, <2>8 DEF MeetAtOneRelay, LanBoundary, Told
  <2>. QED BY <2>5, <2>9, <2>10 DEF CallInv
<1>3. relay_servers \in List /\ snap[AskConn] \in List
  BY PunchHoleAssumption DEF TypeOK, RotationTypeOK
<1>. QED BY <1>1, <1>2, <1>3 DEF Request, Refusal

\* The device answers: what it does not change was right before.
LEMMA AnswerStep ==
  ASSUME TypeOK, CallInv, DeviceAnswers
  PROVE  TypeOK' /\ CallInv'
<1>1. ASSUME NEW msg \in FromDevice, NEW went \in Name, Respond(msg, went)
      PROVE  /\ TypeOK'
             /\ call'.msg = msg /\ call'.deviceRelay = went
             /\ call'.relay = call.relay /\ call'.from = call.from /\ call'.at = call.at
  <2>1. call \in Call /\ call' = [call EXCEPT !.msg = msg, !.deviceRelay = went]
        /\ UNCHANGED <<rotationVars, always, device>>
    BY <1>1 DEF Respond, TypeOK
  <2>2. call' \in Call
    BY <2>1 DEF Call
  <2>3. TypeOK'
    BY <2>1, <2>2 DEF TypeOK, RotationTypeOK, rotationVars
  <2>. QED BY <2>1, <2>3 DEF Call
<1>. USE DEF CallInv, OnItsWay, MeetAtOneRelay, LanBoundary, ToDevice, FromDevice, Told
<1>2. NoServer \in Name /\ call.relay \in Name /\ NoServer # LocalIp
  BY PunchHoleAssumption DEF TypeOK, Call, Name
<1>3. CASE call.msg = "FetchLocalAddr" /\ Respond("LocalAddr", NoServer)
  BY <1>1, <1>2, <1>3 DEF IsLan
<1>4. CASE call.msg = "PunchHole" /\ ~call.forced /\ Respond("PunchHoleSent", NoServer)
  BY <1>1, <1>2, <1>4 DEF IsLan
<1>5. CASE call.msg \in ToDevice /\ Respond("RelayResponse", call.relay)
  BY <1>1, <1>2, <1>5 DEF IsLan
<1>. QED BY <1>3, <1>4, <1>5 DEF DeviceAnswers

\* And the server tells the client.
LEMMA TellStep ==
  ASSUME TypeOK, CallInv, HandleHoleSent \/ HandleLocalAddr \/ RelayResponse
  PROVE  TypeOK' /\ CallInv'
<1>1. ASSUME NEW msg \in Told, NEW relay \in Name, Tell(msg, relay)
      PROVE  /\ call' \in Call
             /\ call'.msg = msg /\ call'.deviceRelay = call.deviceRelay
             /\ call'.relay = relay /\ call'.from = call.from /\ call'.at = call.at
  BY <1>1 DEF Tell, TypeOK, Call
<1>2. call.relay \in Name /\ LocalIp \in Name
  BY DEF TypeOK, Call, Name
<1>. USE DEF CallInv, OnItsWay, MeetAtOneRelay, LanBoundary, ToDevice, FromDevice, Told
<1>3. CASE HandleHoleSent \/ HandleLocalAddr
  <2>1. TypeOK'
    BY <1>1, <1>2, <1>3
       DEF HandleHoleSent, HandleLocalAddr, TypeOK, RotationTypeOK, rotationVars
  <2>2. CallInv'
    BY <1>1, <1>2, <1>3 DEF HandleHoleSent, HandleLocalAddr, IsLan
  <2>. QED BY <2>1, <2>2
<1>4. CASE RelayResponse
  <2>1. snap[AnswerConn] \in List
    BY PunchHoleAssumption DEF TypeOK, RotationTypeOK
  <2>2. Picked(snap[AnswerConn]) \in Name /\ Picked(snap[AnswerConn]) # LocalIp
    BY <2>1, PickedIsServer
  <2>3. call.msg = "RelayResponse" /\ UNCHANGED <<always, device>> /\ Rename
    BY <1>4 DEF RelayResponse
  <2>4. CASE Tell("relayed", call.relay) /\ UNCHANGED rotationVars
             /\ (call.relay = NoServer \/ (~IsLan(call.from) /\ call.relay # LocalIp))
    <3>1. TypeOK'
      BY <1>1, <1>2, <2>3, <2>4 DEF TypeOK, RotationTypeOK, rotationVars
    <3>2. CallInv'
      BY <1>1, <1>2, <2>3, <2>4, PunchHoleAssumption DEF IsLan, Machine
    <3>. QED BY <3>1, <3>2
  <2>5. CASE Tell("relayed", LocalIp) /\ UNCHANGED rotationVars /\ IsLan(call.from)
    <3>1. TypeOK'
      BY <1>1, <1>2, <2>3, <2>5 DEF TypeOK, RotationTypeOK, rotationVars
    <3>2. CallInv'
      BY <1>1, <1>2, <2>3, <2>5 DEF IsLan
    <3>. QED BY <3>1, <3>2
  <2>6. CASE /\ call.relay = LocalIp
             /\ GetRelayServer(snap[AnswerConn]) /\ UNCHANGED listVars
             /\ Tell("relayed", Picked(snap[AnswerConn]))
    <3>1. TypeOK'
      BY <1>1, <2>1, <2>2, <2>3, <2>6, GetRelayServerType DEF TypeOK
    <3>2. CallInv'
      BY <1>1, <2>2, <2>3, <2>6 DEF IsLan
    <3>. QED BY <3>1, <3>2
  <2>. QED BY <2>3, <2>4, <2>5, <2>6 DEF Rename
<1>. QED BY <1>3, <1>4

-----------------------------------------------------------------------------
LEMMA Inductive == Spec => [](TypeOK /\ CallInv)
<1>1. Init => TypeOK /\ CallInv
  <2>. SUFFICES ASSUME Init PROVE TypeOK /\ CallInv
    OBVIOUS
  <2>1. call = NoCall /\ call \in Call
    BY DEF Init, NoCall, Call, Name
  <2>2. RotationTypeOK
    BY RotationAssumption DEF Init, RotationInit, RotationTypeOK
  <2>3. CallInv
    BY <2>1, PunchHoleAssumption
       DEF NoCall, CallInv, OnItsWay, MeetAtOneRelay, LanBoundary, ToDevice, FromDevice, Told
  <2>. QED BY <2>1, <2>2, <2>3 DEF Init, TypeOK
<1>2. TypeOK /\ CallInv /\ [Next]_vars => TypeOK' /\ CallInv'
  <2>. SUFFICES ASSUME TypeOK, CallInv, [Next]_vars PROVE TypeOK' /\ CallInv'
    OBVIOUS
  <2>1. CASE Again
    BY <2>1, RequestStep DEF Again
  <2>2. CASE DeviceAnswers
    BY <2>2, AnswerStep
  <2>3. CASE HandleHoleSent \/ HandleLocalAddr \/ RelayResponse
    BY <2>3, TellStep
  <2>4. CASE \/ AlwaysUseRelay \/ ListsMove \/ TestGeo \/ UNCHANGED vars
             \/ \E d \in Ip \cup {"unknown", "offline"} : Registered(d)
    <3>1. call' = call
      BY <2>4 DEF AlwaysUseRelay, ListsMove, TestGeo, Registered, vars
    <3>2. CallInv'
      BY <3>1 DEF CallInv, OnItsWay, MeetAtOneRelay, LanBoundary, IsLan
    <3>3. CASE TestGeo
      <4>1. snap[AskConn] \in List
        BY PunchHoleAssumption DEF TypeOK, RotationTypeOK
      <4>. QED BY <3>2, <3>3, <4>1, GetRelayServerType DEF TestGeo, TypeOK
    <3>4. CASE ListsMove
      <4>1. RotationTypeOK'
        BY <3>4 DEF ListsMove, Accept, Replace, counterVars, TypeOK, RotationTypeOK
      <4>. QED BY <3>2, <3>4, <4>1 DEF ListsMove, TypeOK
    <3>5. CASE AlwaysUseRelay \/ UNCHANGED vars
               \/ \E d \in Ip \cup {"unknown", "offline"} : Registered(d)
      <4>1. TypeOK'
        BY <3>5 DEF AlwaysUseRelay, Registered, vars, rotationVars, TypeOK, RotationTypeOK
      <4>. QED BY <3>2, <4>1
    <3>. QED BY <2>4, <3>3, <3>4, <3>5
  <2>. QED BY <2>1, <2>2, <2>3, <2>4 DEF Next
<1>. QED BY <1>1, <1>2, PTL DEF Spec

\* Types: every message names a server, this machine or none, and the counter
\* that all tasks share stays in its width.
THEOREM TypeCorrect == Spec => []TypeOK
BY Inductive, PTL

\* Both ends of a relayed call go to one relay server, with the exception the
\* property states, however the lists and the counter moved meanwhile.
THEOREM MeetCorrect == Spec => []MeetAtOneRelay
BY Inductive, PTL DEF CallInv

\* The LAN's name of this machine stays inside, and nobody is told to connect
\* directly across the border.
THEOREM LanCorrect == Spec => []LanBoundary
BY Inductive, PTL DEF CallInv

-----------------------------------------------------------------------------
\* The remainder of the next number.
LEMMA ModNext ==
  ASSUME NEW n \in Nat \ {0}, NEW a \in Nat
  PROVE  /\ a % n \in 0..(n - 1)
         /\ (a + 1) % n = IF (a % n) + 1 = n THEN 0 ELSE (a % n) + 1
<1>1. a % n \in 0..(n - 1) /\ (a + 1) % n \in 0..(n - 1)
  OBVIOUS
<1>2. PICK k \in Int : a = n * k + (a % n)
  <2>1. a \div n \in Int /\ a = n * (a \div n) + (a % n)
    OBVIOUS
  <2>. QED BY <2>1
<1>3. PICK m \in Int : a + 1 = n * m + ((a + 1) % n)
  <2>1. (a + 1) \div n \in Int /\ a + 1 = n * ((a + 1) \div n) + ((a + 1) % n)
    OBVIOUS
  <2>. QED BY <2>1
<1>. DEFINE r == a % n  s == (a + 1) % n
<1>4. r \in 0..(n - 1) /\ s \in 0..(n - 1) /\ n * k + r + 1 = n * m + s
  BY <1>1, <1>2, <1>3
<1>. HIDE DEF r, s
<1>5. m = k \/ m = k + 1
  <2>1. ASSUME m <= k - 1 PROVE FALSE
    <3>1. n * m <= n * (k - 1)
      BY <2>1
    <3>2. n * (k - 1) = n * k - n
      OBVIOUS
    <3>. QED BY <1>4, <3>1, <3>2
  <2>2. ASSUME m >= k + 2 PROVE FALSE
    <3>1. n * m >= n * (k + 2)
      BY <2>2
    <3>2. n * (k + 2) = n * k + 2 * n
      OBVIOUS
    <3>. QED BY <1>4, <3>1, <3>2
  <2>. QED BY <2>1, <2>2
<1>6. s = IF r + 1 = n THEN 0 ELSE r + 1
  <2>1. CASE m = k
    BY <1>4, <2>1
  <2>2. CASE m = k + 1
    <3>1. n * m = n * k + n
      BY <2>2
    <3>. QED BY <1>4, <3>1
  <2>. QED BY <1>5, <2>1, <2>2
<1>. QED BY <1>4, <1>6 DEF r, s

-----------------------------------------------------------------------------
(* Balance.  Next in turn is position r + 1 of a list of n, with r the       *)
(* counter's remainder; the m positions drawn last are those before it,      *)
(* cyclically, and those servers are one ahead.                              *)

Recent(j, m, r, n) ==
  \/ j <= r /\ r - j < m
  \/ j > r /\ (r + n) - j < m

\* What was given when the counter stands at a, and q full turns are over.
Turn(g, l, a, q, m) ==
  \A j \in 1..Len(l) :
    g[l[j]] = IF Recent(j, m, a % Len(l), Len(l)) THEN q + 1 ELSE q

\* Once the counter is back at zero its turn says nothing of what was given.
RotInv ==
  lastList # <<>> =>
    /\ Len(lastList) > 1
    /\ \E q \in Nat :
         /\ \A j \in 1..Len(lastList) : given[lastList[j]] \in {q, q + 1}
         /\ rot # 0 => \E m \in 0..(Len(lastList) - 1) : Turn(given, lastList, rot, q, m)

\* The position in turn is not a recent one; if all others are, it is the last.
LEMMA RecentNow ==
  ASSUME NEW n \in Nat, n > 1, NEW r \in 0..(n - 1)
  PROVE  /\ \A m \in 0..(n - 1) : ~Recent(r + 1, m, r, n)
         /\ \A j \in 1..n : ~Recent(j, 0, r, n)
         /\ \A j \in 1..n : j # r + 1 => Recent(j, n - 1, r, n)
BY DEF Recent

\* Once it is drawn it is recent too.
LEMMA RecentNext ==
  ASSUME NEW n \in Nat, n > 1, NEW r \in 0..(n - 1), NEW s,
         s = IF r + 1 = n THEN 0 ELSE r + 1,
         NEW m \in 0..(n - 1), NEW j \in 1..n
  PROVE  Recent(j, m + 1, s, n) <=> Recent(j, m, r, n) \/ j = r + 1
BY DEF Recent

\* One draw: the turn goes on by one, or a new one begins.
LEMMA DrawTurn ==
  ASSUME NEW l \in List, Len(l) > 1, NEW a \in Nat, NEW q \in Nat,
         NEW m \in 0..(Len(l) - 1), NEW g \in [Server -> Nat], NEW h,
         Turn(g, l, a, q, m),
         h = [t \in Server |-> g[t] + (IF l[(a % Len(l)) + 1] = t THEN 1 ELSE 0)]
  PROVE  \E p \in Nat :
           /\ \A j \in 1..Len(l) : h[l[j]] \in {p, p + 1}
           /\ \E k \in 0..(Len(l) - 1) : Turn(h, l, a + 1, p, k)
<1>. DEFINE n == Len(l)  r == a % n  s == (a + 1) % n
<1>0. l \in Seq(Server) /\ Len(l) \in Nat \ {0} /\ \A j \in 1..Len(l) : l[j] \in Server
  BY RotationAssumption, LenProperties, ElementOfSeq
<1>1. n \in Nat /\ n > 1 /\ \A j \in 1..n : l[j] \in Server
  BY <1>0
<1>2. r \in 0..(n - 1) /\ s = IF r + 1 = n THEN 0 ELSE r + 1
  BY <1>0, ModNext
<1>2a. /\ \A j \in 1..n : g[l[j]] = IF Recent(j, m, r, n) THEN q + 1 ELSE q
       /\ \A j \in 1..n : h[l[j]] = g[l[j]] + (IF l[r + 1] = l[j] THEN 1 ELSE 0)
       /\ \A i, j \in 1..n : l[i] = l[j] => i = j
       /\ m \in 0..(n - 1)
  BY <1>1, RotationAssumption DEF Turn
<1>2b. \A p, k : (\A j \in 1..n : h[l[j]] = IF Recent(j, k, s, n) THEN p + 1 ELSE p)
                   => Turn(h, l, a + 1, p, k)
  BY DEF Turn
<1>. HIDE DEF n, r, s
<1>3. ASSUME NEW j \in 1..n
      PROVE  h[l[j]] = IF Recent(j, m, r, n) \/ j = r + 1 THEN q + 1 ELSE q
  <2>1. r + 1 \in 1..n
    BY <1>1, <1>2
  <2>2. l[r + 1] = l[j] <=> j = r + 1
    BY <1>2a, <2>1
  <2>3. ~Recent(r + 1, m, r, n)
    BY <1>1, <1>2, <1>2a, RecentNow
  <2>4. /\ g[l[j]] = IF Recent(j, m, r, n) THEN q + 1 ELSE q
        /\ h[l[j]] = g[l[j]] + (IF l[r + 1] = l[j] THEN 1 ELSE 0)
    BY <1>2a
  <2>6. CASE j = r + 1
    BY <2>2, <2>3, <2>4, <2>6
  <2>7. CASE j # r + 1
    BY <2>2, <2>4, <2>7
  <2>. QED BY <2>6, <2>7
<1>7. ASSUME NEW p \in Nat, NEW k, Turn(h, l, a + 1, p, k)
      PROVE  \A j \in 1..n : h[l[j]] \in {p, p + 1}
  BY <1>7 DEF Turn, n
<1>4. CASE m < n - 1
  <2>1. m + 1 \in 0..(n - 1)
    BY <1>1, <1>2a, <1>4
  <2>2. ASSUME NEW j \in 1..n
        PROVE  h[l[j]] = IF Recent(j, m + 1, s, n) THEN q + 1 ELSE q
    <3>1. Recent(j, m + 1, s, n) <=> Recent(j, m, r, n) \/ j = r + 1
      BY <1>1, <1>2, <1>2a, RecentNext
    <3>. QED BY <1>3, <3>1
  <2>3. Turn(h, l, a + 1, q, m + 1)
    BY <1>2b, <2>2
  <2>. QED BY <1>7, <2>1, <2>3 DEF n
<1>5. CASE m = n - 1
  <2>1. ASSUME NEW j \in 1..n PROVE h[l[j]] = q + 1 /\ ~Recent(j, 0, s, n)
    <3>1. s \in 0..(n - 1)
      BY <1>1, <1>2
    <3>2. ~Recent(j, 0, s, n)
      BY <1>1, <3>1, RecentNow
    <3>3. j # r + 1 => Recent(j, m, r, n)
      BY <1>1, <1>2, <1>5, RecentNow
    <3>. QED BY <1>3, <3>2, <3>3
  <2>2. 0 \in 0..(n - 1) /\ q + 1 \in Nat
    BY <1>1
  <2>3. Turn(h, l, a + 1, q + 1, 0)
    BY <1>2b, <2>1
  <2>. QED BY <1>7, <2>2, <2>3 DEF n
<1>6. m < n - 1 \/ m = n - 1
  BY <1>1, <1>2a
<1>. QED BY <1>4, <1>5, <1>6

\* The counter goes on by one, or is back at zero.
LEMMA NextRotMeans ==
  ASSUME NEW a \in 0..(2^RotationBits - 1)
  PROVE  NextRot(a) = 0 \/ NextRot(a) = a + 1
<1>. DEFINE w == 2^RotationBits
<1>1. w \in Nat \ {0} /\ a \in 0..(w - 1)
  BY RotationAssumption
<1>2. (a + 1) % w = 0 \/ (a + 1) % w = a + 1
  <2>. HIDE DEF w
  <2>1. CASE a + 1 = w
    BY <1>1, <2>1
  <2>2. CASE a + 1 < w
    BY <1>1, <2>2
  <2>. QED BY <1>1, <2>1, <2>2
<1>. QED BY <1>2 DEF NextRot

\* Whoever asks, and out of whichever list.
LEMMA GetRelayServerTurn ==
  ASSUME TypeOK, RotInv, NEW l \in List, GetRelayServer(l)
  PROVE  RotInv'
<1>1. CASE UNCHANGED counterVars
  BY <1>1 DEF counterVars, RotInv, Turn
<1>2. CASE Len(l) > 1 /\ rot' = NextRot(rot) /\ Count(l, Picked(l))
  <2>. DEFINE g == [t \in Server |-> IF l = lastList /\ rot # 0 THEN given[t] ELSE 0]
  <2>1. /\ g \in [Server -> Nat] /\ rot \in Nat
        /\ rot \in 0..(2^RotationBits - 1) /\ Len(l) \in Nat /\ l \in Seq(Server)
        /\ \A j \in 1..Len(l) : l[j] \in Server
    BY RotationAssumption, LenProperties, ElementOfSeq DEF TypeOK, RotationTypeOK
  <2>2. Picked(l) = l[(rot % Len(l)) + 1] /\ lastList' = l
    BY <1>2, <2>1, LenProperties, EmptySeq DEF Picked, Count
  <2>3. given' = [t \in Server |-> g[t] + (IF l[(rot % Len(l)) + 1] = t THEN 1 ELSE 0)]
    BY <1>2, <2>2 DEF Count
  <2>4. \E q \in Nat, m \in 0..(Len(l) - 1) : Turn(g, l, rot, q, m)
    <3>1. CASE l = lastList /\ rot # 0
      <4>1. l # <<>>
        BY <1>2, <2>1, EmptySeq
      <4>2. PICK q \in Nat, m \in 0..(Len(l) - 1) : Turn(given, l, rot, q, m)
        BY <3>1, <4>1 DEF RotInv
      <4>3. \A j \in 1..Len(l) : g[l[j]] = given[l[j]]
        BY <2>1, <3>1
      <4>. QED BY <4>2, <4>3 DEF Turn
    <3>2. CASE ~(l = lastList /\ rot # 0)
      <4>1. \A j \in 1..Len(l) : g[l[j]] = 0
        BY <2>1, <3>2
      <4>0. Len(l) \in Nat \ {0} /\ 0 \in 0..(Len(l) - 1)
        BY <1>2, <2>1
      <4>2. (rot % Len(l)) \in 0..(Len(l) - 1) /\ 0 \in 0..(Len(l) - 1)
        BY <2>1, <4>0, ModNext
      <4>3. \A j \in 1..Len(l) : ~Recent(j, 0, rot % Len(l), Len(l))
        BY <1>2, <2>1, <4>2, RecentNow
      <4>4. Turn(g, l, rot, 0, 0)
        BY <4>1, <4>3 DEF Turn
      <4>. QED BY <4>2, <4>4
    <3>. QED BY <3>1, <3>2
  <2>. HIDE DEF g
  <2>5. PICK p \in Nat :
          /\ \A j \in 1..Len(l) : given'[l[j]] \in {p, p + 1}
          /\ \E k \in 0..(Len(l) - 1) : Turn(given', l, rot + 1, p, k)
    BY <1>2, <2>1, <2>3, <2>4, DrawTurn
  <2>6. rot' # 0 => rot' = rot + 1
    BY <1>2, <2>1, NextRotMeans
  <2>7. rot' # 0 => \E k \in 0..(Len(l) - 1) : Turn(given', l, rot', p, k)
    BY <2>5, <2>6
  <2>8. /\ \A j \in 1..Len(lastList') : given'[lastList'[j]] \in {p, p + 1}
        /\ rot' # 0 => \E k \in 0..(Len(lastList') - 1) : Turn(given', lastList', rot', p, k)
    BY <2>2, <2>5, <2>7
  <2>9. RotInv' <=> (lastList' # <<>> =>
          /\ Len(lastList') > 1
          /\ \E q \in Nat :
               /\ \A j \in 1..Len(lastList') : given'[lastList'[j]] \in {q, q + 1}
               /\ rot' # 0 => \E m \in 0..(Len(lastList') - 1) :
                                Turn(given', lastList', rot', q, m))
    BY DEF RotInv, Turn
  <2>. QED BY <1>2, <2>2, <2>8, <2>9
<1>. QED BY <1>1, <1>2 DEF GetRelayServer

\* The turn is kept by everything that happens.
LEMMA RotInvCorrect == Spec => []RotInv
<1>1. Init => RotInv
  BY DEF Init, RotationInit, RotInv
<1>2. TypeOK /\ RotInv /\ [Next]_vars => RotInv'
  <2>. SUFFICES ASSUME TypeOK, RotInv, [Next]_vars PROVE RotInv'
    OBVIOUS
  <2>1. /\ relay_servers \in List /\ snap[AskConn] \in List /\ snap[AnswerConn] \in List
    BY PunchHoleAssumption DEF TypeOK, RotationTypeOK
  <2>2. ASSUME NEW from, NEW ws, NEW l \in List, Ask(from, ws, l) PROVE RotInv'
    BY <2>2, GetRelayServerTurn DEF Ask
  <2>3. CASE UNCHANGED counterVars
    BY <2>3 DEF counterVars, RotInv, Turn
  <2>4. CASE Again
    <3>1. CASE \E why : Refuse(why)
      BY <2>3, <3>1 DEF Refuse, rotationVars, counterVars
    <3>. QED BY <2>1, <2>2, <2>4, <3>1 DEF Again, Request
  <2>5. CASE RelayResponse
    <3>1. CASE UNCHANGED rotationVars
      BY <2>3, <3>1 DEF rotationVars, counterVars
    <3>. QED BY <2>1, <2>5, <3>1, GetRelayServerTurn DEF RelayResponse, Rename
  <2>6. CASE TestGeo
    BY <2>1, <2>6, GetRelayServerTurn DEF TestGeo
  <2>7. CASE DeviceAnswers \/ HandleHoleSent \/ HandleLocalAddr
    BY <2>3, <2>7
    DEF DeviceAnswers, Respond, HandleHoleSent, HandleLocalAddr, rotationVars, counterVars
  <2>8. CASE \/ AlwaysUseRelay \/ ListsMove \/ UNCHANGED vars
             \/ \E d \in Ip \cup {"unknown", "offline"} : Registered(d)
    BY <2>3, <2>8
    DEF AlwaysUseRelay, ListsMove, Accept, Replace, Registered, vars, rotationVars, counterVars
  <2>. QED BY <2>4, <2>5, <2>6, <2>7, <2>8 DEF Next
<1>. QED BY <1>1, <1>2, Inductive, PTL DEF Spec

\* Whoever draws, on whichever clone of the list: until another list is used
\* or the counter wraps, no server is named two times more than another.
THEOREM BalanceCorrect == Spec => []Balanced
<1>1. TypeOK /\ RotInv => Balanced
  <2>. SUFFICES ASSUME TypeOK, RotInv, NEW s \in ToSet(lastList), NEW t \in ToSet(lastList)
                PROVE  given[s] <= given[t] + 1
    BY DEF Balanced
  <2>1. PICK i, j \in 1..Len(lastList) : s = lastList[i] /\ t = lastList[j]
    BY DEF ToSet
  <2>2. lastList # <<>>
    BY <2>1
  <2>3. PICK q \in Nat : \A k \in 1..Len(lastList) : given[lastList[k]] \in {q, q + 1}
    BY <2>2 DEF RotInv
  <2>. QED BY <2>1, <2>3
<1>. QED BY <1>1, Inductive, RotInvCorrect, PTL
=============================================================================
