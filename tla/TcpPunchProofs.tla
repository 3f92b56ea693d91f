---------------------------- MODULE TcpPunchProofs ----------------------------
(***************************************************************************)
(* TcpPunch, for any number of connections and addresses: sinks that wait  *)
(* in tcp_punch have tasks, and answers reach the connection that asked or *)
(* a successor of its address.                                             *)
(*                                                                         *)
(* The second rests on what accept(2) guarantees: two connections of one   *)
(* address, no proxy between, are never open at the same time.             *)
(***************************************************************************)
EXTENDS TcpPunch, TLAPS

\* A sink in ws_map waits under its own address; a task that has its sink, or
\* has made a request, was started.
Started ==
  /\ \A k \in Key : ws_map[k] # NoConn =>
       KeyOf[ws_map[k]] = k /\ stage[ws_map[k]] # "new"
  /\ \A c \in own : stage[c] \in Reading \cup {"exiting"}
  /\ \A c \in asked : stage[c] # "new"

PlaceInv == TypeOK /\ WaitersHaveTasks /\ Started

\* An address of one's own serves one connection at a time.
OneOpen ==
  \A c, d \in Conn \ Proxied :
    c # d /\ KeyOf[c] = KeyOf[d] => ~(Open(c) /\ Open(d))

FullInv == PlaceInv /\ OneOpen /\ AnswersGoHome

-----------------------------------------------------------------------------
\* Types, and where sinks are.
LEMMA TypeStep ==
  ASSUME PlaceInv, [Next]_vars
  PROVE  TypeOK'
<1>. USE PunchAssumption DEF PlaceInv, TypeOK, WaitersHaveTasks, Started, Stage,
         Reading, Goto, Hears
<1>1. ASSUME NEW c \in Conn, Accept(c) PROVE TypeOK'
  BY <1>1 DEF Accept
<1>2. ASSUME NEW c \in Conn,
             KeyExchange(c) \/ Quit(c) \/ OneShot(c) \/ Undecrypted(c)
      PROVE  TypeOK'
  BY <1>2 DEF KeyExchange, Quit, OneShot, Undecrypted
<1>3. ASSUME NEW c \in Conn, Leave(c) PROVE TypeOK'
  BY <1>3 DEF Leave
<1>4. ASSUME NEW c \in Conn, Attempt(c) PROVE TypeOK'
  BY <1>4 DEF Attempt
<1>5. ASSUME NEW c \in Conn, Refuse(c) PROVE TypeOK'
  BY <1>5 DEF Refuse, Deliver, Waiter
<1>6. ASSUME NEW c \in Conn, ForwardRelay(c) PROVE TypeOK'
  BY <1>6 DEF ForwardRelay
<1>7. ASSUME NEW c \in Conn, NEW k \in Key \cup {UdpKey}, Forward(c, k) PROVE TypeOK'
  BY <1>7 DEF Forward
<1>8. ASSUME NEW c \in Conn, NEW d \in Conn, Answer(d, c) PROVE TypeOK'
  BY <1>8 DEF Answer, Deliver, Waiter
<1>9. ASSUME NEW c \in Conn, RegisterWs(c) PROVE TypeOK'
  BY <1>9 DEF RegisterWs
<1>10. CASE UNCHANGED vars
  BY <1>10 DEF vars
<1>. QED
  BY <1>1, <1>2, <1>3, <1>4, <1>5, <1>6, <1>7, <1>8, <1>9, <1>10 DEF Next

\* Who waits in tcp_punch has a task.
LEMMA WaitStep ==
  ASSUME PlaceInv, [Next]_vars
  PROVE  WaitersHaveTasks'
<1>. USE PunchAssumption DEF PlaceInv, TypeOK, WaitersHaveTasks, Started, Stage,
         Reading, Goto, Hears
<1>1. ASSUME NEW c \in Conn, Accept(c) PROVE WaitersHaveTasks'
  BY <1>1 DEF Accept
<1>2. ASSUME NEW c \in Conn,
             KeyExchange(c) \/ Quit(c) \/ OneShot(c) \/ Undecrypted(c)
      PROVE  WaitersHaveTasks'
  BY <1>2 DEF KeyExchange, Quit, OneShot, Undecrypted
<1>3. ASSUME NEW c \in Conn, Leave(c) PROVE WaitersHaveTasks'
  BY <1>3 DEF Leave
<1>4. ASSUME NEW c \in Conn, Attempt(c) PROVE WaitersHaveTasks'
  BY <1>4 DEF Attempt
<1>5. ASSUME NEW c \in Conn, Refuse(c) PROVE WaitersHaveTasks'
  BY <1>5 DEF Refuse, Deliver, Waiter
<1>6. ASSUME NEW c \in Conn, ForwardRelay(c) PROVE WaitersHaveTasks'
  BY <1>6 DEF ForwardRelay
<1>7. ASSUME NEW c \in Conn, NEW k \in Key \cup {UdpKey}, Forward(c, k)
      PROVE  WaitersHaveTasks'
  BY <1>7 DEF Forward
<1>8. ASSUME NEW c \in Conn, NEW d \in Conn, Answer(d, c) PROVE WaitersHaveTasks'
  BY <1>8 DEF Answer, Deliver, Waiter
<1>9. ASSUME NEW c \in Conn, RegisterWs(c) PROVE WaitersHaveTasks'
  BY <1>9 DEF RegisterWs
<1>10. CASE UNCHANGED vars
  BY <1>10 DEF vars
<1>. QED
  BY <1>1, <1>2, <1>3, <1>4, <1>5, <1>6, <1>7, <1>8, <1>9, <1>10 DEF Next

\* What has a sink or a request was started.
LEMMA StartedStep ==
  ASSUME PlaceInv, [Next]_vars
  PROVE  Started'
<1>. USE PunchAssumption DEF PlaceInv, TypeOK, WaitersHaveTasks, Started, Stage,
         Reading, Goto, Hears
<1>1. ASSUME NEW c \in Conn, Accept(c) PROVE Started'
  BY <1>1 DEF Accept
<1>2. ASSUME NEW c \in Conn,
             KeyExchange(c) \/ Quit(c) \/ OneShot(c) \/ Undecrypted(c)
      PROVE  Started'
  BY <1>2 DEF KeyExchange, Quit, OneShot, Undecrypted
<1>3. ASSUME NEW c \in Conn, Leave(c) \/ Attempt(c) PROVE Started'
  BY <1>3 DEF Leave, Attempt
<1>4. ASSUME NEW c \in Conn, Refuse(c) \/ ForwardRelay(c) PROVE Started'
  BY <1>4 DEF Refuse, Deliver, ForwardRelay
<1>5. ASSUME NEW c \in Conn, NEW k \in Key \cup {UdpKey}, Forward(c, k) PROVE Started'
  BY <1>5 DEF Forward
<1>6. ASSUME NEW c \in Conn, NEW d \in Conn, Answer(d, c) PROVE Started'
  BY <1>6 DEF Answer, Deliver
<1>7. ASSUME NEW c \in Conn, RegisterWs(c) PROVE Started'
  BY <1>7 DEF RegisterWs
<1>8. CASE UNCHANGED vars
  BY <1>8 DEF vars
<1>. QED
  BY <1>1, <1>2, <1>3, <1>4, <1>5, <1>6, <1>7, <1>8 DEF Next

\* The invariant holds at the start...
LEMMA PlaceInit == Init => PlaceInv
BY PunchAssumption DEF Init, PlaceInv, TypeOK, WaitersHaveTasks, Started, Stage

\* ... and always.
LEMMA PlaceCorrect == Spec => []PlaceInv
<1>1. PlaceInv /\ [Next]_vars => PlaceInv'
  BY TypeStep, WaitStep, StartedStep DEF PlaceInv
<1>. QED BY <1>1, PlaceInit, PTL DEF Spec

\* Type correctness.
THEOREM TypeCorrect == Spec => []TypeOK
<1>1. PlaceInv => TypeOK
  BY DEF PlaceInv
<1>. QED BY <1>1, PlaceCorrect, PTL

\* tcp_punch has no sinks left over.
THEOREM WaitersCorrect == Spec => []WaitersHaveTasks
<1>1. PlaceInv => WaitersHaveTasks
  BY DEF PlaceInv
<1>. QED BY <1>1, PlaceCorrect, PTL

-----------------------------------------------------------------------------
\* Only accept opens a connection.
LEMMA OnlyAcceptOpens ==
  ASSUME PlaceInv, [Next]_vars, NEW d \in Conn, Open(d)', ~Open(d)
  PROVE  Accept(d)
<1>. USE PunchAssumption DEF PlaceInv, TypeOK, Open, Stage, Reading, Goto, Hears
<1>1. ASSUME NEW c \in Conn, c # d, Accept(c) PROVE FALSE
  BY <1>1 DEF Accept
<1>2. ASSUME NEW c \in Conn,
             KeyExchange(c) \/ Quit(c) \/ OneShot(c) \/ Undecrypted(c)
      PROVE  FALSE
  BY <1>2 DEF KeyExchange, Quit, OneShot, Undecrypted
<1>3. ASSUME NEW c \in Conn, Leave(c) \/ Attempt(c) PROVE FALSE
  BY <1>3 DEF Leave, Attempt
<1>4. ASSUME NEW c \in Conn, Refuse(c) \/ ForwardRelay(c) PROVE FALSE
  BY <1>4 DEF Refuse, Deliver, ForwardRelay
<1>5. ASSUME NEW c \in Conn, NEW k \in Key \cup {UdpKey}, Forward(c, k) PROVE FALSE
  BY <1>5 DEF Forward
<1>6. ASSUME NEW c \in Conn, NEW e \in Conn, Answer(e, c) PROVE FALSE
  BY <1>6 DEF Answer, Deliver
<1>7. ASSUME NEW c \in Conn, RegisterWs(c) PROVE FALSE
  BY <1>7 DEF RegisterWs
<1>8. CASE UNCHANGED vars
  BY <1>8 DEF vars
<1>. QED
  BY <1>1, <1>2, <1>3, <1>4, <1>5, <1>6, <1>7, <1>8 DEF Next

\* Two connections of one address are not open together.
LEMMA OneOpenStep ==
  ASSUME PlaceInv, OneOpen, [Next]_vars
  PROVE  OneOpen'
<1>. SUFFICES ASSUME NEW c \in Conn \ Proxied, NEW d \in Conn \ Proxied,
                     c # d, KeyOf[c] = KeyOf[d], Open(c)', Open(d)'
              PROVE  FALSE
  BY DEF OneOpen
<1>1. ~(Open(c) /\ Open(d))
  BY DEF OneOpen
<1>2. ASSUME NEW e \in Conn \ Proxied, NEW f \in Conn \ Proxied, e # f,
             KeyOf[e] = KeyOf[f], Accept(e), Open(f)'
      PROVE  FALSE
  <2>1. ~Open(f)
    BY <1>2 DEF Accept
  <2>2. stage'[f] = stage[f] /\ (f \in own' <=> f \in own)
    BY <1>2 DEF Accept, Goto, PlaceInv, TypeOK
  <2>. QED BY <1>2, <2>1, <2>2 DEF Accept, Open
<1>3. CASE ~Open(c)
  BY <1>2, <1>3, OnlyAcceptOpens
<1>4. CASE ~Open(d)
  BY <1>2, <1>4, OnlyAcceptOpens
<1>. QED BY <1>1, <1>3, <1>4

\* Nobody's task goes back from its end.
LEMMA OverIsOver ==
  ASSUME PlaceInv, [Next]_vars, NEW d \in Conn, stage[d] \in {"exiting", "closed"}
  PROVE  stage'[d] \in {"exiting", "closed"}
BY DEF PlaceInv, TypeOK, Next, vars, Accept, KeyExchange, Quit, OneShot, Undecrypted,
       Leave, Attempt, Refuse, Forward, ForwardRelay, Answer, RegisterWs,
       Goto, Hears, Stage

\* What a delivery does: the answer to c's request.
LEMMA DeliverGoesHome ==
  ASSUME FullInv, NEW c \in Conn, Deliver(c), stage[c] # "new"
  PROVE  \A x \in Conn : got'[x] # got[x] =>
           /\ got'[x] = c
           /\ KeyOf[c] = KeyOf[x]
           /\ x = c \/ x \in Proxied \/ stage[c] \in {"exiting", "closed"}
<1>. SUFFICES ASSUME NEW x \in Conn, got'[x] # got[x]
              PROVE  /\ got'[x] = c
                     /\ KeyOf[c] = KeyOf[x]
                     /\ x = c \/ x \in Proxied \/ stage[c] \in {"exiting", "closed"}
  OBVIOUS
<1>. USE PunchAssumption DEF FullInv, PlaceInv, TypeOK
<1>1. got'[x] = c /\ x = tcp_punch[KeyOf[c]]
  BY DEF Deliver, Waiter
<1>2. KeyOf[x] = KeyOf[c]
  BY <1>1 DEF WaitersHaveTasks
<1>3. Open(x)
  BY <1>1, <1>2 DEF Open
<1>4. ASSUME x # c, x \notin Proxied PROVE ~Open(c)
  <2>1. c \notin Proxied
    BY <1>2, <1>4
  <2>. QED BY <1>2, <1>3, <1>4, <2>1 DEF OneOpen
<1>. QED BY <1>1, <1>2, <1>4 DEF Open, Reading, Stage

\* Answers go home.
LEMMA HomeStep ==
  ASSUME FullInv, [Next]_vars
  PROVE  AnswersGoHome'
<1>. SUFFICES ASSUME NEW x \in Conn, got'[x] # NoConn, got'[x] # x
              PROVE  /\ KeyOf[got'[x]] = KeyOf[x]
                     /\ x \in Proxied \/ stage'[got'[x]] \in {"exiting", "closed"}
  BY DEF AnswersGoHome
<1>1. CASE got'[x] = got[x]
  <2>1. got[x] \in Conn
    BY <1>1 DEF FullInv, PlaceInv, TypeOK
  <2>. QED BY <1>1, <2>1, OverIsOver DEF FullInv, AnswersGoHome
<1>2. CASE got'[x] # got[x]
  <2>1. PICK c \in Conn : Deliver(c) /\ stage[c] # "new"
    <3>1. \/ \E c \in Conn : Refuse(c)
          \/ \E c, d \in Conn : Answer(d, c)
      BY <1>2 DEF Next, vars, Accept, KeyExchange, Quit, OneShot, Undecrypted, Leave,
                  Attempt, Forward, ForwardRelay, RegisterWs
    <3>. QED BY <3>1 DEF Refuse, Answer, FullInv, PlaceInv, Started
  <2>2. got'[x] = c /\ KeyOf[c] = KeyOf[x]
    BY <1>2, <2>1, DeliverGoesHome
  <2>3. x \in Proxied \/ stage[c] \in {"exiting", "closed"}
    BY <1>2, <2>1, <2>2, DeliverGoesHome
  <2>. QED BY <2>2, <2>3, OverIsOver DEF FullInv
<1>. QED BY <1>1, <1>2

\* The invariant the two theorems below rest on.
LEMMA FullCorrect == Spec => []FullInv
<1>1. Init => FullInv
  <2>1. Init => PlaceInv
    BY PlaceInit
  <2>2. Init => OneOpen /\ AnswersGoHome
    BY PunchAssumption DEF Init, OneOpen, Open, Reading, AnswersGoHome
  <2>. QED BY <2>1, <2>2 DEF FullInv
<1>2. FullInv /\ [Next]_vars => FullInv'
  BY TypeStep, WaitStep, StartedStep, OneOpenStep, HomeStep DEF FullInv, PlaceInv
<1>. QED BY <1>1, <1>2, PTL DEF Spec

\* An answer reaches the connection that asked, or one with its address: of the
\* same proxy, or of a client that has come back.
THEOREM AnswersCorrect == Spec => []AnswersGoHome
<1>1. FullInv => AnswersGoHome
  BY DEF FullInv
<1>. QED BY <1>1, FullCorrect, PTL

\* What can take a sink out of tcp_punch.
LEMMA WaiterLost ==
  ASSUME FullInv, [Next]_vars, NEW c \in Conn,
         tcp_punch[KeyOf[c]] = c, tcp_punch'[KeyOf[c]] # c
  PROVE  \/ got'[c] # NoConn
         \/ Leave(c)
         \/ \E d \in Conn \ {c} :
              /\ KeyOf[d] = KeyOf[c]
              /\ stage[d] = "exiting" \/ (d \in Proxied /\ stage[d] \in Reading)
<1>. USE PunchAssumption DEF FullInv, PlaceInv, TypeOK
<1>1. ASSUME NEW d \in Conn, Leave(d)
      PROVE  d = c \/ (KeyOf[d] = KeyOf[c] /\ stage[d] = "exiting")
  BY <1>1 DEF Leave
<1>2. ASSUME NEW d \in Conn, Attempt(d)
      PROVE  d # c /\ KeyOf[d] = KeyOf[c] /\ d \in Proxied /\ stage[d] \in Reading
  <2>1. d # c /\ KeyOf[d] = KeyOf[c] /\ stage[d] \in Reading
    BY <1>2 DEF Attempt, Hears, Reading
  <2>2. Open(c) /\ Open(d)
    BY <2>1 DEF Open
  <2>3. d \in Proxied
    BY <2>1, <2>2 DEF OneOpen
  <2>. QED BY <2>1, <2>3
<1>3. ASSUME NEW d \in Conn, Deliver(d) PROVE got'[c] # NoConn
  BY <1>3 DEF Deliver, Waiter
<1>4. \/ \E d \in Conn : Leave(d) \/ Attempt(d) \/ Refuse(d)
      \/ \E d, e \in Conn : Answer(e, d)
  BY DEF Next, vars, Accept, KeyExchange, Quit, OneShot, Undecrypted, Forward,
         ForwardRelay, RegisterWs
<1>. QED BY <1>1, <1>2, <1>3, <1>4 DEF Refuse, Answer

\* A client that waits is not forgotten: action property of every behaviour.
THEOREM WaitersStayCorrect == Spec => WaitersStay
<1>1. FullInv /\ [Next]_vars =>
        [\A c \in Conn : tcp_punch[KeyOf[c]] = c /\ tcp_punch'[KeyOf[c]] # c =>
           \/ got'[c] # NoConn
           \/ Leave(c)
           \/ \E d \in Conn \ {c} :
                /\ KeyOf[d] = KeyOf[c]
                /\ stage[d] = "exiting" \/ (d \in Proxied /\ stage[d] \in Reading)]_vars
  BY WaiterLost
<1>. QED BY <1>1, FullCorrect, PTL DEF Spec, WaitersStay
=============================================================================
