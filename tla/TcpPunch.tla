------------------------------- MODULE TcpPunch -------------------------------
(***************************************************************************)
(* hbbs: requests over TCP and websocket (src/src/rendezvous_server.rs).   *)
(* The write half of a connection, its sink, is a local of the task that   *)
(* serves it until the client asks for a peer: then the sink waits in      *)
(* tcp_punch under the client's address, and whichever task brings the     *)
(* peer's answer takes it out.  The sink of a device that registers over   *)
(* websocket waits in ws_map for the next punch hole request.              *)
(*                                                                         *)
(* The task reads on meanwhile; when it leaves its loop the read half is   *)
(* dropped, and only then, under the lock, the entry of its address.  Two  *)
(* connections have the same address when one follows the other, or when   *)
(* both come through a reverse proxy ("ip:0").                             *)
(*                                                                         *)
(* A connection identity stands for one connection.  Which peer is asked   *)
(* for and what is answered is left out; that a device has been told of a  *)
(* request, and whose request an answer is about, is kept.  Answers over   *)
(* UDP never come this way.                                                *)
(***************************************************************************)
EXTENDS Naturals, FiniteSets

CONSTANTS Conn, NoConn,
          Key, KeyOf,  \* the address a connection is known by
          UdpKey,      \* the address of a device that registered over UDP
          Ws,          \* websocket connections
          Proxied,     \* those of them known by a proxy's header
          Secure       \* TCP connections whose client exchanges keys

ASSUME PunchAssumption ==
  /\ NoConn \notin Conn
  /\ UdpKey \notin Key
  /\ KeyOf \in [Conn -> Key]
  /\ Proxied \subseteq Ws /\ Ws \subseteq Conn
  /\ Secure \subseteq Conn \ Ws
  \* "ip:0" is nobody's own address.
  /\ \A c \in Proxied, d \in Conn \ Proxied : KeyOf[c] # KeyOf[d]

VARIABLES
  stage,      \* where the task of a connection is
  own,        \* connections whose task still has the sink
  secured,    \* connections whose sink carries the symmetric key
  tcp_punch,  \* address -> the connection whose sink waits for an answer
  ws_map,     \* address -> the device whose sink waits for a request
  asked,      \* connections whose request a device knows of
  got         \* history: whose answer a connection was sent

vars == <<stage, own, secured, tcp_punch, ws_map, asked, got>>

\* "punch", "relay": within handle_tcp; "exiting": past the read loop.
Stage == {"new", "read", "punch", "relay", "exiting", "closed"}
Reading == {"read", "punch", "relay"}

Init ==
  /\ stage = [c \in Conn |-> "new"]
  /\ own = {}
  /\ secured = {}
  /\ tcp_punch = [k \in Key |-> NoConn]
  /\ ws_map = [k \in Key |-> NoConn]
  /\ asked = {}
  /\ got = [c \in Conn |-> NoConn]

\* The server holds a half of the socket.
Open(c) == stage[c] \in Reading \/ c \in own \/ tcp_punch[KeyOf[c]] = c
           \/ ws_map[KeyOf[c]] = c

\* The key that decrypts messages is looked for in the sink.
Decrypts(c) == c \in secured => c \in own

\* The task reads a message it can make sense of.
Hears(c) == stage[c] = "read" /\ Decrypts(c)

Goto(c, s) == stage' = [stage EXCEPT ![c] = s]

-----------------------------------------------------------------------------
(* handle_listener_inner *)

\* An address of one's own is free again when the server has closed its socket.
Accept(c) ==
  /\ stage[c] = "new"
  /\ c \notin Proxied =>
       \A d \in Conn \ {c} : KeyOf[d] = KeyOf[c] => ~Open(d)
  /\ Goto(c, "read")
  /\ own' = own \cup {c}
  /\ UNCHANGED <<secured, tcp_punch, ws_map, asked, got>>

\* KeyExchange: the sink encrypts from now on.
KeyExchange(c) ==
  /\ Hears(c) /\ c \in Secure /\ c \in own
  /\ secured' = secured \cup {c}
  /\ UNCHANGED <<stage, own, tcp_punch, ws_map, asked, got>>

\* The client hangs up or is silent for 30 s.
Quit(c) ==
  /\ stage[c] = "read"
  /\ Goto(c, "exiting")
  /\ UNCHANGED <<own, secured, tcp_punch, ws_map, asked, got>>

\* A message that is answered, if at all, and ends the loop: RegisterPeer,
\* TestNatRequest, OnlineRequest, a RegisterPk that fails.
OneShot(c) ==
  /\ Hears(c)
  /\ Goto(c, "exiting")
  /\ UNCHANGED <<own, secured, tcp_punch, ws_map, asked, got>>

\* The sink is gone, and with it the key: the message is taken for plain text
\* and ends the loop.
Undecrypted(c) ==
  /\ stage[c] = "read" /\ ~Decrypts(c)
  /\ Goto(c, "exiting")
  /\ UNCHANGED <<own, secured, tcp_punch, ws_map, asked, got>>

\* Mutant: the entry is left behind.
LeaveKeeps(c) ==
  /\ stage[c] = "exiting"
  /\ Goto(c, "closed")
  /\ own' = own \ {c}
  /\ UNCHANGED <<secured, tcp_punch, ws_map, asked, got>>

\* if sink.is_none() { tcp_punch.remove(addr) }
Leave(c) ==
  /\ stage[c] = "exiting"
  /\ Goto(c, "closed")
  /\ own' = own \ {c}
  /\ tcp_punch' = IF c \in own THEN tcp_punch
                  ELSE [tcp_punch EXCEPT ![KeyOf[c]] = NoConn]
  /\ UNCHANGED <<secured, ws_map, asked, got>>

-----------------------------------------------------------------------------
(* handle_tcp: PunchHoleRequest, RequestRelay. *)

\* The sink, if the task still has it, goes into tcp_punch; one that waits there
\* is dropped.
Attempt(c) ==
  /\ Hears(c)
  /\ \/ Goto(c, "punch")
     \/ Goto(c, "relay")
  /\ own' = own \ {c}
  /\ tcp_punch' = IF c \in own THEN [tcp_punch EXCEPT ![KeyOf[c]] = c]
                  ELSE tcp_punch
  /\ UNCHANGED <<secured, ws_map, asked, got>>

\* Mutant: whatever sink is at hand.
WaiterAny(k) ==
  IF \E j \in Key : tcp_punch[j] # NoConn
  THEN tcp_punch[CHOOSE j \in Key : tcp_punch[j] # NoConn] ELSE NoConn

Waiter(k) == tcp_punch[k]

\* send_to_tcp, send_to_tcp_sync: the answer to c's request goes to the sink
\* that waits under c's address, if there is one, and the sink is dropped.
Deliver(c) ==
  LET x == Waiter(KeyOf[c]) IN
  /\ tcp_punch' = [k \in Key |-> IF tcp_punch[k] = x THEN NoConn ELSE tcp_punch[k]]
  /\ got' = [d \in Conn |-> IF d = x THEN c ELSE got[d]]

\* handle_punch_hole_request answers at once: no such peer, offline, no licence.
Refuse(c) ==
  /\ stage[c] = "punch"
  /\ Goto(c, "read")
  /\ Deliver(c)
  /\ UNCHANGED <<own, secured, ws_map, asked>>

\* Mutant: the request is passed on, and the sink forgotten.
ForwardForgets(c, k) ==
  /\ stage[c] = "punch"
  /\ Goto(c, "read")
  /\ asked' = asked \cup {c}
  /\ tcp_punch' = [tcp_punch EXCEPT ![KeyOf[c]] = NoConn]
  /\ UNCHANGED <<own, secured, ws_map, got>>

\* The peer's address is k: its sink in ws_map is used up, or a datagram sent,
\* which only reaches a device that registered over UDP.
Forward(c, k) ==
  /\ stage[c] = "punch"
  /\ Goto(c, "read")
  /\ \/ /\ k # UdpKey /\ ws_map[k] # NoConn
        /\ ws_map' = [ws_map EXCEPT ![k] = NoConn]
        /\ asked' = asked \cup {c}
     \/ /\ k # UdpKey /\ ws_map[k] = NoConn
        /\ UNCHANGED <<ws_map, asked>>
     \/ /\ k = UdpKey
        /\ asked' = asked \cup {c}
        /\ UNCHANGED ws_map
  /\ UNCHANGED <<own, secured, tcp_punch, got>>

\* A relay request is passed on as a datagram, to a peer in memory.
ForwardRelay(c) ==
  /\ stage[c] = "relay"
  /\ Goto(c, "read")
  /\ asked' \in {asked, asked \cup {c}}
  /\ UNCHANGED <<own, secured, tcp_punch, ws_map, got>>

-----------------------------------------------------------------------------
(* handle_tcp: messages of a device. *)

\* PunchHoleSent, LocalAddr, RelayResponse: connection d brings the answer to
\* c's request, and is done.
Answer(d, c) ==
  /\ Hears(d) /\ d # c /\ c \in asked
  /\ Goto(d, "exiting")
  /\ Deliver(c)
  /\ UNCHANGED <<own, secured, ws_map, asked>>

\* RegisterPk over websocket: the sink goes into ws_map.
RegisterWs(c) ==
  /\ Hears(c) /\ c \in Ws /\ c \in own
  /\ own' = own \ {c}
  /\ ws_map' = [ws_map EXCEPT ![KeyOf[c]] = c]
  /\ UNCHANGED <<stage, secured, tcp_punch, asked, got>>

-----------------------------------------------------------------------------
Next ==
  \E c \in Conn :
    \/ Accept(c) \/ KeyExchange(c) \/ Quit(c) \/ OneShot(c) \/ Undecrypted(c)
    \/ Leave(c)
    \/ Attempt(c) \/ Refuse(c) \/ ForwardRelay(c)
    \/ \E k \in Key \cup {UdpKey} : Forward(c, k)
    \/ \E d \in Conn : Answer(d, c)
    \/ RegisterWs(c)

Spec == Init /\ [][Next]_vars

-----------------------------------------------------------------------------
(* Properties. *)

\* Types; a sink is in one place.
TypeOK ==
  /\ stage \in [Conn -> Stage]
  /\ own \subseteq Conn /\ secured \subseteq Secure
  /\ tcp_punch \in [Key -> Conn \cup {NoConn}]
  /\ ws_map \in [Key -> Conn \cup {NoConn}]
  /\ asked \subseteq Conn
  /\ got \in [Conn -> Conn \cup {NoConn}]
  /\ \A c \in own : tcp_punch[KeyOf[c]] # c /\ ws_map[KeyOf[c]] # c

\* tcp_punch has no sinks left over: whose sink waits there has a task that
\* will remove it, and it waits under its own address.
WaitersHaveTasks ==
  \A k \in Key : tcp_punch[k] # NoConn =>
    /\ KeyOf[tcp_punch[k]] = k
    /\ stage[tcp_punch[k]] \in Reading \cup {"exiting"}

\* An answer reaches the connection that asked, or one that has the same
\* address: through the same proxy, or after the other was over.
AnswersGoHome ==
  \A x \in Conn : got[x] # NoConn /\ got[x] # x =>
    /\ KeyOf[got[x]] = KeyOf[x]
    /\ x \in Proxied \/ stage[got[x]] \in {"exiting", "closed"}

\* A client that waits is forgotten only with an answer or at its own end, or
\* because of another connection with its address: one through the same proxy,
\* or the task of an earlier one that is still about to clean up.
WaitersStay ==
  [][\A c \in Conn : tcp_punch[KeyOf[c]] = c /\ tcp_punch'[KeyOf[c]] # c =>
       \/ got'[c] # NoConn
       \/ Leave(c)
       \/ \E d \in Conn \ {c} :
            /\ KeyOf[d] = KeyOf[c]
            /\ stage[d] = "exiting" \/ (d \in Proxied /\ stage[d] \in Reading)]_vars
=============================================================================
