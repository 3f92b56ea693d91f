------------------------------ MODULE PunchHole ------------------------------
(***************************************************************************)
(* hbbs: a client asks for a device and the two are told where to meet     *)
(* (handle_punch_hole_request, handle_hole_sent, handle_local_addr,        *)
(* RelayResponse in handle_tcp, is_lan; src/src/rendezvous_server.rs).     *)
(*                                                                         *)
(* call is one attempt: the message on its way and what its ends know.     *)
(* Relay servers are named three times for one call, by tasks that work    *)
(* on different clones of the list: in the request's handler, and in the   *)
(* handler of the device's answer, which may change the name.  An answer   *)
(* may never come; which connection carries it is TcpPunch's.              *)
(***************************************************************************)
EXTENDS RelayRotation

CONSTANTS Ip,
          Lan,        \* the addresses --mask contains; {} without a mask
          LocalIp,    \* --local-ip: the name of this machine within the LAN
          HereNames,  \* the servers of the lists that are this machine
          AskConn,    \* the connection a client asks on
          AnswerConn, \* the connection the device answers on
          NoIp

ASSUME PunchHoleAssumption ==
  /\ Lan \subseteq Ip /\ NoIp \notin Ip
  /\ LocalIp \notin Server \cup {NoServer}
  /\ HereNames \subseteq Server
  /\ AskConn \in Conn /\ AnswerConn \in Conn

VARIABLES
  always,     \* ALWAYS_USE_RELAY
  device,     \* what the registry has of the device: its address,
              \* "unknown" or "offline"
  call

vars == <<rotationVars, always, device, call>>

Name == Server \cup {NoServer, LocalIp}
Refusal == {"LICENSE_MISMATCH", "login", "ID_NOT_EXIST", "OFFLINE"}
ToDevice == {"FetchLocalAddr", "PunchHole"}
FromDevice == {"PunchHoleSent", "LocalAddr", "RelayResponse"}
Told == {"punched", "local", "relayed"}

Call == [msg : {"none"} \cup Refusal \cup ToDevice \cup FromDevice \cup Told,
         relay : Name,            \* the relay_server of the message
         from : Ip \cup {NoIp},   \* the client's address
         at : Ip \cup {NoIp},     \* the device's, as the server knows it
         forced : BOOLEAN,        \* the nat_type of PunchHole is SYMMETRIC
         always : BOOLEAN,        \* ALWAYS_USE_RELAY when the client asked
         deviceRelay : Name]      \* where the device went

NoCall == [msg |-> "none", relay |-> NoServer, from |-> NoIp, at |-> NoIp,
           forced |-> FALSE, always |-> FALSE, deviceRelay |-> NoServer]

Init ==
  /\ RotationInit
  /\ always \in BOOLEAN
  /\ device = "unknown"
  /\ call = NoCall

-----------------------------------------------------------------------------
(* handle_punch_hole_request *)

IsLan(ip) == ip \in Lan

\* Mutant: always-use-relay alone counts.
ForcedByOperator(from, at) == always

Forced(from, at) == always \/ (IsLan(from) # IsLan(at))
SameIntranet(from, at, ws) == ~ws /\ ((IsLan(from) /\ IsLan(at)) \/ from = at)

Refuse(why) ==
  /\ call' = [NoCall EXCEPT !.msg = why]
  /\ UNCHANGED <<rotationVars, always, device>>

\* The name is drawn from the list l before it is known to be needed.
Ask(from, ws, l) ==
  /\ device \in Ip
  /\ GetRelayServer(l)
  /\ call' = [msg |-> IF SameIntranet(from, device, ws) THEN "FetchLocalAddr"
                                                        ELSE "PunchHole",
              relay |-> IF Forced(from, device) /\ IsLan(device) THEN LocalIp
                                                                 ELSE Picked(l),
              from |-> from, at |-> device, forced |-> Forced(from, device),
              always |-> always, deviceRelay |-> NoServer]
  /\ UNCHANGED <<listVars, always, device>>

Request ==
  \/ Refuse("LICENSE_MISMATCH") \/ Refuse("login")
  \/ device = "unknown" /\ Refuse("ID_NOT_EXIST")
  \/ device = "offline" /\ Refuse("OFFLINE")
  \/ \E from \in Ip :
       \/ Ask(from, FALSE, relay_servers)                        \* over UDP
       \/ \E ws \in BOOLEAN : Ask(from, ws, snap[AskConn])

-----------------------------------------------------------------------------
(* The device.  It relays when it is told to, or cannot do otherwise. *)

Respond(msg, went) ==
  /\ call' = [call EXCEPT !.msg = msg, !.deviceRelay = went]
  /\ UNCHANGED <<rotationVars, always, device>>

DeviceAnswers ==
  \/ call.msg = "FetchLocalAddr" /\ Respond("LocalAddr", NoServer)
  \/ call.msg = "PunchHole" /\ ~call.forced /\ Respond("PunchHoleSent", NoServer)
  \/ call.msg \in ToDevice /\ Respond("RelayResponse", call.relay)

-----------------------------------------------------------------------------
(* The answer passes through the server. *)

Tell(msg, relay) == call' = [call EXCEPT !.msg = msg, !.relay = relay]

HandleHoleSent ==
  /\ call.msg = "PunchHoleSent"
  /\ Tell("punched", call.relay)
  /\ UNCHANGED <<rotationVars, always, device>>

HandleLocalAddr ==
  /\ call.msg = "LocalAddr"
  /\ Tell("local", call.relay)
  /\ UNCHANGED <<rotationVars, always, device>>

\* Mutant: a new name is drawn for everybody.
DrawAgain == /\ GetRelayServer(snap[AnswerConn])
             /\ Tell("relayed", IF IsLan(call.from) THEN LocalIp
                                                    ELSE Picked(snap[AnswerConn]))
             /\ UNCHANGED listVars

\* The name of this machine depends on the side of the LAN one is on.
Rename ==
  \/ /\ call.relay = NoServer \/ (~IsLan(call.from) /\ call.relay # LocalIp)
     /\ Tell("relayed", call.relay)
     /\ UNCHANGED rotationVars
  \/ /\ call.relay # NoServer /\ IsLan(call.from)
     /\ Tell("relayed", LocalIp)
     /\ UNCHANGED rotationVars
  \/ /\ call.relay = LocalIp /\ ~IsLan(call.from)
     /\ GetRelayServer(snap[AnswerConn])
     /\ Tell("relayed", Picked(snap[AnswerConn]))
     /\ UNCHANGED listVars

RelayResponse ==
  /\ call.msg = "RelayResponse"
  /\ Rename
  /\ UNCHANGED <<always, device>>

-----------------------------------------------------------------------------
(* Around a call. *)

\* Registrations, expiry and the device's moves: PeerRegistry's.
Registered(d) ==
  /\ device' = d
  /\ UNCHANGED <<rotationVars, always, call>>

\* always-use-relay
AlwaysUseRelay ==
  /\ always' = ~always
  /\ UNCHANGED <<rotationVars, device, call>>

ListsMove ==
  /\ (\E c \in Conn : Accept(c)) \/ (\E l \in List : Replace(l))
  /\ UNCHANGED <<always, device, call>>

\* test-geo of a connection of the operator.
TestGeo ==
  /\ GetRelayServer(snap[AskConn])
  /\ UNCHANGED <<listVars, always, device, call>>

\* A new attempt; an earlier one has its answer or waits in vain.
Again == call.msg \in {"none"} \cup Refusal \cup Told \cup ToDevice /\ Request

Next ==
  \/ Again \/ DeviceAnswers \/ HandleHoleSent \/ HandleLocalAddr \/ RelayResponse
  \/ AlwaysUseRelay \/ ListsMove \/ TestGeo
  \/ \E d \in Ip \cup {"unknown", "offline"} : Registered(d)

Spec == Init /\ [][Next]_vars

-----------------------------------------------------------------------------
(* Properties. *)

\* Types of the rotation and of a call.
TypeOK ==
  /\ RotationTypeOK
  /\ always \in BOOLEAN
  /\ device \in Ip \cup {"unknown", "offline"}
  /\ call \in Call

Machine(name) == IF name \in HereNames \cup {NoServer, LocalIp} THEN LocalIp ELSE name

\* When a call is relayed both ends go to one relay server, whatever happened
\* to the list and to the counter between the request and the answer.  They
\* part only where one was given the LAN's name of this machine, which stands
\* for any relay server, and the server drawn for the other is elsewhere.
MeetAtOneRelay ==
  call.msg = "relayed" =>
    \/ Machine(call.relay) = Machine(call.deviceRelay)
    \/ LocalIp \in {call.relay, call.deviceRelay}

\* Nobody outside the LAN is sent to the LAN's name of this machine, and two
\* ends on different sides of its border are not told to connect directly,
\* though the client is on one side when the device answers as it likes.
LanBoundary ==
  /\ call.msg \in Told /\ call.relay = LocalIp => IsLan(call.from)
  /\ call.deviceRelay = LocalIp => IsLan(call.at)
  /\ call.msg \in {"punched", "local"} => (IsLan(call.from) <=> IsLan(call.at))

\* ALWAYS_USE_RELAY: "if set to Y disallows direct peer connection"
\* (README-EN.md).
AlwaysRelays ==
  call.msg \in {"punched", "local"} => ~call.always
=============================================================================
