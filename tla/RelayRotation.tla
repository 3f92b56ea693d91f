---------------------------- MODULE RelayRotation ----------------------------
(***************************************************************************)
(* hbbs: get_relay_server (src/src/rendezvous_server.rs) picks from the    *)
(* list in use by a counter all tasks share, ROTATION_RELAY_SERVER.        *)
(*                                                                         *)
(* Every connection works on a clone of the server made when it was        *)
(* accepted: relay_servers is the main loop's list, snap[c] what           *)
(* connection c has of it.  How the list changes is RelayServers'; who     *)
(* asks for a name and what it is used for is PunchHole's, which extends   *)
(* this module by its own state and gives the specification.               *)
(***************************************************************************)
EXTENDS Integers, SequencesExt

CONSTANTS Server,
          NoServer,     \* the empty string
          List,         \* the lists that get into use; no name twice
          Conn,         \* connections, each with its clone of the server
          RotationBits  \* width of the counter; 64 in the code

ASSUME RotationAssumption ==
  /\ NoServer \notin Server
  /\ List \subseteq Seq(Server)
  /\ \A l \in List : \A i, j \in 1..Len(l) : l[i] = l[j] => i = j
  /\ RotationBits \in Nat
  /\ 2^RotationBits \in Nat \ {0}   \* follows, but no prover here knows powers

VARIABLES
  relay_servers,  \* the list in use
  snap,           \* per connection: its clone of relay_servers
  rot,            \* ROTATION_RELAY_SERVER
  given,          \* history: how often a server was named out of lastList,
  lastList        \* since another list was used or the counter wrapped

listVars == <<relay_servers, snap>>
counterVars == <<rot, given, lastList>>
rotationVars == <<relay_servers, snap, rot, given, lastList>>

RotationInit ==
  /\ relay_servers \in List
  /\ snap = [c \in Conn |-> relay_servers]
  /\ rot = 0
  /\ given = [s \in Server |-> 0]
  /\ lastList = <<>>

-----------------------------------------------------------------------------
\* Mutant: the counter is advanced by two.
NextRotTwice(n) == (n + 2) % 2^RotationBits

\* fetch_add
NextRot(n) == (n + 1) % 2^RotationBits

Count(l, s) ==
  /\ lastList' = l
  /\ given' = [t \in Server |->
                 (IF l = lastList /\ rot # 0 THEN given[t] ELSE 0)
                 + (IF s = t THEN 1 ELSE 0)]

\* An empty list names no server, one server needs no counter.
Picked(l) ==
  IF l = <<>> THEN NoServer ELSE IF Len(l) = 1 THEN l[1] ELSE l[(rot % Len(l)) + 1]

GetRelayServer(l) ==
  \/ /\ Len(l) <= 1
     /\ UNCHANGED counterVars
  \/ /\ Len(l) > 1
     /\ rot' = NextRot(rot)
     /\ Count(l, Picked(l))

\* A connection is accepted, or a request over UDP gets a task: self.clone().
Accept(c) ==
  /\ snap' = [snap EXCEPT ![c] = relay_servers]
  /\ UNCHANGED <<relay_servers, counterVars>>

Replace(l) ==
  /\ relay_servers' = l
  /\ UNCHANGED <<snap, counterVars>>

-----------------------------------------------------------------------------
(* Properties. *)

RotationTypeOK ==
  /\ relay_servers \in List /\ snap \in [Conn -> List]
  /\ rot \in 0..(2^RotationBits - 1)
  /\ given \in [Server -> Nat]
  /\ lastList \in List \cup {<<>>}

\* Load is spread: of one list, no server is named two times more often than
\* another, until another list is used or the counter wraps.
Balanced ==
  \A s, t \in ToSet(lastList) : given[s] <= given[t] + 1
=============================================================================
