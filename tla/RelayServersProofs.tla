-------------------------- MODULE RelayServersProofs --------------------------
(***************************************************************************)
(* RelayServers, for any lists, servers and number of overlapping checks:  *)
(* as long as servers are configured there is one to name, and only a      *)
(* check begun before a change of the configuration can bring the list in  *)
(* use out of line with it.                                                *)
(***************************************************************************)
EXTENDS RelayServers, TLAPS

Message == [type : {"RelayServers0", "RelayServers"},
            rs : Seq(Server), of : Seq(Server)]

\* What a message in rx may say.
Sound(m) ==
  /\ m.type = "RelayServers0" => m.rs \in List \cup {<<>>}
  /\ m.type = "RelayServers" => m.rs # <<>> /\ ToSet(m.rs) \subseteq ToSet(m.of)

QueueInv ==
  /\ queue \in Seq(Message)
  /\ \A i \in DOMAIN queue : Sound(queue[i])

CheckInv ==
  /\ check \in [Check -> [of : Seq(Server), todo : SUBSET Nat, rs : Seq(Server)]]
  /\ \A k \in Check :
       /\ check[k].todo \subseteq DOMAIN check[k].of
       /\ ToSet(check[k].rs) \subseteq ToSet(check[k].of)

\* A result in rx names a server, one of the list it was probed from.
ListInv ==
  /\ relay_servers0 \in List \cup {<<>>}
  /\ relay_servers \in Seq(Server)
  /\ QueueInv
  /\ CheckInv
  /\ KeepsSomeServer

-----------------------------------------------------------------------------
\* The empty list has no server, and is one of any servers.
LEMMA EmptyList == <<>> \in Seq(Server) /\ ToSet(<<>>) = {}
BY DEF ToSet

\* The members of a list that got one more.
LEMMA AppendSet ==
  ASSUME NEW S, NEW s \in Seq(S), NEW e \in S
  PROVE  ToSet(Append(s, e)) = ToSet(s) \cup {e}
<1>. DEFINE t == Append(s, e)
<1>1. /\ DOMAIN s = 1..Len(s) /\ DOMAIN t = 1..(Len(s) + 1) /\ Len(s) \in Nat
      /\ t[Len(s) + 1] = e
      /\ \A i \in 1..Len(s) : t[i] = s[i]
  OBVIOUS
<1>2. ASSUME NEW x \in ToSet(t) PROVE x \in ToSet(s) \cup {e}
  <2>1. PICK i \in DOMAIN t : x = t[i]
    BY DEF ToSet
  <2>2. CASE i = Len(s) + 1
    BY <1>1, <2>1, <2>2
  <2>3. CASE i # Len(s) + 1
    <3>1. i \in DOMAIN s /\ x = s[i]
      BY <1>1, <2>1, <2>3
    <3>. QED BY <3>1 DEF ToSet
  <2>. QED BY <2>2, <2>3
<1>3. ASSUME NEW x \in ToSet(s) \cup {e} PROVE x \in ToSet(t)
  <2>1. CASE x = e
    <3>1. Len(s) + 1 \in DOMAIN t
      BY <1>1
    <3>. QED BY <1>1, <2>1, <3>1 DEF ToSet
  <2>2. CASE x \in ToSet(s)
    <3>1. PICK i \in DOMAIN s : x = s[i]
      BY <2>2 DEF ToSet
    <3>2. i \in DOMAIN t /\ x = t[i]
      BY <1>1, <3>1
    <3>. QED BY <3>2 DEF ToSet
  <2>. QED BY <2>1, <2>2
<1>. QED BY <1>2, <1>3

\* What is appended to a sequence with sound entries, and what is left of it.
LEMMA QueueAppend ==
  ASSUME QueueInv, NEW m \in Message, Sound(m), queue' = Append(queue, m)
  PROVE  QueueInv'
<1>1. queue' \in Seq(Message)
  BY DEF QueueInv
<1>2. ASSUME NEW i \in DOMAIN queue' PROVE Sound(queue'[i])
  BY <1>2 DEF QueueInv
<1>3. \A i \in DOMAIN queue' : Sound(queue'[i])
  BY <1>2
<1>. QED BY <1>1, <1>3 DEF QueueInv, Sound

\* Taking the first message.
LEMMA QueueTail ==
  ASSUME QueueInv, queue # <<>>, queue' = Tail(queue)
  PROVE  QueueInv' /\ Head(queue) \in Message /\ Sound(Head(queue))
<1>1. queue' \in Seq(Message) /\ Head(queue) \in Message
  BY DEF QueueInv
<1>2. Head(queue) = queue[1] /\ 1 \in DOMAIN queue
  BY DEF QueueInv
<1>3. ASSUME NEW i \in DOMAIN queue' PROVE Sound(queue'[i])
  <2>1. i + 1 \in DOMAIN queue /\ queue'[i] = queue[i + 1]
    BY <1>3 DEF QueueInv
  <2>. QED BY <2>1 DEF QueueInv
<1>4. \A i \in DOMAIN queue' : Sound(queue'[i])
  BY <1>3
<1>. QED BY <1>1, <1>2, <1>4 DEF QueueInv, Sound

\* An answer adds one server of the list to the answers.
LEMMA ProbeSound ==
  ASSUME CheckInv, NEW k \in Check, NEW i, Probe(k, i)
  PROVE  CheckInv'
<1>. DEFINE r == check[k]
<1>1. r.of[i] \in Server /\ r.of[i] \in ToSet(r.of) /\ i \in DOMAIN r.of
  BY DEF Probe, CheckInv, ToSet
<1>2. r.rs \in Seq(Server) /\ ToSet(r.rs) \subseteq ToSet(r.of)
  BY DEF CheckInv
<1>3. Append(r.rs, r.of[i]) \in Seq(Server)
  BY <1>1, <1>2
<1>4. ToSet(Append(r.rs, r.of[i])) = ToSet(r.rs) \cup {r.of[i]}
  BY <1>1, <1>2, AppendSet
<1>5. /\ check' \in [Check -> [of : Seq(Server), todo : SUBSET Nat, rs : Seq(Server)]]
      /\ check'[k].of = r.of /\ check'[k].todo = r.todo \ {i}
      /\ check'[k].rs = r.rs \/ check'[k].rs = Append(r.rs, r.of[i])
      /\ \A j \in Check \ {k} : check'[j] = check[j]
  BY <1>2, <1>3 DEF Probe, Probed, CheckInv
<1>6. \A j \in Check :
        /\ check'[j].todo \subseteq DOMAIN check'[j].of
        /\ ToSet(check'[j].rs) \subseteq ToSet(check'[j].of)
  BY <1>1, <1>2, <1>4, <1>5 DEF CheckInv
<1>. QED BY <1>5, <1>6 DEF CheckInv

\* Every step preserves the invariant.
LEMMA ListStep ==
  ASSUME ListInv, [Next]_vars
  PROVE  ListInv'
<1>. USE RelayServersAssumption, EmptyList DEF ListInv, KeepsSomeServer
<1>1. ASSUME NEW l \in List, RelayServersCommand(l) PROVE ListInv'
  <2>. DEFINE m == [type |-> "RelayServers0", rs |-> l, of |-> l]
  <2>1. m \in Message /\ Sound(m)
    BY DEF Message, Sound
  <2>2. QueueInv'
    BY <1>1, <2>1, QueueAppend DEF RelayServersCommand, Send
  <2>. QED BY <1>1, <2>2 DEF RelayServersCommand, CheckInv
<1>2. CASE AlwaysUseRelayCommand
  <2>. DEFINE m == [type |-> "RelayServers0", rs |-> <<>>, of |-> <<>>]
  <2>1. m \in Message /\ Sound(m)
    BY DEF Message, Sound
  <2>2. QueueInv'
    BY <1>2, <2>1, QueueAppend DEF AlwaysUseRelayCommand, Send
  <2>. QED BY <1>2, <2>2 DEF AlwaysUseRelayCommand, CheckInv
<1>3. CASE Receive
  <2>1. QueueInv' /\ Head(queue) \in Message /\ Sound(Head(queue))
    BY <1>3, QueueTail DEF Receive
  <2>2. CheckInv'
    BY <1>3 DEF Receive, CheckInv
  <2>3. CASE Head(queue).type = "RelayServers0"
    BY <1>3, <2>1, <2>2, <2>3 DEF Receive, Configure, Message, Sound
  <2>4. CASE Head(queue).type = "RelayServers"
    BY <1>3, <2>1, <2>2, <2>4 DEF Receive, Configure, Message, Sound
  <2>. QED BY <1>3, <2>3, <2>4 DEF Receive
<1>4. ASSUME NEW k \in Check, Tick(k) PROVE ListInv'
  <2>1. relay_servers0 \in Seq(Server) /\ DOMAIN relay_servers0 \in SUBSET Nat
    <3>1. relay_servers0 \in Seq(Server)
      OBVIOUS
    <3>2. DOMAIN relay_servers0 = 1..Len(relay_servers0)
      BY <3>1
    <3>. QED BY <3>1, <3>2
  <2>2. CheckInv'
    <3>. DEFINE r == [of |-> relay_servers0, todo |-> DOMAIN relay_servers0,
                      rs |-> <<>>]
    <3>1. /\ r \in [of : Seq(Server), todo : SUBSET Nat, rs : Seq(Server)]
          /\ r.todo \subseteq DOMAIN r.of /\ ToSet(r.rs) \subseteq ToSet(r.of)
      BY <2>1
    <3>. HIDE DEF r
    <3>2. check' = [check EXCEPT ![k] = r]
      BY <1>4 DEF Tick, r
    <3>. QED BY <3>1, <3>2 DEF CheckInv
  <2>. QED BY <1>4, <2>2 DEF Tick, QueueInv
<1>5. ASSUME NEW k \in Check, Finish(k) PROVE ListInv'
  <2>1. CheckInv'
    BY <1>5 DEF Finish, CheckInv, Idle
  <2>2. Result(k) \in Message
    BY DEF Result, Message, CheckInv
  <2>3. check[k].rs # <<>> => Sound(Result(k))
    BY DEF Sound, Result, CheckInv
  <2>4. QueueInv'
    <3>1. CASE check[k].rs # <<>>
      BY <1>5, <2>2, <2>3, <3>1, QueueAppend DEF Finish, Send
    <3>2. CASE check[k].rs = <<>>
      BY <1>5, <3>2 DEF Finish, QueueInv
    <3>. QED BY <3>1, <3>2
  <2>. QED BY <1>5, <2>1, <2>4 DEF Finish
<1>6. ASSUME NEW k \in Check, NEW i \in check[k].todo, Probe(k, i) PROVE ListInv'
  <2>1. CheckInv'
    BY <1>6, ProbeSound
  <2>. QED BY <1>6, <2>1 DEF Probe, QueueInv
<1>7. ASSUME NEW s \in Server, Reach(s) PROVE ListInv'
  BY <1>7 DEF Reach, QueueInv, CheckInv
<1>8. CASE UNCHANGED vars
  BY <1>8 DEF vars, QueueInv, CheckInv
<1>. QED BY <1>1, <1>2, <1>3, <1>4, <1>5, <1>6, <1>7, <1>8 DEF Next

\* The invariant holds.
LEMMA ListCorrect == Spec => []ListInv
<1>1. Init => ListInv
  BY RelayServersAssumption, EmptyList
  DEF Init, ListInv, QueueInv, CheckInv, KeepsSomeServer, Idle
<1>. QED BY <1>1, ListStep, PTL DEF Spec

\* Types.
THEOREM TypeCorrect == Spec => []TypeOK
<1>1. ListInv => TypeOK
  <2>. SUFFICES ASSUME ListInv PROVE TypeOK
    OBVIOUS
  <2>1. ASSUME NEW m \in ToSet(queue) PROVE m \in Message
    <3>1. PICK i \in DOMAIN queue : m = queue[i]
      BY DEF ToSet
    <3>. QED BY <3>1 DEF ListInv, QueueInv
  <2>2. \A m \in ToSet(queue) : m.type \in {"RelayServers0", "RelayServers"}
                              /\ m.rs \in Seq(Server)
    BY <2>1 DEF Message
  <2>. QED BY <2>2 DEF ListInv, CheckInv, TypeOK, ServerList
<1>. QED BY <1>1, ListCorrect, PTL

\* As long as a server is configured there is one to name.
THEOREM SomeServerKept == Spec => []KeepsSomeServer
<1>1. ListInv => KeepsSomeServer
  BY DEF ListInv
<1>. QED BY <1>1, ListCorrect, PTL

-----------------------------------------------------------------------------
\* Only a result of a check of another configuration misleads.
LEMMA Misled ==
  ASSUME ListInv, [Next]_vars,
         ToSet(relay_servers) \subseteq ToSet(relay_servers0),
         ~(ToSet(relay_servers') \subseteq ToSet(relay_servers0'))
  PROVE  /\ Head(queue).type = "RelayServers"
         /\ Head(queue).of # relay_servers0
<1>1. Receive
  BY DEF Next, vars, RelayServersCommand, AlwaysUseRelayCommand, Tick, Finish, Probe, Reach
<1>2. Sound(Head(queue))
  BY <1>1, QueueTail DEF Receive, ListInv
<1>. QED BY <1>1, <1>2 DEF Receive, Configure, Sound

\* The list in use leaves the configured one only by an answer older than it.
THEOREM OnlyOldChecksMisleadCorrect == Spec => OnlyOldChecksMislead
<1>1. ListInv /\ [Next]_vars =>
        [ToSet(relay_servers) \subseteq ToSet(relay_servers0)
           /\ ~(ToSet(relay_servers) \subseteq ToSet(relay_servers0))'
         => /\ Head(queue).type = "RelayServers"
            /\ Head(queue).of # relay_servers0]_vars
  BY Misled DEF ToSet
<1>. QED BY <1>1, ListCorrect, PTL DEF Spec, OnlyOldChecksMislead

-----------------------------------------------------------------------------
(* What Converges rests on: the last old check is the end of old answers. *)

\* An answer on its way, or to come, is about the configured list.
InStep ==
  /\ ToSet(relay_servers) \subseteq ToSet(relay_servers0)
  /\ \A i \in DOMAIN queue :
       queue[i].type = "RelayServers" => queue[i].of = relay_servers0
  /\ \A k \in Check : check[k] = Idle \/ check[k].of = relay_servers0

\* Once the answers of the checks of an earlier list are gone the list in use
\* stays within the configured one until that is configured anew, whatever else
\* happens: overlapping checks, failing servers, results in any order.
InStepStays == [][InStep /\ UNCHANGED relay_servers0 => InStep']_vars

\* What is sent is about the configured list, too.
LEMMA SentInStep ==
  ASSUME ListInv, InStep, NEW m \in Message, queue' = Append(queue, m),
         UNCHANGED relay_servers0, m.type = "RelayServers" => m.of = relay_servers0
  PROVE  \A i \in DOMAIN queue' :
           queue'[i].type = "RelayServers" => queue'[i].of = relay_servers0'
BY DEF ListInv, QueueInv, InStep

\* No step but a change of the configuration leads out of step.
LEMMA StaysInStep ==
  ASSUME ListInv, [Next]_vars, InStep, UNCHANGED relay_servers0
  PROVE  InStep'
<1>. USE DEF InStep
<1>1. ASSUME NEW l \in List, RelayServersCommand(l) PROVE InStep'
  <2>. DEFINE m == [type |-> "RelayServers0", rs |-> l, of |-> l]
  <2>1. m \in Message
    BY RelayServersAssumption DEF Message
  <2>. QED BY <1>1, <2>1, SentInStep DEF RelayServersCommand, Send
<1>2. CASE AlwaysUseRelayCommand
  <2>. DEFINE m == [type |-> "RelayServers0", rs |-> <<>>, of |-> <<>>]
  <2>1. m \in Message
    BY EmptyList DEF Message
  <2>. QED BY <1>2, <2>1, SentInStep DEF AlwaysUseRelayCommand, Send
<1>3. CASE Receive
  <2>1. Sound(Head(queue)) /\ Head(queue) = queue[1] /\ 1 \in DOMAIN queue
    BY <1>3, QueueTail DEF Receive, ListInv, QueueInv
  <2>2. ToSet(relay_servers') \subseteq ToSet(relay_servers0')
    <3>1. CASE Head(queue).type = "RelayServers0"
      BY <1>3, <3>1 DEF Receive, Configure
    <3>2. CASE Head(queue).type = "RelayServers"
      BY <1>3, <2>1, <3>2 DEF Receive, Sound
    <3>. QED BY <1>3, <3>1, <3>2 DEF Receive
  <2>3. \A i \in DOMAIN queue' : i + 1 \in DOMAIN queue /\ queue'[i] = queue[i + 1]
    BY <1>3 DEF Receive, ListInv, QueueInv
  <2>. QED BY <1>3, <2>2, <2>3 DEF Receive
<1>4. ASSUME NEW k \in Check, Tick(k) PROVE InStep'
  BY <1>4 DEF Tick, ListInv, CheckInv
<1>5. ASSUME NEW k \in Check, Finish(k) PROVE InStep'
  <2>1. Result(k) \in Message /\ (check[k] # Idle => Result(k).of = relay_servers0)
    BY DEF Result, Message, ListInv, CheckInv
  <2>2. \A i \in DOMAIN queue' :
          queue'[i].type = "RelayServers" => queue'[i].of = relay_servers0'
    <3>1. CASE queue' = Append(queue, Result(k))
      BY <1>5, <2>1, <3>1, SentInStep DEF Finish
    <3>2. CASE queue' = queue
      BY <3>2
    <3>. QED BY <1>5, <3>1, <3>2 DEF Finish, Send
  <2>. QED BY <1>5, <2>2 DEF Finish, ListInv, CheckInv
<1>6. ASSUME NEW k \in Check, NEW i \in check[k].todo, Probe(k, i) PROVE InStep'
  <2>1. check[k] # Idle
    BY <1>6 DEF Idle
  <2>. QED BY <1>6, <2>1 DEF Probe, ListInv, CheckInv
<1>7. ASSUME NEW s \in Server, Reach(s) PROVE InStep'
  BY <1>7 DEF Reach
<1>8. CASE UNCHANGED vars
  BY <1>8 DEF vars
<1>. QED BY <1>1, <1>2, <1>3, <1>4, <1>5, <1>6, <1>7, <1>8 DEF Next

\* In step is in step until the next change of the configuration.
THEOREM InStepStaysCorrect == Spec => InStepStays
<1>1. ListInv /\ [Next]_vars => [InStep /\ UNCHANGED relay_servers0 => InStep']_vars
  BY StaysInStep
<1>. QED BY <1>1, ListCorrect, PTL DEF Spec, InStepStays
=============================================================================
