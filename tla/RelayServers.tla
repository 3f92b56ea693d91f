---------------------------- MODULE RelayServers ----------------------------
(***************************************************************************)
(* hbbs: which relay server it names to a pair of peers                    *)
(* (src/src/rendezvous_server.rs).  The operator configures a list, a      *)
(* timer probes it every three seconds in a spawned future, the main loop  *)
(* takes the results and the operator's commands from the channel rx.      *)
(* How a server is picked from the list is RelayRotation's.                *)
(*                                                                         *)
(* A server is a name get_servers accepts; up holds those that accept a    *)
(* connection within CHECK_RELAY_TIMEOUT.  Data::Msg, which shares the     *)
(* channel, is TcpPunch's.                                                 *)
(***************************************************************************)
EXTENDS Naturals, SequencesExt

CONSTANTS Server,
          List,          \* the lists an operator configures
          Check,         \* check_relay_servers futures that can overlap
          MaxQueue       \* bound: no command or tick while rx is this long

ASSUME RelayServersAssumption ==
  /\ List \subseteq Seq(Server)
  /\ MaxQueue \in Nat

VARIABLES
  relay_servers0,  \* the configured list
  relay_servers,   \* those of it found up, in the order they answered
  queue,           \* rx: RelayServers0 and RelayServers messages
  check,           \* the futures: list probed, positions to probe, answers
  up               \* servers that can be reached

vars == <<relay_servers0, relay_servers, queue, check, up>>

Idle == [of |-> <<>>, todo |-> {}, rs |-> <<>>]

Init ==
  /\ relay_servers0 \in List
  /\ relay_servers = relay_servers0
  /\ queue = <<>>
  /\ check = [k \in Check |-> Idle]
  /\ up \in SUBSET Server

-----------------------------------------------------------------------------
(* check_cmd: commands on the loopback connection. *)

Send(m) == queue' = Append(queue, m)

\* relay-servers(rs) <list>
RelayServersCommand(l) ==
  /\ Len(queue) < MaxQueue
  /\ Send([type |-> "RelayServers0", rs |-> l, of |-> l])
  /\ UNCHANGED <<relay_servers0, relay_servers, check, up>>

\* always-use-relay(aur) Y: the flag is stored, and sent as a list as well; it
\* is no server's name, get_servers drops it.
AlwaysUseRelayCommand ==
  /\ Len(queue) < MaxQueue
  /\ Send([type |-> "RelayServers0", rs |-> <<>>, of |-> <<>>])
  /\ UNCHANGED <<relay_servers0, relay_servers, check, up>>

-----------------------------------------------------------------------------
(* io_loop, rx branch. *)

\* Mutant: parse_relay_servers leaves the list in use alone.
ConfigureLater(l) ==
  /\ relay_servers0' = l
  /\ UNCHANGED relay_servers

\* parse_relay_servers
Configure(l) ==
  /\ relay_servers0' = l
  /\ relay_servers' = l

Receive ==
  /\ queue # <<>>
  /\ queue' = Tail(queue)
  /\ \/ /\ Head(queue).type = "RelayServers0"
        /\ Configure(Head(queue).rs)
     \/ /\ Head(queue).type = "RelayServers"
        /\ relay_servers' = Head(queue).rs
        /\ UNCHANGED relay_servers0
  /\ UNCHANGED <<check, up>>

-----------------------------------------------------------------------------
(* The timer, and check_relay_servers. *)

\* One server needs no probing.
Tick(k) ==
  /\ check[k] = Idle
  /\ Len(relay_servers0) > 1 /\ Len(queue) < MaxQueue
  /\ check' = [check EXCEPT ![k] = [of |-> relay_servers0,
                                    todo |-> DOMAIN relay_servers0,
                                    rs |-> <<>>]]
  /\ UNCHANGED <<relay_servers0, relay_servers, queue, up>>

Probed(k, i) == check[k].of[i]

\* One connection attempt is over.
Probe(k, i) ==
  /\ i \in check[k].todo
  /\ check' = [check EXCEPT ![k].todo = @ \ {i},
                            ![k].rs = IF Probed(k, i) \in up
                                      THEN Append(@, Probed(k, i)) ELSE @]
  /\ UNCHANGED <<relay_servers0, relay_servers, queue, up>>

Result(k) == [type |-> "RelayServers", rs |-> check[k].rs, of |-> check[k].of]

\* Mutants: an empty result is sent, too; no result is sent.
FinishAlways(k) ==
  /\ check[k] # Idle /\ check[k].todo = {}
  /\ check' = [check EXCEPT ![k] = Idle]
  /\ Send(Result(k))
  /\ UNCHANGED <<relay_servers0, relay_servers, up>>

FinishSilent(k) ==
  /\ check[k] # Idle /\ check[k].todo = {}
  /\ check' = [check EXCEPT ![k] = Idle]
  /\ UNCHANGED <<relay_servers0, relay_servers, queue, up>>

\* All joined: the answers, in the order they came, go to the main loop.
Finish(k) ==
  /\ check[k] # Idle /\ check[k].todo = {}
  /\ check' = [check EXCEPT ![k] = Idle]
  /\ \/ /\ check[k].rs # <<>>
        /\ Send(Result(k))
     \/ /\ check[k].rs = <<>>
        /\ UNCHANGED queue
  /\ UNCHANGED <<relay_servers0, relay_servers, up>>

-----------------------------------------------------------------------------
\* A relay server starts or stops.
Reach(s) ==
  /\ up' = IF s \in up THEN up \ {s} ELSE up \cup {s}
  /\ UNCHANGED <<relay_servers0, relay_servers, queue, check>>

Next ==
  \/ \E l \in List : RelayServersCommand(l)
  \/ AlwaysUseRelayCommand
  \/ Receive
  \/ \E k \in Check : Tick(k) \/ Finish(k) \/ \E i \in check[k].todo : Probe(k, i)
  \/ \E s \in Server : Reach(s)

Spec == Init /\ [][Next]_vars

\* select! chooses among its ready branches at random, so a message in rx and a
\* tick are served in the end; a probe times out; a future runs to its end.
\* Commands and reachability are the environment's.
Fairness ==
  /\ WF_vars(Receive)
  /\ \A k \in Check :
       /\ WF_vars(Tick(k)) /\ WF_vars(Finish(k))
       /\ WF_vars(\E i \in check[k].todo : Probe(k, i))

FairSpec == Spec /\ Fairness

-----------------------------------------------------------------------------
(* Properties. *)

ServerList == Seq(Server)

\* Types; a check answers for servers of its own list only.
TypeOK ==
  /\ relay_servers0 \in List \cup {<<>>} /\ relay_servers \in ServerList
  /\ \A m \in ToSet(queue) : m.type \in {"RelayServers0", "RelayServers"}
                             /\ m.rs \in ServerList
  /\ \A k \in Check : /\ check[k].todo \subseteq DOMAIN check[k].of
                      /\ ToSet(check[k].rs) \subseteq ToSet(check[k].of)

\* However the probes end, and in whatever order results and commands arrive:
\* while a server is configured there is one to name.
KeepsSomeServer == relay_servers0 # <<>> => relay_servers # <<>>

\* The list in use leaves the configured one only with the answer of a check
\* that had begun before the configuration changed.
OnlyOldChecksMislead ==
  [][ToSet(relay_servers) \subseteq ToSet(relay_servers0)
       /\ ~(ToSet(relay_servers) \subseteq ToSet(relay_servers0))'
     => /\ Head(queue).type = "RelayServers"
        /\ Head(queue).of # relay_servers0]_vars

NoCommand == \A m \in ToSet(queue) : m.type = "RelayServers"

\* When configuration and reachability settle, the list in use becomes the
\* configured servers that can be reached, even after a stale answer; of
\* several configured servers (a single one is not probed).
Converges ==
  \A l \in {m \in List : Len(m) > 1}, R \in SUBSET Server :
    ToSet(l) \cap R # {} /\ <>[](NoCommand /\ relay_servers0 = l /\ up = R)
      => <>[](ToSet(relay_servers) = ToSet(l) \cap R)
=============================================================================
