---------------------------- MODULE RelayPairing ----------------------------
(***************************************************************************)
(* hbbr: how make_pair_ (src/src/relay_server.rs) brings together the two  *)
(* connections that ask for the same uuid, through the static maps PEERS   *)
(* (streams that wait) and USAGE (sessions, for the operator).             *)
(*                                                                         *)
(* Each connection is served by its own task.  The first of a uuid puts    *)
(* its stream into PEERS, sleeps 30 s and then removes whatever PEERS has  *)
(* under the uuid; the second takes the stream out and relays.  The look   *)
(* into PEERS and the insert are two lock acquisitions: tasks interleave   *)
(* between them.  What a session does with its bytes is RelaySession's.    *)
(*                                                                         *)
(* A connection identity is used again once its task is over and its       *)
(* stream dropped; uuids may be used again at any time.                    *)
(***************************************************************************)
EXTENDS Naturals, FiniteSets

CONSTANTS Conn, NoConn,
          Uuid, NoUuid,
          Label, LabelOf     \* the "ip:port" a session is listed under; two
                             \* connections of one proxied client share "ip:0"

ASSUME PairingAssumption ==
  /\ NoConn \notin Conn
  /\ NoUuid \notin Uuid
  /\ LabelOf \in [Conn -> Label]

VARIABLES
  task,     \* where the task of a connection is
  uuid,     \* the uuid its RequestRelay names
  PEERS,    \* uuid -> the connection whose stream waits
  partner,  \* the stream a relaying task took out of PEERS
  USAGE,    \* labels of the sessions listed
  gone      \* connections whose client has closed its end

vars == <<task, uuid, PEERS, partner, USAGE, gone>>

Stage == {"none", "recv", "missed", "sleep", "paired", "relay", "ending"}

\* Stages at which a task owns its stream; a sleeping task has given it away.
Owning == {"recv", "missed", "paired", "relay", "ending"}

Init ==
  /\ task = [c \in Conn |-> "none"]
  /\ uuid = [c \in Conn |-> NoUuid]
  /\ PEERS = [u \in Uuid |-> NoConn]
  /\ partner = [c \in Conn |-> NoConn]
  /\ USAGE = {}
  /\ gone = {}

Waiting(c) == \E u \in Uuid : PEERS[u] = c
Taken(c) == \E d \in Conn : partner[d] = c

\* The server still has the stream.
Open(c) == task[c] \in Owning \/ Waiting(c) \/ Taken(c)

\* Of what is dropped in a step, forget the connections with nothing left.
Forgetting(S) ==
  LET over == {c \in S \cap Conn : task'[c] = "none" /\ ~Open(c)'}
  IN  /\ uuid' = [c \in Conn |-> IF c \in over THEN NoUuid ELSE uuid[c]]
      /\ gone' = gone \ over

-----------------------------------------------------------------------------
(* handle_connection, make_pair *)

Accept(c) ==
  /\ task[c] = "none" /\ ~Open(c)
  /\ task' = [task EXCEPT ![c] = "recv"]
  /\ UNCHANGED <<uuid, PEERS, partner, USAGE, gone>>

\* No RequestRelay within 30 s, a wrong key or no uuid: the stream is dropped.
Refuse(c) ==
  /\ task[c] = "recv"
  /\ task' = [task EXCEPT ![c] = "none"]
  /\ gone' = gone \ {c}
  /\ UNCHANGED <<uuid, PEERS, partner, USAGE>>

-----------------------------------------------------------------------------
(* make_pair_ *)

\* Mutant: `get` for `remove`.
MatchKeeps(c, u) ==
  /\ task[c] = "recv"
  /\ PEERS[u] # NoConn
  /\ task' = [task EXCEPT ![c] = "paired"]
  /\ uuid' = [uuid EXCEPT ![c] = u]
  /\ partner' = [partner EXCEPT ![c] = PEERS[u]]
  /\ UNCHANGED <<PEERS, USAGE, gone>>

\* A RequestRelay; PEERS.lock().remove(&rf.uuid) finds a stream...
Match(c, u) ==
  /\ task[c] = "recv"
  /\ PEERS[u] # NoConn
  /\ task' = [task EXCEPT ![c] = "paired"]
  /\ uuid' = [uuid EXCEPT ![c] = u]
  /\ partner' = [partner EXCEPT ![c] = PEERS[u]]
  /\ PEERS' = [PEERS EXCEPT ![u] = NoConn]
  /\ UNCHANGED <<USAGE, gone>>

\* ... or none, and the lock is released.
Miss(c, u) ==
  /\ task[c] = "recv"
  /\ PEERS[u] = NoConn
  /\ task' = [task EXCEPT ![c] = "missed"]
  /\ uuid' = [uuid EXCEPT ![c] = u]
  /\ UNCHANGED <<PEERS, partner, USAGE, gone>>

\* The stream goes into PEERS; one that got there meanwhile is dropped.
Enter(c) ==
  /\ task[c] = "missed"
  /\ task' = [task EXCEPT ![c] = "sleep"]
  /\ PEERS' = [PEERS EXCEPT ![uuid[c]] = c]
  /\ UNCHANGED <<partner, USAGE>>
  /\ Forgetting({PEERS[uuid[c]]})

\* Mutant: the task returns without a look into PEERS.
TimerKeeps(c) ==
  /\ task[c] = "sleep"
  /\ task' = [task EXCEPT ![c] = "none"]
  /\ UNCHANGED <<PEERS, partner, USAGE>>
  /\ Forgetting({c})

\* After sleep(30.): whatever waits under the uuid is dropped.
TimerFires(c) ==
  /\ task[c] = "sleep"
  /\ task' = [task EXCEPT ![c] = "none"]
  /\ PEERS' = [PEERS EXCEPT ![uuid[c]] = NoConn]
  /\ UNCHANGED <<partner, USAGE>>
  /\ Forgetting({c, PEERS[uuid[c]]})

\* USAGE.insert, then relay.
BeginRelay(c) ==
  /\ task[c] = "paired"
  /\ task' = [task EXCEPT ![c] = "relay"]
  /\ USAGE' = USAGE \cup {LabelOf[c]}
  /\ UNCHANGED <<uuid, PEERS, partner, gone>>

\* relay, every second: the session's figures are inserted anew.
Report(c) ==
  /\ task[c] = "relay"
  /\ USAGE' = USAGE \cup {LabelOf[c]}
  /\ UNCHANGED <<task, uuid, PEERS, partner, gone>>

\* relay returns: an end closed, nothing came for 30 s, or the ip is blocked.
StopRelay(c) ==
  /\ task[c] = "relay"
  /\ task' = [task EXCEPT ![c] = "ending"]
  /\ UNCHANGED <<uuid, PEERS, partner, USAGE, gone>>

\* Mutants: the entry stays listed; PEERS is "cleaned up" as well.
EndSessionLists(c) ==
  /\ task[c] = "ending"
  /\ task' = [task EXCEPT ![c] = "none"]
  /\ partner' = [partner EXCEPT ![c] = NoConn]
  /\ UNCHANGED <<PEERS, USAGE>>
  /\ Forgetting({c, partner[c]})

EndSessionCleans(c) ==
  /\ task[c] = "ending"
  /\ task' = [task EXCEPT ![c] = "none"]
  /\ partner' = [partner EXCEPT ![c] = NoConn]
  /\ USAGE' = USAGE \ {LabelOf[c]}
  /\ PEERS' = [PEERS EXCEPT ![uuid[c]] = NoConn]
  /\ Forgetting({c, partner[c]})

\* USAGE.remove, and both streams are dropped.
EndSession(c) ==
  /\ task[c] = "ending"
  /\ task' = [task EXCEPT ![c] = "none"]
  /\ partner' = [partner EXCEPT ![c] = NoConn]
  /\ USAGE' = USAGE \ {LabelOf[c]}
  /\ UNCHANGED PEERS
  /\ Forgetting({c, partner[c]})

\* A client closes its connection; only a task that reads the stream notices.
HangUp(c) ==
  /\ Open(c) /\ c \notin gone
  /\ gone' = gone \cup {c}
  /\ UNCHANGED <<task, uuid, PEERS, partner, USAGE>>

-----------------------------------------------------------------------------
Next ==
  \E c \in Conn :
    \/ Accept(c) \/ Refuse(c)
    \/ \E u \in Uuid : Match(c, u) \/ Miss(c, u)
    \/ Enter(c) \/ TimerFires(c)
    \/ BeginRelay(c) \/ Report(c) \/ StopRelay(c) \/ EndSession(c)
    \/ HangUp(c)

Spec == Init /\ [][Next]_vars

\* The runtime runs every task that can run: the read of the first message
\* times out, locks are granted, timers fire, and relay notices a closed end,
\* unless it waits for ever to write to a client that stays and does not read
\* (GoneEndsSession of RelaySession): such clients are not considered here.
\* How long an undisturbed session lasts is up to its clients.
Fairness ==
  \A c \in Conn :
    /\ WF_vars(Refuse(c)) /\ WF_vars(Enter(c)) /\ WF_vars(TimerFires(c))
    /\ WF_vars(BeginRelay(c)) /\ WF_vars(EndSession(c))
    /\ WF_vars(StopRelay(c) /\ {c, partner[c]} \cap gone # {})

FairSpec == Spec /\ Fairness

-----------------------------------------------------------------------------
(* Properties. *)

\* Types; a task that went past its first message has a uuid, and exactly the
\* tasks of sessions have a partner.
TypeOK ==
  /\ task \in [Conn -> Stage]
  /\ uuid \in [Conn -> Uuid \cup {NoUuid}]
  /\ PEERS \in [Uuid -> Conn \cup {NoConn}]
  /\ partner \in [Conn -> Conn \cup {NoConn}]
  /\ USAGE \subseteq Label
  /\ gone \subseteq Conn
  /\ \A c \in Conn :
       /\ task[c] \notin {"none", "recv"} => uuid[c] # NoUuid
       /\ partner[c] # NoConn <=> task[c] \in {"paired", "relay", "ending"}

\* A stream is in one place: with its own task, under its own uuid in PEERS
\* while its task sleeps (so the 30 s timer that bounds the wait is pending),
\* or taken by exactly one other task.
OnePlace ==
  \A c \in Conn :
    /\ \A u \in Uuid : PEERS[u] = c => uuid[c] = u /\ task[c] = "sleep" /\ ~Taken(c)
    /\ \A d \in Conn : partner[d] = c =>
         /\ task[c] \in {"none", "sleep"}
         /\ \A e \in Conn : partner[e] = c => e = d

\* Bytes only flow between connections that asked for the same uuid.
SameUuid ==
  \A c, d \in Conn : partner[d] = c =>
    c # d /\ uuid[c] = uuid[d] /\ uuid[d] # NoUuid

\* The `usage` command lists sessions that exist; one that shares its label
\* with no other connection is listed as long as it relays.
UsageListsSessions ==
  /\ USAGE \subseteq {LabelOf[c] : c \in {d \in Conn : task[d] \in {"relay", "ending"}}}
  /\ \A c \in Conn :
       /\ task[c] = "relay"
       /\ \A d \in Conn : LabelOf[d] = LabelOf[c] => d = c
       => LabelOf[c] \in USAGE

\* A waiting stream leaves PEERS with a partner or when its own timer fires,
\* unless another connection has asked for the same uuid and found nobody:
\* two that miss each other, or a timer left over from an earlier wait.
EvictionNeedsReuse ==
  [][\A u \in Uuid, c \in Conn : PEERS[u] = c /\ PEERS'[u] # c =>
       \/ Taken(c)'
       \/ TimerFires(c)
       \/ \E d \in Conn \ {c} : uuid[d] = u /\ task[d] \in {"missed", "sleep"}]_vars

\* What waits is paired or dropped in the end.
WaitEnds == \A c \in Conn : Waiting(c) ~> ~Waiting(c)

\* A connection whose client is gone is given up in the end, wherever its
\* stream is by then, and so is its partner's session.
GoneIsReleased ==
  \A c \in Conn : c \in gone ~> ~Open(c)

Pairs ==
  INSTANCE RelayPairs WITH
    asked <- uuid,
    pairs <- {{c, partner[c]} : c \in {d \in Conn : partner[d] # NoConn}}

\* make_pair_ implements the pairing it promises.
PairsSpec == Pairs!Spec
=============================================================================
