------------------------ MODULE RelayPairingProofs ------------------------
(***************************************************************************)
(* What holds of RelayPairing for any number of connections and uuids:     *)
(*                                                                         *)
(*   TypeCorrect    the type invariant;                                    *)
(*   PlaceCorrect   a stream is in one place, and only relayed to a stream *)
(*                  of the same uuid;                                      *)
(*   EvictionCorrect   why a stream that waits is given up;                *)
(*   UsageCorrect   the sessions listed are sessions that exist;           *)
(*   PairsCorrect   make_pair_ implements RelayPairs.                      *)
(***************************************************************************)
EXTENDS RelayPairing, TLAPS

\* Forgetting only touches connections with nothing left.
LEMMA ForgettingSome ==
  ASSUME NEW S, Forgetting(S), uuid \in [Conn -> Uuid \cup {NoUuid}], gone \subseteq Conn
  PROVE  /\ uuid' \in [Conn -> Uuid \cup {NoUuid}]
         /\ gone' \subseteq Conn
         /\ \A c \in Conn : uuid'[c] # uuid[c] =>
              c \in S /\ task'[c] = "none" /\ ~Open(c)' /\ uuid'[c] = NoUuid
BY DEF Forgetting

-----------------------------------------------------------------------------
(* Type correctness. *)

\* Types are kept by every step of a connection's task.
LEMMA TypeStep ==
  ASSUME TypeOK, [Next]_vars
  PROVE  TypeOK'
<1>. USE PairingAssumption DEF TypeOK, Stage
<1>1. ASSUME NEW c \in Conn, Accept(c) PROVE TypeOK'
  BY <1>1 DEF Accept, Open, Owning
<1>2. ASSUME NEW c \in Conn, Refuse(c) PROVE TypeOK'
  BY <1>2 DEF Refuse
<1>3. ASSUME NEW c \in Conn, NEW u \in Uuid, Match(c, u) PROVE TypeOK'
  BY <1>3 DEF Match
<1>4. ASSUME NEW c \in Conn, NEW u \in Uuid, Miss(c, u) PROVE TypeOK'
  BY <1>4 DEF Miss
<1>5. ASSUME NEW c \in Conn, Enter(c) PROVE TypeOK'
  BY <1>5, ForgettingSome DEF Enter
<1>6. ASSUME NEW c \in Conn, TimerFires(c) PROVE TypeOK'
  BY <1>6, ForgettingSome DEF TimerFires
<1>7. ASSUME NEW c \in Conn, BeginRelay(c) \/ Report(c) PROVE TypeOK'
  BY <1>7 DEF BeginRelay, Report
<1>8. ASSUME NEW c \in Conn, StopRelay(c) \/ HangUp(c) PROVE TypeOK'
  BY <1>8 DEF StopRelay, HangUp
<1>9. ASSUME NEW c \in Conn, EndSession(c) PROVE TypeOK'
  BY <1>9, ForgettingSome DEF EndSession
<1>10. CASE UNCHANGED vars
  BY <1>10 DEF vars
<1>. QED
  BY <1>1, <1>2, <1>3, <1>4, <1>5, <1>6, <1>7, <1>8, <1>9, <1>10 DEF Next

\* Every variable keeps its type, for any number of connections.
THEOREM TypeCorrect == Spec => []TypeOK
<1>1. Init => TypeOK
  BY PairingAssumption DEF Init, TypeOK, Stage
<1>. QED BY <1>1, TypeStep, PTL DEF Spec

-----------------------------------------------------------------------------
(* One place for every stream. *)

PlaceInv == TypeOK /\ OnePlace /\ SameUuid

\* A connection that still has a place keeps its uuid.
LEMMA UuidKept ==
  ASSUME TypeOK, NEW S, Forgetting(S), NEW c \in Conn, Open(c)' \/ task'[c] # "none"
  PROVE  uuid'[c] = uuid[c]
BY ForgettingSome DEF TypeOK

\* No step gives a stream a second place, or a partner of another uuid.
LEMMA PlaceStep ==
  ASSUME PlaceInv, [Next]_vars
  PROVE  OnePlace' /\ SameUuid'
<1>. USE PairingAssumption DEF PlaceInv, TypeOK, Stage
<1>. TypeOK'
  BY TypeStep
<1>1. ASSUME NEW c \in Conn, Accept(c) PROVE OnePlace' /\ SameUuid'
  BY <1>1 DEF Accept, OnePlace, SameUuid, Taken, Waiting, Open
<1>2. ASSUME NEW c \in Conn, Refuse(c) PROVE OnePlace' /\ SameUuid'
  BY <1>2 DEF Refuse, OnePlace, SameUuid, Taken
<1>3. ASSUME NEW c \in Conn, NEW u \in Uuid, Match(c, u) PROVE OnePlace' /\ SameUuid'
  BY <1>3 DEF Match, OnePlace, SameUuid, Taken
<1>4. ASSUME NEW c \in Conn, NEW u \in Uuid, Miss(c, u) PROVE OnePlace' /\ SameUuid'
  BY <1>4 DEF Miss, OnePlace, SameUuid, Taken
<1>5. ASSUME NEW c \in Conn, Enter(c) PROVE OnePlace' /\ SameUuid'
  <2>1. /\ uuid[c] \in Uuid /\ task[c] = "missed" /\ partner' = partner
        /\ task' = [task EXCEPT ![c] = "sleep"]
        /\ PEERS' = [PEERS EXCEPT ![uuid[c]] = c]
    BY <1>5 DEF Enter
  <2>2. \A d \in Conn : Open(d)' \/ task'[d] # "none" => uuid'[d] = uuid[d]
    BY <1>5, UuidKept DEF Enter
  <2>3. \A d \in Conn, u \in Uuid : PEERS'[u] = d =>
          uuid'[d] = u /\ task'[d] = "sleep" /\ ~Taken(d)'
    <3>. TAKE d \in Conn, u \in Uuid
    <3>. HAVE PEERS'[u] = d
    <3>1. uuid'[d] = uuid[d]
      BY <2>2 DEF Open, Waiting
    <3>. QED BY <2>1, <3>1 DEF OnePlace, Taken
  <2>4. \A d, e \in Conn : partner'[e] = d =>
          /\ task'[d] \in {"none", "sleep"} /\ d # e
          /\ uuid'[d] = uuid'[e] /\ uuid'[e] # NoUuid
          /\ \A f \in Conn : partner'[f] = d => f = e
    <3>. TAKE d, e \in Conn
    <3>. HAVE partner'[e] = d
    <3>1. uuid'[d] = uuid[d]
      BY <2>2 DEF Open, Taken
    <3>2. uuid'[e] = uuid[e]
      BY <2>1, <2>2
    <3>. QED BY <2>1, <3>1, <3>2 DEF OnePlace, SameUuid
  <2>. QED BY <2>3, <2>4 DEF OnePlace, SameUuid
<1>6. ASSUME NEW c \in Conn, TimerFires(c) PROVE OnePlace' /\ SameUuid'
  <2>1. /\ uuid[c] \in Uuid /\ task[c] = "sleep" /\ partner' = partner
        /\ task' = [task EXCEPT ![c] = "none"]
        /\ PEERS' = [PEERS EXCEPT ![uuid[c]] = NoConn]
    BY <1>6 DEF TimerFires
  <2>2. \A d \in Conn : Open(d)' \/ task'[d] # "none" => uuid'[d] = uuid[d]
    BY <1>6, UuidKept DEF TimerFires
  <2>3. \A d \in Conn, u \in Uuid : PEERS'[u] = d =>
          uuid'[d] = u /\ task'[d] = "sleep" /\ ~Taken(d)'
    <3>. TAKE d \in Conn, u \in Uuid
    <3>. HAVE PEERS'[u] = d
    <3>1. uuid'[d] = uuid[d]
      BY <2>2 DEF Open, Waiting
    <3>. QED BY <2>1, <3>1 DEF OnePlace, Taken
  <2>4. \A d, e \in Conn : partner'[e] = d =>
          /\ task'[d] \in {"none", "sleep"} /\ d # e
          /\ uuid'[d] = uuid'[e] /\ uuid'[e] # NoUuid
          /\ \A f \in Conn : partner'[f] = d => f = e
    <3>. TAKE d, e \in Conn
    <3>. HAVE partner'[e] = d
    <3>1. uuid'[d] = uuid[d]
      BY <2>2 DEF Open, Taken
    <3>2. uuid'[e] = uuid[e]
      BY <2>1, <2>2
    <3>. QED BY <2>1, <3>1, <3>2 DEF OnePlace, SameUuid
  <2>. QED BY <2>3, <2>4 DEF OnePlace, SameUuid
<1>7. ASSUME NEW c \in Conn, BeginRelay(c) \/ Report(c) PROVE OnePlace' /\ SameUuid'
  BY <1>7 DEF BeginRelay, Report, OnePlace, SameUuid, Taken
<1>8. ASSUME NEW c \in Conn, StopRelay(c) \/ HangUp(c) PROVE OnePlace' /\ SameUuid'
  BY <1>8 DEF StopRelay, HangUp, OnePlace, SameUuid, Taken
<1>9. ASSUME NEW c \in Conn, EndSession(c) PROVE OnePlace' /\ SameUuid'
  <2>1. /\ task[c] = "ending" /\ PEERS' = PEERS
        /\ task' = [task EXCEPT ![c] = "none"]
        /\ partner' = [partner EXCEPT ![c] = NoConn]
    BY <1>9 DEF EndSession
  <2>2. \A d \in Conn : Open(d)' \/ task'[d] # "none" => uuid'[d] = uuid[d]
    BY <1>9, UuidKept DEF EndSession
  <2>3. \A d \in Conn, u \in Uuid : PEERS'[u] = d =>
          uuid'[d] = u /\ task'[d] = "sleep" /\ ~Taken(d)'
    <3>. TAKE d \in Conn, u \in Uuid
    <3>. HAVE PEERS'[u] = d
    <3>1. uuid'[d] = uuid[d]
      BY <2>2 DEF Open, Waiting
    <3>. QED BY <2>1, <3>1 DEF OnePlace, Taken
  <2>4. \A d, e \in Conn : partner'[e] = d =>
          /\ task'[d] \in {"none", "sleep"} /\ d # e
          /\ uuid'[d] = uuid'[e] /\ uuid'[e] # NoUuid
          /\ \A f \in Conn : partner'[f] = d => f = e
    <3>. TAKE d, e \in Conn
    <3>. HAVE partner'[e] = d
    <3>1. partner[e] = d /\ e # c
      BY <2>1
    <3>2. uuid'[d] = uuid[d]
      BY <2>2 DEF Open, Taken
    <3>3. uuid'[e] = uuid[e]
      BY <2>1, <2>2, <3>1
    <3>. QED BY <2>1, <3>1, <3>2, <3>3 DEF OnePlace, SameUuid
  <2>. QED BY <2>3, <2>4 DEF OnePlace, SameUuid
<1>10. CASE UNCHANGED vars
  BY <1>10 DEF vars, OnePlace, SameUuid, Taken
<1>. QED
  BY <1>1, <1>2, <1>3, <1>4, <1>5, <1>6, <1>7, <1>8, <1>9, <1>10 DEF Next

\* A stream is in one place, and relayed only to one that asked for its uuid.
THEOREM PlaceCorrect == Spec => [](OnePlace /\ SameUuid)
<1>1. Init => PlaceInv
  BY PairingAssumption DEF Init, PlaceInv, TypeOK, Stage, OnePlace, SameUuid, Taken
<1>2. PlaceInv /\ [Next]_vars => PlaceInv'
  BY PlaceStep, TypeStep DEF PlaceInv
<1>. QED BY <1>1, <1>2, PTL DEF Spec, PlaceInv

\* Why a waiting stream leaves PEERS.
LEMMA EvictionStep ==
  ASSUME PlaceInv, [Next]_vars, NEW u \in Uuid, NEW c \in Conn,
         PEERS[u] = c, PEERS'[u] # c
  PROVE  \/ Taken(c)'
         \/ TimerFires(c)
         \/ \E d \in Conn \ {c} : uuid[d] = u /\ task[d] \in {"missed", "sleep"}
<1>. USE DEF PlaceInv, TypeOK
<1>0. task[c] = "sleep" /\ c # NoConn
  BY PairingAssumption DEF OnePlace
<1>1. PICK d \in Conn : \/ \E v \in Uuid : Match(d, v)
                       \/ Enter(d) \/ TimerFires(d)
  BY DEF Next, vars, Accept, Refuse, Miss, BeginRelay, Report, StopRelay,
         EndSession, HangUp
<1>2. ASSUME NEW v \in Uuid, Match(d, v) PROVE Taken(c)'
  <2>1. v = u /\ partner'[d] = c
    BY <1>2 DEF Match
  <2>. QED BY <2>1 DEF Taken
<1>3. CASE Enter(d)
  <2>1. uuid[d] = u /\ task[d] = "missed"
    BY <1>3 DEF Enter
  <2>. QED BY <1>0, <2>1
<1>4. CASE TimerFires(d)
  <2>1. uuid[d] = u /\ task[d] = "sleep"
    BY <1>4 DEF TimerFires
  <2>. QED BY <1>4, <2>1
<1>. QED BY <1>1, <1>2, <1>3, <1>4

\* A waiting stream is dropped by its own timer, or because its uuid was used
\* twice; otherwise it leaves PEERS with a partner.
THEOREM EvictionCorrect == Spec => EvictionNeedsReuse
<1>1. PlaceInv /\ [Next]_vars =>
        [\A u \in Uuid, c \in Conn : PEERS[u] = c /\ PEERS'[u] # c =>
           \/ Taken(c)'
           \/ TimerFires(c)
           \/ \E d \in Conn \ {c} : uuid[d] = u /\ task[d] \in {"missed", "sleep"}]_vars
  BY EvictionStep
<1>2. PlaceInv <=> TypeOK /\ OnePlace /\ SameUuid
  BY DEF PlaceInv
<1>. QED BY <1>1, <1>2, TypeCorrect, PlaceCorrect, PTL DEF Spec, EvictionNeedsReuse

-----------------------------------------------------------------------------
(* The sessions listed. *)

\* Entries are made and removed by the sessions they stand for.
LEMMA UsageStep ==
  ASSUME TypeOK, UsageListsSessions, [Next]_vars
  PROVE  UsageListsSessions'
<1>. USE DEF TypeOK, UsageListsSessions
<1>1. ASSUME NEW c \in Conn,
             USAGE' = USAGE,
             \A d \in Conn : task'[d] \in {"relay", "ending"} <=> task[d] \in {"relay", "ending"},
             \A d \in Conn : task'[d] = "relay" => task[d] = "relay"
      PROVE  UsageListsSessions'
  BY <1>1
<1>2. ASSUME NEW c \in Conn, \/ Accept(c) \/ Refuse(c) \/ \E u \in Uuid : Match(c, u) \/ Miss(c, u)
                             \/ Enter(c) \/ TimerFires(c) \/ StopRelay(c) \/ HangUp(c)
      PROVE  UsageListsSessions'
  BY <1>1, <1>2 DEF Accept, Refuse, Match, Miss, Enter, TimerFires, StopRelay, HangUp
<1>3. ASSUME NEW c \in Conn, BeginRelay(c) \/ Report(c) PROVE UsageListsSessions'
  BY <1>3 DEF BeginRelay, Report
<1>4. ASSUME NEW c \in Conn, EndSession(c) PROVE UsageListsSessions'
  BY <1>4 DEF EndSession
<1>5. CASE UNCHANGED vars
  BY <1>5 DEF vars
<1>. QED BY <1>2, <1>3, <1>4, <1>5 DEF Next

\* The sessions listed exist; sessions with a label of their own are listed.
THEOREM UsageCorrect == Spec => []UsageListsSessions
<1>1. Init => UsageListsSessions
  BY DEF Init, UsageListsSessions
<1>. QED BY <1>1, UsageStep, TypeCorrect, PTL DEF Spec

-----------------------------------------------------------------------------
(* make_pair_ implements RelayPairs. *)

\* A connection without a request has no uuid.
NoRequestNoUuid ==
  \A c \in Conn :
    task[c] = "recv" \/ (task[c] = "none" /\ ~Open(c)) => uuid[c] = NoUuid

FullInv == PlaceInv /\ NoRequestNoUuid

\* Whoever loses the last of task and stream is forgotten.
LEMMA NoRequestStep ==
  ASSUME FullInv, [Next]_vars
  PROVE  NoRequestNoUuid'
<1>. USE PairingAssumption DEF FullInv, PlaceInv, TypeOK, Stage, NoRequestNoUuid
<1>1. ASSUME NEW c \in Conn, Accept(c) \/ Refuse(c) PROVE NoRequestNoUuid'
  BY <1>1 DEF Accept, Refuse, Open, Owning, Taken, Waiting
<1>2. ASSUME NEW c \in Conn, NEW u \in Uuid, Match(c, u) PROVE NoRequestNoUuid'
  <2>1. PICK p \in Conn : p = PEERS[u]
    BY <1>2 DEF Match
  <2>2. \A d \in Conn : Open(d) => Open(d)'
    <3>. TAKE d \in Conn
    <3>. HAVE Open(d)
    <3>1. CASE d = p
      BY <1>2, <2>1, <3>1 DEF Match, Open, Taken
    <3>2. CASE d # p
      BY <1>2, <2>1, <3>2 DEF Match, Open, Owning, Taken, Waiting
    <3>. QED BY <3>1, <3>2
  <2>. QED BY <1>2, <2>2 DEF Match, Open, Owning
<1>3. ASSUME NEW c \in Conn, NEW u \in Uuid, Miss(c, u) PROVE NoRequestNoUuid'
  BY <1>3 DEF Miss, Open, Owning, Taken, Waiting
<1>4. ASSUME NEW c \in Conn, Enter(c) PROVE NoRequestNoUuid'
  <2>1. \A d \in Conn : uuid'[d] = uuid[d] \/ uuid'[d] = NoUuid
    BY <1>4, ForgettingSome DEF Enter
  <2>2. \A d \in Conn : Open(d) /\ task'[d] = "none" => Open(d)'
    <3>. TAKE d \in Conn
    <3>. HAVE Open(d) /\ task'[d] = "none"
    <3>1. task[d] = "none" /\ d # c
      BY <1>4 DEF Enter
    <3>2. Taken(d)
      BY <3>1 DEF Open, Owning, Waiting, OnePlace
    <3>. QED BY <1>4, <3>2 DEF Enter, Open, Taken
  <2>. QED BY <1>4, <2>1, <2>2 DEF Enter
<1>5. ASSUME NEW c \in Conn, TimerFires(c) PROVE NoRequestNoUuid'
  <2>1. \A d \in Conn : uuid'[d] = uuid[d] \/ uuid'[d] = NoUuid
    BY <1>5, ForgettingSome DEF TimerFires
  <2>2. \A d \in Conn \ {c} : Open(d) /\ task'[d] = "none" => Open(d)'
    <3>. TAKE d \in Conn \ {c}
    <3>. HAVE Open(d) /\ task'[d] = "none"
    <3>1. task[d] = "none"
      BY <1>5 DEF TimerFires
    <3>2. Taken(d)
      BY <3>1 DEF Open, Owning, Waiting, OnePlace
    <3>. QED BY <1>5, <3>2 DEF TimerFires, Open, Taken
  <2>3. ~Open(c)' => uuid'[c] = NoUuid
    BY <1>5 DEF TimerFires, Forgetting
  <2>. QED BY <1>5, <2>1, <2>2, <2>3 DEF TimerFires
<1>6. ASSUME NEW c \in Conn, BeginRelay(c) \/ Report(c) \/ StopRelay(c) \/ HangUp(c)
      PROVE  NoRequestNoUuid'
  BY <1>6 DEF BeginRelay, Report, StopRelay, HangUp, Open, Owning, Taken, Waiting
<1>7. ASSUME NEW c \in Conn, EndSession(c) PROVE NoRequestNoUuid'
  <2>1. PICK p \in Conn : p = partner[c]
    BY <1>7 DEF EndSession
  <2>2. \A d \in Conn : uuid'[d] = uuid[d] \/ uuid'[d] = NoUuid
    BY <1>7, ForgettingSome DEF EndSession
  <2>3. \A d \in Conn \ {c, p} : Open(d) => Open(d)'
    BY <1>7, <2>1 DEF EndSession, Open, Owning, Taken, Waiting
  <2>4. \A d \in {c, p} : task'[d] = "none" /\ ~Open(d)' => uuid'[d] = NoUuid
    BY <1>7, <2>1 DEF EndSession, Forgetting
  <2>. QED BY <1>7, <2>2, <2>3, <2>4 DEF EndSession
<1>8. CASE UNCHANGED vars
  BY <1>8 DEF vars, Open, Taken, Waiting
<1>. QED BY <1>1, <1>2, <1>3, <1>4, <1>5, <1>6, <1>7, <1>8 DEF Next

\* The inductive invariant the refinement rests on.
LEMMA FullInvCorrect == Spec => []FullInv
<1>1. Init => FullInv
  BY PairingAssumption
  DEF Init, FullInv, PlaceInv, TypeOK, Stage, OnePlace, SameUuid, Taken,
      NoRequestNoUuid
<1>2. FullInv /\ [Next]_vars => FullInv'
  BY PlaceStep, TypeStep, NoRequestStep DEF FullInv, PlaceInv
<1>. QED BY <1>1, <1>2, PTL DEF Spec

Sessions == {{c, partner[c]} : c \in {d \in Conn : partner[d] # NoConn}}

\* Whoever is in a session relays or was taken.
LEMMA InSession ==
  ASSUME TypeOK, NEW c \in Conn
  PROVE  (\E p \in Sessions : c \in p) <=> partner[c] # NoConn \/ Taken(c)
<1>. USE PairingAssumption DEF Sessions, Taken, TypeOK
<1>1. ASSUME NEW d \in Conn, partner[d] # NoConn, c \in {d, partner[d]}
      PROVE  \E p \in Sessions : c \in p
  <2>1. {d, partner[d]} \in Sessions
    BY <1>1
  <2>. QED BY <1>1, <2>1
<1>2. ASSUME NEW p \in Sessions, c \in p
      PROVE  partner[c] # NoConn \/ Taken(c)
  <2>1. PICK d \in Conn : partner[d] # NoConn /\ p = {d, partner[d]}
    BY <1>2
  <2>. QED BY <1>2, <2>1
<1>. QED BY <1>1, <1>2

\* Every step is one of RelayPairs, or a stutter.
LEMMA PairsStep ==
  ASSUME FullInv, [Next]_vars
  PROVE  [Pairs!Next]_(Pairs!vars)
<1>. USE PairingAssumption
     DEF FullInv, PlaceInv, TypeOK, Stage, Pairs!Next, Pairs!vars
<1>0. \A c \in Conn : Pairs!Paired(c) <=> partner[c] # NoConn \/ Taken(c)
  BY InSession DEF Pairs!Paired, Sessions
<1>1. ASSUME NEW c \in Conn, NEW u \in Uuid, Match(c, u) PROVE Pairs!Next
  <2>1. PICK p \in Conn : p = PEERS[u]
    BY <1>1 DEF Match
  <2>2. /\ uuid[p] = u /\ task[p] = "sleep" /\ ~Taken(p) /\ p # c
        /\ task[c] = "recv" /\ uuid[c] = NoUuid /\ ~Taken(c)
        /\ partner[c] = NoConn /\ partner[p] = NoConn
    BY <1>1, <2>1 DEF Match, OnePlace, Taken, NoRequestNoUuid
  <2>3. Sessions' = Sessions \cup {{p, c}}
    BY <1>1, <2>1, <2>2 DEF Match, Sessions
  <2>4. Pairs!Meet(p, c, u)
    BY <1>0, <1>1, <2>1, <2>2, <2>3 DEF Match, Pairs!Meet, Sessions
  <2>. QED BY <2>4
<1>2. ASSUME NEW c \in Conn, NEW u \in Uuid, Miss(c, u) PROVE Pairs!Next
  <2>1. /\ uuid[c] = NoUuid /\ ~Taken(c) /\ partner[c] = NoConn
    BY <1>2 DEF Miss, OnePlace, Taken, NoRequestNoUuid
  <2>2. Pairs!Ask(c, u)
    BY <1>0, <1>2, <2>1 DEF Miss, Pairs!Ask
  <2>. QED BY <2>2
<1>3. ASSUME NEW c \in Conn, Enter(c) PROVE UNCHANGED Pairs!vars
  <2>1. \A d \in Conn : uuid'[d] = uuid[d]
    <3>. SUFFICES ASSUME NEW d \in Conn, uuid'[d] # uuid[d] PROVE FALSE
      OBVIOUS
    <3>1. d \in {PEERS[uuid[c]]} /\ task'[d] = "none"
      BY <1>3, ForgettingSome DEF Enter
    <3>. QED BY <1>3, <3>1 DEF Enter, OnePlace
  <2>2. uuid' = uuid
    BY <1>3, <2>1, ForgettingSome DEF Enter
  <2>. QED BY <1>3, <2>2 DEF Enter
<1>4. ASSUME NEW c \in Conn, TimerFires(c) PROVE Pairs!Next \/ UNCHANGED Pairs!vars
  <2>1. uuid' \in [Conn -> Uuid \cup {NoUuid}] /\ partner' = partner
    BY <1>4, ForgettingSome DEF TimerFires
  <2>2. \A d \in Conn \ {c} : uuid'[d] = uuid[d]
    <3>. SUFFICES ASSUME NEW d \in Conn \ {c}, uuid'[d] # uuid[d] PROVE FALSE
      OBVIOUS
    <3>1. d = PEERS[uuid[c]] /\ task'[d] = "none"
      BY <1>4, ForgettingSome DEF TimerFires
    <3>. QED BY <1>4, <3>1 DEF TimerFires, OnePlace
  <2>3. CASE uuid'[c] = uuid[c]
    BY <2>1, <2>2, <2>3
  <2>4. CASE uuid'[c] # uuid[c]
    <3>1. uuid'[c] = NoUuid /\ ~Open(c)'
      BY <1>4, <2>4, ForgettingSome DEF TimerFires
    <3>2. ~Taken(c) /\ partner[c] = NoConn
      BY <1>4, <3>1 DEF TimerFires, Open, Taken
    <3>3. Pairs!Leave(c)
      BY <1>0, <2>1, <2>2, <3>1, <3>2 DEF Pairs!Leave
    <3>. QED BY <3>3
  <2>. QED BY <2>3, <2>4
<1>5. ASSUME NEW c \in Conn, EndSession(c) PROVE Pairs!Next
  <2>1. PICK p \in Conn : p = partner[c] /\ p # c
    BY <1>5 DEF EndSession, SameUuid
  <2>2. uuid' \in [Conn -> Uuid \cup {NoUuid}]
        /\ \A d \in Conn \ {c, p} : uuid'[d] = uuid[d]
    BY <1>5, <2>1, ForgettingSome DEF EndSession
  <2>3. uuid'[p] \in {uuid[p], NoUuid}
    BY <1>5, ForgettingSome DEF EndSession
  <2>4. uuid'[c] = NoUuid
    <3>1. ~Open(c)' /\ task'[c] = "none"
      BY <1>5 DEF EndSession, Open, Owning, Waiting, Taken, OnePlace
    <3>. QED BY <1>5, <3>1 DEF EndSession, Forgetting
  <2>5. /\ partner' = [partner EXCEPT ![c] = NoConn]
        /\ \A d \in Conn : partner[d] # c
    BY <1>5 DEF EndSession, OnePlace
  <2>6. Sessions' = Sessions \ {{p, c}}
    <3>1. \A d \in Conn \ {c} : partner[d] # NoConn => {d, partner[d]} # {p, c}
      BY <2>1, <2>5 DEF OnePlace
    <3>. QED BY <2>1, <2>5, <3>1 DEF Sessions
  <2>7. {p, c} \in Sessions
    BY <2>1 DEF Sessions
  <2>8. uuid' = [uuid EXCEPT ![c] = NoUuid, ![p] = uuid'[p]]
    BY <2>1, <2>2, <2>4
  <2>9. Pairs!Part(p, c)
    BY <2>3, <2>6, <2>7, <2>8 DEF Pairs!Part, Sessions
  <2>. QED BY <2>9
<1>6. ASSUME NEW c \in Conn,
             Accept(c) \/ Refuse(c) \/ BeginRelay(c) \/ Report(c) \/ StopRelay(c) \/ HangUp(c)
      PROVE  UNCHANGED Pairs!vars
  BY <1>6 DEF Accept, Refuse, BeginRelay, Report, StopRelay, HangUp
<1>7. CASE UNCHANGED vars
  BY <1>7 DEF vars
<1>. QED BY <1>1, <1>2, <1>3, <1>4, <1>5, <1>6, <1>7 DEF Next

\* hbbr keeps its promise: pairs ask for the same uuid, nobody joins a pair or
\* changes partners.
THEOREM PairsCorrect == Spec => PairsSpec
<1>1. Init => Pairs!Init
  BY DEF Init, Pairs!Init
<1>2. FullInv /\ [Next]_vars => [Pairs!Next]_(Pairs!vars)
  BY PairsStep
<1>. QED BY <1>1, <1>2, FullInvCorrect, PTL DEF Spec, PairsSpec, Pairs!Spec

=============================================================================
