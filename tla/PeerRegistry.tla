---------------------------- MODULE PeerRegistry ----------------------------
(***************************************************************************)
(* PeerMap (src/src/peer.rs) with its table peer (src/src/database.rs) as  *)
(* the handlers of hbbs use it: handle_register_pk, update_addr and the    *)
(* reads through PeerMap::get (src/src/rendezvous_server.rs).              *)
(*                                                                         *)
(* A task is the UDP loop (one datagram at a time) or a spawned future: a  *)
(* TCP or websocket connection, a punch hole request for an id that is not *)
(* in memory.  Tasks interleave at every await, that is between any two    *)
(* lock acquisitions or SQL statements: one action per such section.       *)
(*                                                                         *)
(* A record is an Arc<RwLock<Peer>>: map and the tasks hold handles, heap  *)
(* holds the records.  A handle taken from the map stays valid after the   *)
(* map has been given another one for the same id.                         *)
(*                                                                         *)
(* Left out: requests refused by the format checks or by the IP blocker,   *)
(* which change nothing here, and the IP_CHANGES statistics.               *)
(***************************************************************************)
EXTENDS PeerRecords

CONSTANTS Id, Task,
          UdpTasks,     \* the UDP loop: at most one of the tasks
          Handle, NoHandle,
          SourceAddr,   \* addresses requests come from
          Claim,        \* the (uuid, pk) pairs devices register
          NoRequest, NoRow,
          DbMayFail     \* may an SQL statement return an error?

ASSUME RegistryAssumption ==
  /\ UdpTasks \subseteq Task
  /\ NoHandle \notin Handle
  /\ SourceAddr \subseteq Addr
  /\ Claim \subseteq [uuid : Uuid, pk : Pk]
  /\ DbMayFail \in BOOLEAN

VARIABLES
  map,       \* PeerMap.map: id -> handle
  heap,      \* the records behind the handles
  table,     \* table peer: guid -> row
  pc, req,   \* per task: next section of its handler, request it serves
  hdl,       \* per task: the handle it holds
  row,       \* per task: the row PeerMap::get has read
  changed,   \* per task: the local `changed` of handle_register_pk
  rate,      \* per task: its local copy `req_pk` of reg_pk
  guid,      \* per task: the local `guid` of PeerMap::update_pk
  disturbed  \* history: ids whose handlers overlapped, or met an SQL error,
             \* since the server started; read by properties only

locals == <<pc, req, hdl, row, changed, rate, guid>>
vars == <<map, heap, table, pc, req, hdl, row, changed, rate, guid, disturbed>>

-----------------------------------------------------------------------------
PkRequest == [op : {"RegisterPk"}, id : Id, addr : Addr, uuid : Uuid,
              pk : Pk, ws : BOOLEAN]
PeerRequest == [op : {"RegisterPeer"}, id : Id, addr : Addr]
GetRequest == [op : {"Get"}, id : Id]
Request == PkRequest \cup PeerRequest \cup GetRequest

Pc == {"idle", "touch", "fetch", "load", "get_or", "check", "read_rate",
       "write_rate", "write_peer", "store", "set_guid"}

TableRow == [id : Id, uuid : Uuid, pk : Pk, ip : Ip]

ASSUME SentinelAssumption ==
  NoRow \notin TableRow \cup Row /\ NoRequest \notin Request

Init ==
  /\ map = [i \in Id |-> NoHandle]
  /\ heap = [h \in Handle |-> DefaultPeer]
  /\ table = [g \in Guid |-> NoRow]
  /\ pc = [t \in Task |-> "idle"]
  /\ req = [t \in Task |-> NoRequest]
  /\ hdl = [t \in Task |-> NoHandle]
  /\ row = [t \in Task |-> NoRow]
  /\ changed = [t \in Task |-> FALSE]
  /\ rate = [t \in Task |-> 0]
  /\ guid = [t \in Task |-> NoGuid]
  /\ disturbed = {}

-----------------------------------------------------------------------------
(* Bookkeeping of records and tasks. *)

Referenced(h) == (\E i \in Id : map[i] = h) \/ (\E t \in Task : hdl[t] = h)

\* An allocation: a handle nobody holds.
Free == {h \in Handle : ~Referenced(h)}

\* The record behind a handle nobody holds any more is dropped.
Dropping(hp) ==
  [h \in Handle |-> IF Referenced(h)' THEN hp[h] ELSE DefaultPeer]

\* Row g is the one "where id = ?" selects.
IsRowOf(g, i) == table[g] # NoRow /\ table[g].id = i
HasRow(i) == \E g \in Guid : IsRowOf(g, i)
RowGuid(i) == CHOOSE g \in Guid : IsRowOf(g, i)

Goto(t, label) == pc' = [pc EXCEPT ![t] = label]

\* The handler of t returns.
Finish(t) ==
  /\ Goto(t, "idle")
  /\ req' = [req EXCEPT ![t] = NoRequest]
  /\ hdl' = [hdl EXCEPT ![t] = NoHandle]
  /\ row' = [row EXCEPT ![t] = NoRow]
  /\ changed' = [changed EXCEPT ![t] = FALSE]
  /\ rate' = [rate EXCEPT ![t] = 0]
  /\ guid' = [guid EXCEPT ![t] = NoGuid]

\* A handler that reads the map through `get` starts while another one runs.
Overlap(t, i) ==
  \E u \in Task \ {t} :
    /\ pc[u] # "idle" /\ req[u].id = i
    /\ req[u].op # "RegisterPeer"

-----------------------------------------------------------------------------
(* PeerMap::get and get_or. *)

\* The read lock of map: a hit gives the handle, a miss turns to the table.
Start(t, rq) ==
  /\ pc[t] = "idle"
  /\ req' = [req EXCEPT ![t] = rq]
  /\ disturbed' = disturbed \cup (IF Overlap(t, rq.id) THEN {rq.id} ELSE {})
  /\ UNCHANGED <<map, heap, table, row, changed, rate, guid>>

\* handle_register_pk, up to the read of the map.
RegisterPk(t, rq) ==
  /\ t \in UdpTasks => ~rq.ws
  /\ ~rq.ws => rq.addr.port # 0
  /\ Start(t, rq)
  /\ \/ /\ map[rq.id] # NoHandle
        /\ hdl' = [hdl EXCEPT ![t] = map[rq.id]]
        /\ Goto(t, "check")
     \/ /\ map[rq.id] = NoHandle
        /\ Goto(t, "fetch")
        /\ UNCHANGED hdl

\* Mutant: the map is not consulted first.
GetBlind(t, i) ==
  /\ t \notin UdpTasks
  /\ Start(t, [op |-> "Get", id |-> i])
  /\ Goto(t, "fetch")
  /\ UNCHANGED hdl

\* PeerMap::get for a punch hole request or get_pk; a hit only reads.  The
\* UDP loop spawns a task for it.
Get(t, i) ==
  /\ t \notin UdpTasks
  /\ map[i] = NoHandle
  /\ Start(t, [op |-> "Get", id |-> i])
  /\ Goto(t, "fetch")
  /\ UNCHANGED hdl

Snapshot(g) == [guid |-> g, uuid |-> table[g].uuid, pk |-> table[g].pk,
                ip |-> table[g].ip]

\* Mutant: the statement has lost its "where".
FetchAnyRow(t) ==
  /\ pc[t] = "fetch"
  /\ \E g \in Guid : table[g] # NoRow /\ row' = [row EXCEPT ![t] = Snapshot(g)]
  /\ Goto(t, "load")
  /\ UNCHANGED <<map, heap, table, req, hdl, changed, rate, guid, disturbed>>

\* Database::get_peer finds the row.
FetchRow(t) ==
  /\ pc[t] = "fetch"
  /\ \E g \in Guid : /\ IsRowOf(g, req[t].id)
                     /\ row' = [row EXCEPT ![t] = Snapshot(g)]
  /\ Goto(t, "load")
  /\ UNCHANGED <<map, heap, table, req, hdl, changed, rate, guid, disturbed>>

\* It finds none; an error counts as none.
FetchNone(t) ==
  /\ pc[t] = "fetch"
  /\ \/ /\ ~HasRow(req[t].id)
        /\ UNCHANGED disturbed
     \/ /\ HasRow(req[t].id) /\ DbMayFail
        /\ disturbed' = disturbed \cup {req[t].id}
  /\ \/ /\ req[t].op = "RegisterPk"
        /\ Goto(t, "get_or")
        /\ UNCHANGED <<req, hdl, row, changed, rate, guid>>
     \/ /\ req[t].op = "Get"
        /\ Finish(t)
  /\ UNCHANGED <<map, heap, table>>

\* The write lock of map: a new record replaces whatever is there.
LoadRow(t) ==
  /\ pc[t] = "load"
  /\ \E h \in Free :
       /\ map' = [map EXCEPT ![req[t].id] = h]
       /\ \/ /\ req[t].op = "RegisterPk"
             /\ hdl' = [hdl EXCEPT ![t] = h]
             /\ row' = [row EXCEPT ![t] = NoRow]
             /\ Goto(t, "check")
             /\ UNCHANGED <<req, changed, rate, guid>>
          \/ /\ req[t].op = "Get"
             /\ Finish(t)
       /\ heap' = Dropping([heap EXCEPT ![h] = FromRow(row[t])])
  /\ UNCHANGED <<table, disturbed>>

\* Mutant: no second look, the blank record replaces what is there.
GetOrBlind(t) ==
  /\ pc[t] = "get_or"
  /\ \E h \in Free : /\ map' = [map EXCEPT ![req[t].id] = h]
                     /\ hdl' = [hdl EXCEPT ![t] = h]
  /\ heap' = Dropping(heap)
  /\ Goto(t, "check")
  /\ UNCHANGED <<table, req, row, changed, rate, guid, disturbed>>

\* get_or, after `get` found nothing: look again under the write lock.
GetOr(t) ==
  /\ pc[t] = "get_or"
  /\ \/ /\ map[req[t].id] # NoHandle
        /\ hdl' = [hdl EXCEPT ![t] = map[req[t].id]]
        /\ UNCHANGED <<map, heap>>
     \/ /\ map[req[t].id] = NoHandle
        /\ \E h \in Free : /\ map' = [map EXCEPT ![req[t].id] = h]
                           /\ hdl' = [hdl EXCEPT ![t] = h]
                           /\ heap' = [heap EXCEPT ![h] = DefaultPeer]
  /\ Goto(t, "check")
  /\ UNCHANGED <<table, req, row, changed, rate, guid, disturbed>>

-----------------------------------------------------------------------------
(* handle_register_pk, once it has the handle; PeerMap::update_pk. *)

Mine(t) == heap[hdl[t]]

\* The first read lock: whose id is it, and is there anything new?
Check(t) ==
  /\ pc[t] = "check"
  /\ UNCHANGED <<map, table, disturbed>>
  /\ \/ /\ UuidMismatch(Mine(t), req[t])
        /\ Finish(t)
        /\ heap' = Dropping(heap)
     \/ /\ ~UuidMismatch(Mine(t), req[t])
        /\ changed' = [changed EXCEPT ![t] = Changed(Mine(t), req[t])]
        /\ Goto(t, "read_rate")
        /\ UNCHANGED <<heap, req, hdl, row, rate, guid>>

\* The second read lock: how often was a key registered lately?
ReadRate(t) ==
  /\ pc[t] = "read_rate"
  /\ UNCHANGED <<map, table, disturbed>>
  /\ \/ /\ TooFrequent(Mine(t).rate)
        /\ Finish(t)
        /\ heap' = Dropping(heap)
     \/ /\ ~TooFrequent(Mine(t).rate)
        /\ rate' = [rate EXCEPT ![t] = Mine(t).rate + 1]
        /\ Goto(t, "write_rate")
        /\ UNCHANGED <<heap, req, hdl, row, changed, guid>>

\* Nothing new, and no websocket: accepted as it is.
WriteRate(t) ==
  /\ pc[t] = "write_rate"
  /\ UNCHANGED <<map, table, disturbed>>
  /\ \/ /\ changed[t] \/ req[t].ws
        /\ Goto(t, "write_peer")
        /\ heap' = [heap EXCEPT ![hdl[t]].rate = rate[t]]
        /\ rate' = [rate EXCEPT ![t] = 0]
        /\ UNCHANGED <<req, hdl, row, changed, guid>>
     \/ /\ ~changed[t] /\ ~req[t].ws
        /\ Finish(t)
        /\ heap' = Dropping([heap EXCEPT ![hdl[t]].rate = rate[t]])

WritePeer(t) ==
  /\ pc[t] = "write_peer"
  /\ guid' = [guid EXCEPT ![t] = Mine(t).guid]
  /\ heap' = [heap EXCEPT ![hdl[t]] = UpdatePk(@, req[t])]
  /\ Goto(t, "store")
  /\ UNCHANGED <<map, table, req, hdl, row, changed, rate, disturbed>>

RowOf(rq) == [id |-> rq.id, uuid |-> rq.uuid, pk |-> rq.pk, ip |-> rq.addr.ip]

\* Database::insert_peer, under a new guid; index_peer_id keeps ids unique.
InsertPeer(t) ==
  /\ pc[t] = "store" /\ guid[t] = NoGuid
  /\ ~HasRow(req[t].id)
  /\ \E g \in Guid : /\ table[g] = NoRow
                     /\ table' = [table EXCEPT ![g] = RowOf(req[t])]
                     /\ guid' = [guid EXCEPT ![t] = g]
  /\ Goto(t, "set_guid")
  /\ UNCHANGED <<map, heap, req, hdl, row, changed, rate, disturbed>>

\* Mutants: the update forgets the key, or writes the uuid as well.
TableUpdateInfo(r, rq) == [r EXCEPT !.id = rq.id, !.ip = rq.addr.ip]
TableUpdateUuid(r, rq) == RowOf(rq)

\* update peer set id=?, pk=?, info=? where guid=?
TableUpdate(r, rq) == [r EXCEPT !.id = rq.id, !.pk = rq.pk, !.ip = rq.addr.ip]

\* Database::update_pk.
UpdateRow(t) ==
  /\ pc[t] = "store" /\ guid[t] # NoGuid
  /\ table' = [table EXCEPT ![guid[t]] =
                 IF @ = NoRow THEN NoRow ELSE TableUpdate(@, req[t])]
  /\ Finish(t)
  /\ UNCHANGED <<map, disturbed>>
  /\ heap' = Dropping(heap)

\* An SQL error is logged; handle_register_pk still answers OK.
StoreFails(t) ==
  /\ pc[t] = "store"
  /\ DbMayFail \/ (guid[t] = NoGuid /\ HasRow(req[t].id))
  /\ disturbed' = disturbed \cup {req[t].id}
  /\ Finish(t)
  /\ UNCHANGED <<map, table>>
  /\ heap' = Dropping(heap)

\* The write lock again, after the insert.
SetGuid(t) ==
  /\ pc[t] = "set_guid"
  /\ Finish(t)
  /\ UNCHANGED <<map, table, disturbed>>
  /\ heap' = Dropping([heap EXCEPT ![hdl[t]].guid = guid[t]])

-----------------------------------------------------------------------------
(* update_addr: the heartbeat.  An id that is not in memory changes nothing. *)

RegisterPeer(t, i, addr) ==
  /\ pc[t] = "idle"
  /\ t \in UdpTasks => addr.port # 0
  /\ map[i] # NoHandle
  /\ req' = [req EXCEPT ![t] = [op |-> "RegisterPeer", id |-> i, addr |-> addr]]
  /\ hdl' = [hdl EXCEPT ![t] = map[i]]
  /\ Goto(t, "touch")
  /\ UNCHANGED <<map, heap, table, row, changed, rate, guid, disturbed>>

TouchPeer(t) ==
  /\ pc[t] = "touch"
  /\ Finish(t)
  /\ UNCHANGED <<map, table, disturbed>>
  /\ heap' = Dropping([heap EXCEPT ![hdl[t]] = UpdateAddr(@, req[t].addr)])

-----------------------------------------------------------------------------
(* Time, and the death of the process. *)

\* REG_TIMEOUT has passed since the last registration.
RegExpires(h) ==
  /\ heap[h].fresh
  /\ heap' = [heap EXCEPT ![h].fresh = FALSE]
  /\ UNCHANGED <<map, table, locals, disturbed>>

\* More than six seconds since the last RegisterPk.
RateExpires(h) ==
  /\ heap[h].rate # 0
  /\ heap' = [heap EXCEPT ![h].rate = 0]
  /\ UNCHANGED <<map, table, locals, disturbed>>

\* Memory and tasks are gone, the table stays.
Crash ==
  /\ map' = [i \in Id |-> NoHandle]
  /\ heap' = [h \in Handle |-> DefaultPeer]
  /\ pc' = [t \in Task |-> "idle"]
  /\ req' = [t \in Task |-> NoRequest]
  /\ hdl' = [t \in Task |-> NoHandle]
  /\ row' = [t \in Task |-> NoRow]
  /\ changed' = [t \in Task |-> FALSE]
  /\ rate' = [t \in Task |-> 0]
  /\ guid' = [t \in Task |-> NoGuid]
  /\ disturbed' = {}
  /\ UNCHANGED table

-----------------------------------------------------------------------------
PkRequests ==
  {[op |-> "RegisterPk", id |-> i, addr |-> a, uuid |-> c.uuid, pk |-> c.pk,
    ws |-> w] : i \in Id, a \in SourceAddr, c \in Claim, w \in BOOLEAN}

TaskStep(t) ==
  \/ FetchRow(t) \/ FetchNone(t) \/ LoadRow(t) \/ GetOr(t)
  \/ Check(t) \/ ReadRate(t) \/ WriteRate(t)
  \/ WritePeer(t) \/ InsertPeer(t) \/ UpdateRow(t) \/ StoreFails(t) \/ SetGuid(t)
  \/ TouchPeer(t)

Arrival(t) ==
  \/ \E rq \in PkRequests : RegisterPk(t, rq)
  \/ \E i \in Id : Get(t, i)
  \/ \E i \in Id, a \in SourceAddr : RegisterPeer(t, i, a)

Next ==
  \/ \E t \in Task : Arrival(t) \/ TaskStep(t)
  \/ \E h \in Handle : RegExpires(h) \/ RateExpires(h)
  \/ Crash

Spec == Init /\ [][Next]_vars

-----------------------------------------------------------------------------
(* Properties. *)

\* Every variable keeps its type; a task past its read of the map holds a
\* record, and only such a task does.
TypeOK ==
  /\ map \in [Id -> Handle \cup {NoHandle}]
  /\ heap \in [Handle -> Peer]
  /\ table \in [Guid -> TableRow \cup {NoRow}]
  /\ pc \in [Task -> Pc]
  /\ req \in [Task -> Request \cup {NoRequest}]
  /\ hdl \in [Task -> Handle \cup {NoHandle}]
  /\ row \in [Task -> Row \cup {NoRow}]
  /\ changed \in [Task -> BOOLEAN]
  /\ rate \in [Task -> Rate]
  /\ guid \in [Task -> Guid \cup {NoGuid}]
  /\ disturbed \subseteq Id

\* A record reachable for id i: through the map or a task that serves i.
Holds(h, i) ==
  map[i] = h \/ \E t \in Task : hdl[t] = h /\ req[t].id = i

\* The guid in a record of id i names a row of i, whatever overlapped or
\* failed: "update peer set id=?, ... where guid=?" (Database::update_pk)
\* never turns one id's row into another's.
GuidNamesOwnRow ==
  \A h \in Handle, i \in Id :
    Holds(h, i) /\ heap[h].guid # NoGuid =>
      /\ table[heap[h].guid] # NoRow
      /\ table[heap[h].guid].id = i

\* While SQL statements succeed, no RegisterPk is ever checked against a blank
\* record of an id that has a row: get_or's second look and the order "record
\* first, row second" of update_pk keep a known id from being taken for a new
\* one (UUID_MISMATCH could not be detected).
KnownIdNeverLooksNew ==
  DbMayFail \/
  \A i \in Id : HasRow(i) =>
    /\ map[i] # NoHandle => heap[map[i]].uuid # NoUuid
    /\ \A t \in Task : pc[t] = "check" /\ req[t].id = i => Mine(t).uuid # NoUuid

\* A peer that handle_punch_hole_request takes for online has a key to sign
\* and an address to send the PunchHole to.
OnlineIsReachable ==
  \A h \in Handle : heap[h].fresh => heap[h].pk # NoPk /\ heap[h].addr # NoAddr

\* The two places that remember where a peer is agree (socket_addr and
\* info.ip), loopback aside: update_addr compares a heartbeat with the one or
\* the other, depending on the port.
AddressAgrees ==
  \A h \in Handle :
    heap[h].addr.ip \in Loopback \cup {NoIp} \/ heap[h].addr.ip = heap[h].ip

\* What a record says of its peer is consistent.
RecordsAgree == OnlineIsReachable /\ AddressAgrees

Quiet(i) == \A t \in Task : req[t] = NoRequest \/ req[t].id # i

\* When the handlers of an id did not overlap and no statement failed, memory
\* and table agree between requests: what is served (get_pk) is what survives
\* a restart.
SerialAgreement ==
  \A i \in Id \ disturbed : Quiet(i) /\ map[i] # NoHandle =>
    LET p == heap[map[i]] IN
      IF HasRow(i)
      THEN /\ p.guid = RowGuid(i)
           /\ [id |-> i, uuid |-> p.uuid, pk |-> p.pk, ip |-> p.ip] = table[p.guid]
      ELSE p.uuid = NoUuid /\ p.pk = NoPk

\* The step in which a RegisterPk is answered OK.
Accepted(t) ==
  /\ pc[t] # "idle" /\ pc'[t] = "idle"
  /\ WriteRate(t) \/ UpdateRow(t) \/ StoreFails(t) \/ SetGuid(t)

\* RegisterPk answered OK: the table holds this machine and this key, unless
\* handlers overlapped or a statement failed.  In particular a "nothing
\* changed" answer is right about the table, not only about memory.
AckedIsStored ==
  [][\A t \in Task :
       Accepted(t) /\ req[t].id \notin disturbed' =>
         \E g \in Guid : table'[g] # NoRow /\ table'[g] = RowOf(req[t])]_vars

Online(i) == map[i] # NoHandle /\ heap[map[i]].fresh

\* A peer that is online stays so until REG_TIMEOUT passes or the server
\* dies: no handler makes it forget a heartbeat (unless two lookups of the
\* same id overlap: the second one's blank record replaces the first's).
OnlineUntilExpiry ==
  [][\A i \in Id \ disturbed' :
       Online(i) /\ ~Online(i)' => RegExpires(map[i]) \/ Crash]_vars

\* The table implements the promise about identities.
Store ==
  INSTANCE IdentityStore WITH
    owner <- [i \in Id |-> IF HasRow(i) THEN table[RowGuid(i)].uuid ELSE NoUuid],
    key <- [i \in Id |-> IF HasRow(i) THEN table[RowGuid(i)].pk ELSE NoPk]

StoreSpec == Store!Spec
=============================================================================
