------------------------- MODULE PeerRegistryProofs -------------------------
(***************************************************************************)
(* What holds of PeerRegistry for any number of ids, tasks, handles and    *)
(* requests, with or without database errors:                              *)
(*                                                                         *)
(*   TypeCorrect       the type invariant, and what a task holds at each   *)
(*                     section of its handler (Stages);                    *)
(*   RecordsCorrect    an online record has key and address, and the two   *)
(*                     places that remember the address agree;             *)
(*   GuidsCorrect      a record's guid names a row of the record's own id; *)
(*   KnownCorrect      an id that has a row is never taken for a new one;  *)
(*   SerialCorrect     memory and table agree about an id whose handlers   *)
(*                     did not overlap;                                    *)
(*   AckedCorrect      what is answered OK is stored;                      *)
(*   OnlineCorrect     an online peer stays online until its time is up;   *)
(*   StoreCorrect      the table implements IdentityStore.                 *)
(***************************************************************************)
EXTENDS PeerRegistry, TLAPS

-----------------------------------------------------------------------------
(* Records. *)

\* A blank record (Peer::default) is a record.
LEMMA DefaultPeerType == DefaultPeer \in Peer
BY RecordAssumption DEF DefaultPeer, Peer, NoAddr, Rate

\* The record made of a row is a record.
LEMMA FromRowType ==
  ASSUME NEW r \in Row
  PROVE  FromRow(r) \in Peer
BY DefaultPeerType DEF FromRow, Peer, Row, DefaultPeer

\* A heartbeat leaves a record a record.
LEMMA UpdateAddrType ==
  ASSUME NEW p \in Peer, NEW a \in Addr
  PROVE  UpdateAddr(p, a) \in Peer
BY DEF UpdateAddr, Peer

\* A registration leaves a record a record.
LEMMA UpdatePkType ==
  ASSUME NEW p \in Peer, NEW rq \in PkRequest
  PROVE  UpdatePk(p, rq) \in Peer
BY DEF UpdatePk, Peer, PkRequest, Addr

-----------------------------------------------------------------------------
(* Type correctness. *)

LocalsOK ==
  /\ pc \in [Task -> Pc]
  /\ req \in [Task -> Request \cup {NoRequest}]
  /\ hdl \in [Task -> Handle \cup {NoHandle}]
  /\ row \in [Task -> Row \cup {NoRow}]
  /\ changed \in [Task -> BOOLEAN]
  /\ rate \in [Task -> Rate]
  /\ guid \in [Task -> Guid \cup {NoGuid}]

\* What a task has at each section of its handler.
Stages ==
  \A t \in Task :
    /\ pc[t] = "idle" => req[t] = NoRequest /\ hdl[t] = NoHandle
    /\ pc[t] = "touch" => req[t] \in PeerRequest /\ hdl[t] \in Handle
    /\ pc[t] \in {"fetch", "load"} => req[t] \in PkRequest \cup GetRequest
    /\ pc[t] = "load" => row[t] \in Row
    /\ pc[t] = "get_or" => req[t] \in PkRequest
    /\ pc[t] \in {"check", "read_rate", "write_rate", "write_peer", "store",
                  "set_guid"} => req[t] \in PkRequest /\ hdl[t] \in Handle
    /\ pc[t] = "set_guid" => guid[t] \in Guid

TypeInv == TypeOK /\ Stages

\* A handler that returns leaves no local behind.
LEMMA FinishType ==
  ASSUME TypeInv, NEW t \in Task, Finish(t)
  PROVE  LocalsOK' /\ Stages'
<1>1. LocalsOK'
  BY RecordAssumption
  DEF TypeInv, TypeOK, LocalsOK, Finish, Goto, Pc, Rate
<1>2. Stages'
  BY DEF TypeInv, TypeOK, Stages, Finish, Goto, Pc
<1>. QED BY <1>1, <1>2

\* Dropping unreferenced records keeps the heap a heap.
LEMMA DroppingType ==
  ASSUME NEW hp \in [Handle -> Peer]
  PROVE  Dropping(hp) \in [Handle -> Peer]
BY DefaultPeerType DEF Dropping

\* The requests that arrive are RegisterPk requests.
LEMMA PkRequestsType == PkRequests \subseteq PkRequest
BY RegistryAssumption DEF PkRequests, PkRequest

\* One action keeps the types and the stages: the parts that fail together.
LEMMA ArrivalType ==
  ASSUME TypeInv, NEW t \in Task, Arrival(t)
  PROVE  TypeInv'
<1>. USE DEF TypeInv, TypeOK, Stages, Pc, Start, Goto
<1>1. CASE \E rq \in PkRequests : RegisterPk(t, rq)
  <2>. PICK rq \in PkRequests : RegisterPk(t, rq)
    BY <1>1
  <2>1. rq \in PkRequest /\ rq.id \in Id
    BY PkRequestsType DEF PkRequest
  <2>2. disturbed' \subseteq Id
    BY <2>1 DEF RegisterPk
  <2>3. TypeOK'
    BY <2>1, <2>2, RegistryAssumption DEF RegisterPk, Request
  <2>4. Stages'
    BY <2>1, RegistryAssumption DEF RegisterPk
  <2>. QED BY <2>3, <2>4
<1>2. CASE \E i \in Id : Get(t, i)
  <2>. PICK i \in Id : Get(t, i)
    BY <1>2
  <2>1. [op |-> "Get", id |-> i] \in GetRequest
    BY DEF GetRequest
  <2>2. disturbed' \subseteq Id
    BY DEF Get
  <2>3. TypeOK'
    BY <2>1, <2>2 DEF Get, Request
  <2>4. Stages'
    BY <2>1 DEF Get
  <2>. QED BY <2>3, <2>4
<1>3. CASE \E i \in Id, a \in SourceAddr : RegisterPeer(t, i, a)
  <2>. PICK i \in Id, a \in SourceAddr : RegisterPeer(t, i, a)
    BY <1>3
  <2>1. [op |-> "RegisterPeer", id |-> i, addr |-> a] \in PeerRequest
    BY RegistryAssumption DEF PeerRequest
  <2>2. TypeOK'
    BY <2>1 DEF RegisterPeer, Request
  <2>3. Stages'
    BY <2>1 DEF RegisterPeer
  <2>. QED BY <2>2, <2>3
<1>. QED BY <1>1, <1>2, <1>3 DEF Arrival

\* A section of a handler keeps the types, and passes the next stage what it
\* needs.
LEMMA TaskStepType ==
  ASSUME TypeInv, NEW t \in Task, TaskStep(t)
  PROVE  TypeInv'
<1>. USE DEF TypeInv
<1>0. Finish(t) => LocalsOK' /\ Stages'
  BY FinishType
<1>h. /\ heap \in [Handle -> Peer]
      /\ \A h \in Handle : heap[h].rate \in Rate /\ heap[h].guid \in Guid \cup {NoGuid}
  BY DEF TypeOK, Peer
<1>1. CASE FetchRow(t)
  <2>. PICK g \in Guid : IsRowOf(g, req[t].id) /\ row' = [row EXCEPT ![t] = Snapshot(g)]
    BY <1>1 DEF FetchRow
  <2>1. Snapshot(g) \in Row
    BY DEF Snapshot, IsRowOf, TypeOK, TableRow, Row
  <2>2. TypeOK'
    BY <1>1, <2>1 DEF FetchRow, TypeOK, Goto, Pc
  <2>3. Stages'
    BY <1>1, <2>1 DEF FetchRow, TypeOK, Stages, Goto, Pc
  <2>. QED BY <2>2, <2>3
<1>2. CASE FetchNone(t)
  <2>1. disturbed' \subseteq Id
    BY <1>2 DEF FetchNone, Stages, TypeOK, PkRequest, GetRequest
  <2>2. CASE Finish(t)
    BY <1>0, <1>2, <2>1, <2>2 DEF FetchNone, TypeOK, LocalsOK
  <2>3. CASE /\ req[t].op = "RegisterPk"
             /\ Goto(t, "get_or")
             /\ UNCHANGED <<req, hdl, row, changed, rate, guid>>
    <3>1. req[t] \in PkRequest
      BY <1>2, <2>3 DEF FetchNone, Stages, GetRequest
    <3>2. TypeOK'
      BY <1>2, <2>1, <2>3 DEF FetchNone, TypeOK, Goto, Pc
    <3>3. Stages'
      BY <2>3, <3>1 DEF TypeOK, Stages, Goto, Pc
    <3>. QED BY <3>2, <3>3
  <2>. QED BY <1>2, <2>2, <2>3 DEF FetchNone
<1>3. CASE LoadRow(t)
  <2>. PICK h \in Free : /\ map' = [map EXCEPT ![req[t].id] = h]
                         /\ heap' = Dropping([heap EXCEPT ![h] = FromRow(row[t])])
    BY <1>3 DEF LoadRow
  <2>1. h \in Handle /\ row[t] \in Row
    BY <1>3 DEF LoadRow, Stages, Free
  <2>2. heap' \in [Handle -> Peer]
    BY <2>1, <1>h, FromRowType, DroppingType
  <2>3. map' \in [Id -> Handle \cup {NoHandle}]
    BY <2>1 DEF TypeOK
  <2>4. CASE req[t].op = "Get"
    BY <1>0, <1>3, <2>2, <2>3, <2>4 DEF LoadRow, TypeOK, LocalsOK
  <2>5. CASE req[t].op = "RegisterPk"
    <3>1. req[t] \in PkRequest
      BY <1>3, <2>5 DEF LoadRow, Stages, GetRequest
    <3>2. PICK k \in Free : hdl' = [hdl EXCEPT ![t] = k]
      BY <1>3, <2>5 DEF LoadRow
    <3>3. /\ row' = [row EXCEPT ![t] = NoRow] /\ Goto(t, "check")
          /\ UNCHANGED <<req, changed, rate, guid, table, disturbed>>
      BY <1>3, <2>5 DEF LoadRow
    <3>4. k \in Handle
      BY DEF Free
    <3>5. TypeOK'
      BY <2>2, <2>3, <3>2, <3>3, <3>4 DEF TypeOK, Goto, Pc
    <3>6. Stages'
      BY <3>1, <3>2, <3>3, <3>4 DEF TypeOK, Stages, Goto, Pc
    <3>. QED BY <3>5, <3>6
  <2>. QED BY <1>3, <2>4, <2>5 DEF LoadRow
<1>4. CASE GetOr(t)
  <2>1. req[t] \in PkRequest /\ req[t].id \in Id
    BY <1>4 DEF GetOr, Stages, PkRequest
  <2>2. PICK h \in Handle : /\ hdl' = [hdl EXCEPT ![t] = h]
                            /\ \/ map' = map
                               \/ map' = [map EXCEPT ![req[t].id] = h]
                            /\ heap' \in [Handle -> Peer]
    BY <1>4, <1>h, <2>1, DefaultPeerType DEF GetOr, Free, TypeOK
  <2>3. TypeOK'
    BY <1>4, <2>2 DEF GetOr, TypeOK, Goto, Pc
  <2>4. Stages'
    BY <1>4, <2>1, <2>2 DEF GetOr, TypeOK, Stages, Goto, Pc
  <2>. QED BY <2>3, <2>4
<1>5. CASE Check(t)
  <2>1. CASE Finish(t) /\ heap' = Dropping(heap)
    BY <1>0, <1>5, <1>h, <2>1, DroppingType DEF Check, TypeOK, LocalsOK
  <2>2. CASE ~(Finish(t) /\ heap' = Dropping(heap))
    <3>1. TypeOK'
      BY <1>5, <2>2 DEF Check, TypeOK, Goto, Pc, Changed
    <3>2. Stages'
      BY <1>5, <2>2 DEF Check, TypeOK, Stages, Goto, Pc
    <3>. QED BY <3>1, <3>2
  <2>. QED BY <2>1, <2>2
<1>6. CASE ReadRate(t)
  <2>1. CASE Finish(t) /\ heap' = Dropping(heap)
    BY <1>0, <1>6, <1>h, <2>1, DroppingType DEF ReadRate, TypeOK, LocalsOK
  <2>2. CASE ~(Finish(t) /\ heap' = Dropping(heap))
    <3>1. hdl[t] \in Handle
      BY <1>6 DEF ReadRate, Stages
    <3>2. Mine(t).rate \in Rate /\ ~(Mine(t).rate > RegPkLimit)
      BY <1>6, <1>h, <2>2, <3>1 DEF ReadRate, Mine, TooFrequent
    <3>3. Mine(t).rate + 1 \in Rate
      BY <3>2, RecordAssumption DEF Rate
    <3>4. TypeOK'
      BY <1>6, <2>2, <3>3 DEF ReadRate, TypeOK, Goto, Pc
    <3>5. Stages'
      BY <1>6, <2>2 DEF ReadRate, TypeOK, Stages, Goto, Pc
    <3>. QED BY <3>4, <3>5
  <2>. QED BY <2>1, <2>2
<1>7. CASE WriteRate(t)
  <2>1. hdl[t] \in Handle /\ rate[t] \in Rate
    BY <1>7 DEF WriteRate, Stages, TypeOK
  <2>2. [heap EXCEPT ![hdl[t]].rate = rate[t]] \in [Handle -> Peer]
    BY <2>1, <1>h DEF Peer
  <2>3. CASE changed[t] \/ req[t].ws
    <3>1. TypeOK'
      BY <1>7, <2>2, <2>3, RecordAssumption DEF WriteRate, TypeOK, Goto, Pc, Rate
    <3>2. Stages'
      BY <1>7, <2>3 DEF WriteRate, TypeOK, Stages, Goto, Pc
    <3>. QED BY <3>1, <3>2
  <2>4. CASE ~(changed[t] \/ req[t].ws)
    BY <1>0, <1>7, <2>2, <2>4, DroppingType DEF WriteRate, TypeOK, LocalsOK
  <2>. QED BY <2>3, <2>4
<1>8. CASE WritePeer(t)
  <2>1. hdl[t] \in Handle /\ req[t] \in PkRequest
    BY <1>8 DEF WritePeer, Stages
  <2>2. heap' \in [Handle -> Peer]
    BY <1>8, <1>h, <2>1, UpdatePkType DEF WritePeer
  <2>3. TypeOK'
    BY <1>8, <1>h, <2>1, <2>2 DEF WritePeer, TypeOK, Goto, Pc, Mine
  <2>4. Stages'
    BY <1>8, <2>1 DEF WritePeer, TypeOK, Stages, Goto, Pc
  <2>. QED BY <2>3, <2>4
<1>9. CASE InsertPeer(t)
  <2>1. RowOf(req[t]) \in TableRow
    BY <1>9, RegistryAssumption, RecordAssumption
    DEF InsertPeer, Stages, RowOf, TableRow, PkRequest, Addr
  <2>2. TypeOK'
    BY <1>9, <2>1 DEF InsertPeer, TypeOK, Goto, Pc
  <2>3. Stages'
    BY <1>9 DEF InsertPeer, TypeOK, Stages, Goto, Pc
  <2>. QED BY <2>2, <2>3
<1>10. CASE UpdateRow(t)
  <2>1. guid[t] \in Guid /\ req[t] \in PkRequest
    BY <1>10 DEF UpdateRow, Stages, TypeOK
  <2>2. req[t].id \in Id /\ req[t].pk \in Pk /\ req[t].addr.ip \in Ip \cup {NoIp}
    BY <2>1 DEF PkRequest, Addr
  <2>3. \A r \in TableRow : TableUpdate(r, req[t]) \in TableRow
    BY <2>1 DEF TableUpdate, TableRow, PkRequest, Addr
  <2>4. table' \in [Guid -> TableRow \cup {NoRow}]
    BY <1>10, <2>1, <2>3 DEF UpdateRow, TypeOK
  <2>. QED BY <1>0, <1>10, <1>h, <2>4, DroppingType DEF UpdateRow, TypeOK, LocalsOK
<1>11. CASE StoreFails(t)
  <2>1. req[t].id \in Id
    BY <1>11 DEF StoreFails, Stages, PkRequest
  <2>. QED BY <1>0, <1>11, <1>h, <2>1, DroppingType DEF StoreFails, TypeOK, LocalsOK
<1>12. CASE SetGuid(t)
  <2>1. [heap EXCEPT ![hdl[t]].guid = guid[t]] \in [Handle -> Peer]
    BY <1>12, <1>h DEF SetGuid, Stages, Peer
  <2>. QED BY <1>0, <1>12, <2>1, DroppingType DEF SetGuid, TypeOK, LocalsOK
<1>13. CASE TouchPeer(t)
  <2>1. req[t].addr \in Addr /\ hdl[t] \in Handle
    BY <1>13 DEF TouchPeer, Stages, PeerRequest
  <2>2. [heap EXCEPT ![hdl[t]] = UpdateAddr(@, req[t].addr)] \in [Handle -> Peer]
    BY <1>h, <2>1, UpdateAddrType
  <2>. QED BY <1>0, <1>13, <2>2, DroppingType DEF TouchPeer, TypeOK, LocalsOK
<1>. QED
  BY <1>1, <1>2, <1>3, <1>4, <1>5, <1>6, <1>7, <1>8, <1>9, <1>10, <1>11, <1>12,
     <1>13 DEF TaskStep

\* Types and stages are an inductive invariant.
LEMMA TypeInvCorrect == Spec => []TypeInv
<1>1. Init => TypeInv
  BY RecordAssumption, DefaultPeerType
  DEF Init, TypeInv, TypeOK, Stages, Pc, Rate
<1>2. TypeInv /\ [Next]_vars => TypeInv'
  <2>. SUFFICES ASSUME TypeInv, [Next]_vars PROVE TypeInv'
    OBVIOUS
  <2>1. ASSUME NEW t \in Task, Arrival(t) \/ TaskStep(t) PROVE TypeInv'
    BY <2>1, ArrivalType, TaskStepType
  <2>2. ASSUME NEW h \in Handle, RegExpires(h) \/ RateExpires(h) PROVE TypeInv'
    <3>0. 0 \in Rate /\ heap \in [Handle -> Peer]
      BY RecordAssumption DEF Rate, TypeInv, TypeOK
    <3>1. \A p \in Peer : /\ [p EXCEPT !.fresh = FALSE] \in Peer
                          /\ [p EXCEPT !.rate = 0] \in Peer
      BY <3>0 DEF Peer
    <3>2. heap' \in [Handle -> Peer]
      BY <2>2, <3>0, <3>1 DEF RegExpires, RateExpires
    <3>. QED
      BY <2>2, <3>2
      DEF RegExpires, RateExpires, locals, TypeInv, TypeOK, Stages
  <2>3. CASE Crash
    BY <2>3, RecordAssumption, DefaultPeerType
    DEF Crash, TypeInv, TypeOK, Stages, Pc, Rate
  <2>4. CASE UNCHANGED vars
    BY <2>4 DEF vars, TypeInv, TypeOK, Stages
  <2>. QED BY <2>1, <2>2, <2>3, <2>4 DEF Next
<1>. QED BY <1>1, <1>2, PTL DEF Spec

\* Whatever overlaps, fails or crashes, every variable keeps its type; in
\* particular the count of registrations never passes its limit.
THEOREM TypeCorrect == Spec => []TypeOK
BY TypeInvCorrect, PTL DEF TypeInv

-----------------------------------------------------------------------------
(* Records: OnlineIsReachable and AddressAgrees, record by record. *)

RecordOK(p) ==
  /\ p.fresh => p.pk # NoPk /\ p.addr # NoAddr
  /\ p.addr.ip \in Loopback \cup {NoIp} \/ p.addr.ip = p.ip

RecordsOK == \A h \in Handle : RecordOK(heap[h])

\* Record by record, this is what the two invariants say.
LEMMA RecordsOKMeans == RecordsOK <=> RecordsAgree
BY DEF RecordsOK, RecordOK, RecordsAgree, OnlineIsReachable, AddressAgrees

\* A blank record, and one made of a row, is not online and has no address.
LEMMA NewRecordOK ==
  /\ RecordOK(DefaultPeer)
  /\ \A r \in Row : RecordOK(FromRow(r))
BY DEF RecordOK, DefaultPeer, FromRow, NoAddr

\* A heartbeat counts only with a key, and moves the address only to where
\* the peer registered or to the loopback.
LEMMA UpdateAddrOK ==
  ASSUME NEW p \in Peer, NEW a \in Addr, RecordOK(p)
  PROVE  RecordOK(UpdateAddr(p, a))
<1>1. CASE RequestPk(p, a)
  BY <1>1 DEF UpdateAddr
<1>2. CASE ~RequestPk(p, a)
  <2>1. a # NoAddr /\ p.pk # NoPk
    BY <1>2, RecordAssumption DEF RequestPk, Addr, NoAddr
  <2>2. a.ip \in Loopback \/ a.ip = p.ip
    BY <1>2, RecordAssumption DEF RequestPk, IpMoved, RecordOK, Addr
  <2>3. UpdateAddr(p, a) = [p EXCEPT !.addr = a, !.fresh = TRUE]
    BY <1>2 DEF UpdateAddr
  <2>. QED BY <2>1, <2>2, <2>3 DEF RecordOK, Peer
<1>. QED BY <1>1, <1>2

\* A registration sets key, address and ip together.
LEMMA UpdatePkOK ==
  ASSUME NEW p \in Peer, NEW rq \in PkRequest
  PROVE  RecordOK(UpdatePk(p, rq))
BY RecordAssumption DEF UpdatePk, RecordOK, Peer, PkRequest, Addr, NoAddr

\* Dropping records loses nothing of this.
LEMMA DroppingOK ==
  ASSUME NEW hp, \A h \in Handle : RecordOK(hp[h])
  PROVE  \A h \in Handle : RecordOK(Dropping(hp)[h])
BY NewRecordOK DEF Dropping

\* No section of a handler leaves a record inconsistent.
LEMMA TaskStepRecords ==
  ASSUME TypeInv, RecordsOK, NEW t \in Task, TaskStep(t)
  PROVE  RecordsOK'
<1>. USE DEF RecordsOK
<1>h. heap \in [Handle -> Peer] /\ Stages
  BY DEF TypeInv, TypeOK
<1>1. CASE heap' = heap \/ heap' = Dropping(heap)
  BY <1>1, DroppingOK
<1>2. CASE LoadRow(t)
  <2>1. PICK h \in Handle : heap' = Dropping([heap EXCEPT ![h] = FromRow(row[t])])
    BY <1>2 DEF LoadRow, Free
  <2>2. row[t] \in Row
    BY <1>2, <1>h DEF LoadRow, Stages
  <2>3. \A k \in Handle : RecordOK([heap EXCEPT ![h] = FromRow(row[t])][k])
    BY <1>h, <2>2, NewRecordOK
  <2>. QED BY <2>1, <2>3, DroppingOK
<1>3. CASE WriteRate(t) \/ SetGuid(t)
  <2>. DEFINE hp == [heap EXCEPT ![hdl[t]].rate = rate[t]]
              hg == [heap EXCEPT ![hdl[t]].guid = guid[t]]
  <2>1. \A k \in Handle : RecordOK(hp[k]) /\ RecordOK(hg[k])
    BY <1>h DEF RecordOK, Peer
  <2>2. heap' = hp \/ heap' = Dropping(hp) \/ heap' = Dropping(hg)
    BY <1>3 DEF WriteRate, SetGuid
  <2>. QED BY <2>1, <2>2, DroppingOK
<1>4. CASE WritePeer(t)
  BY <1>4, <1>h, UpdatePkOK DEF WritePeer, Stages
<1>5. CASE TouchPeer(t)
  <2>1. req[t].addr \in Addr /\ hdl[t] \in Handle
    BY <1>5, <1>h DEF TouchPeer, Stages, PeerRequest
  <2>2. \A k \in Handle :
          RecordOK([heap EXCEPT ![hdl[t]] = UpdateAddr(@, req[t].addr)][k])
    BY <1>h, <2>1, UpdateAddrOK
  <2>. QED BY <1>5, <2>2, DroppingOK DEF TouchPeer
<1>6. CASE GetOr(t)
  BY <1>6, <1>h, NewRecordOK DEF GetOr, Free
<1>8. FetchRow(t) \/ FetchNone(t) \/ InsertPeer(t) => heap' = heap
  BY DEF FetchRow, FetchNone, InsertPeer
<1>7. Check(t) \/ ReadRate(t) \/ UpdateRow(t) \/ StoreFails(t)
        => heap' = heap \/ heap' = Dropping(heap)
  BY DEF Check, ReadRate, UpdateRow, StoreFails
<1>. QED BY <1>1, <1>2, <1>3, <1>4, <1>5, <1>6, <1>7, <1>8 DEF TaskStep

\* A peer taken for online has a key and an address, and the two places that
\* remember where it is agree.
THEOREM RecordsCorrect == Spec => []RecordsAgree
<1>1. Init => RecordsOK
  BY NewRecordOK DEF Init, RecordsOK
<1>2. TypeInv /\ RecordsOK /\ [Next]_vars => RecordsOK'
  <2>. SUFFICES ASSUME TypeInv, RecordsOK, [Next]_vars PROVE RecordsOK'
    OBVIOUS
  <2>1. ASSUME NEW t \in Task, Arrival(t) PROVE RecordsOK'
    BY <2>1 DEF Arrival, RegisterPk, Get, RegisterPeer, Start, RecordsOK
  <2>2. ASSUME NEW t \in Task, TaskStep(t) PROVE RecordsOK'
    BY <2>2, TaskStepRecords
  <2>3. ASSUME NEW h \in Handle, RegExpires(h) \/ RateExpires(h) PROVE RecordsOK'
    BY <2>3 DEF RegExpires, RateExpires, RecordsOK, RecordOK, TypeInv, TypeOK, Peer
  <2>4. CASE Crash
    BY <2>4, NewRecordOK DEF Crash, RecordsOK
  <2>5. CASE UNCHANGED vars
    BY <2>5 DEF vars, RecordsOK
  <2>. QED BY <2>1, <2>2, <2>3, <2>4, <2>5 DEF Next
<1>. QED BY <1>1, <1>2, TypeInvCorrect, RecordsOKMeans, PTL DEF Spec

-----------------------------------------------------------------------------
(* Guids.  A record serves one id; the guid in it, the row a task has read   *)
(* and the guid a task is about to use all name a row of that id.            *)

OneId ==
  \A h \in Handle, i, j \in Id : Holds(h, i) /\ Holds(h, j) => i = j

OneRow ==
  \A g, k \in Guid, i \in Id : IsRowOf(g, i) /\ IsRowOf(k, i) => g = k

RowReadIsOwn ==
  \A t \in Task : pc[t] = "load" => IsRowOf(row[t].guid, req[t].id)

GuidInUseIsOwn ==
  \A t \in Task :
    pc[t] \in {"store", "set_guid"} /\ guid[t] # NoGuid =>
      IsRowOf(guid[t], req[t].id)

GuidInv ==
  OneId /\ OneRow /\ GuidNamesOwnRow /\ RowReadIsOwn /\ GuidInUseIsOwn

\* A row keeps its id for good.
LEMMA RowsStay ==
  ASSUME TypeInv, GuidInv, [Next]_vars
  PROVE  \A g \in Guid, i \in Id : IsRowOf(g, i) => IsRowOf(g, i)'
<1>1. CASE table' = table
  BY <1>1 DEF IsRowOf
<1>2. ASSUME NEW t \in Task, InsertPeer(t)
      PROVE  \A g \in Guid, i \in Id : IsRowOf(g, i) => IsRowOf(g, i)'
  BY <1>2 DEF InsertPeer, IsRowOf, TypeInv, TypeOK
<1>3. ASSUME NEW t \in Task, UpdateRow(t)
      PROVE  \A g \in Guid, i \in Id : IsRowOf(g, i) => IsRowOf(g, i)'
  <2>1. guid[t] \in Guid /\ req[t] \in PkRequest /\ IsRowOf(guid[t], req[t].id)
    BY <1>3 DEF UpdateRow, TypeInv, TypeOK, Stages, GuidInv, GuidInUseIsOwn
  <2>2. table[guid[t]] \in TableRow
    BY <2>1 DEF IsRowOf, TypeInv, TypeOK
  <2>3. /\ TableUpdate(table[guid[t]], req[t]).id = req[t].id
        /\ TableUpdate(table[guid[t]], req[t]) \in TableRow
    BY <2>1, <2>2 DEF TableUpdate, TableRow, PkRequest, Addr
  <2>4. table' = [table EXCEPT ![guid[t]] = TableUpdate(table[guid[t]], req[t])]
    BY <1>3, <2>1, <2>2 DEF UpdateRow, IsRowOf
  <2>. QED
    BY <2>1, <2>3, <2>4, SentinelAssumption DEF IsRowOf, TypeInv, TypeOK
<1>4. table' = table \/ \E t \in Task : InsertPeer(t) \/ UpdateRow(t)
  BY DEF Next, Arrival, TaskStep, RegisterPk, Get, Start, RegisterPeer, FetchRow,
         FetchNone, LoadRow, GetOr, Check, ReadRate, WriteRate, WritePeer,
         StoreFails, SetGuid, TouchPeer, RegExpires, RateExpires, Crash, vars
<1>. QED BY <1>1, <1>2, <1>3, <1>4

\* index_peer_id: an insert waits for no row of the id.
LEMMA OneRowStep ==
  ASSUME TypeInv, GuidInv, [Next]_vars
  PROVE  OneRow'
<1>1. CASE table' = table
  BY <1>1 DEF GuidInv, OneRow, IsRowOf
<1>2. ASSUME NEW t \in Task, InsertPeer(t) PROVE OneRow'
  BY <1>2 DEF InsertPeer, GuidInv, OneRow, IsRowOf, HasRow, RowOf, TypeInv, TypeOK
<1>3. ASSUME NEW t \in Task, UpdateRow(t) PROVE OneRow'
  <2>1. guid[t] \in Guid /\ req[t] \in PkRequest /\ IsRowOf(guid[t], req[t].id)
    BY <1>3 DEF UpdateRow, TypeInv, TypeOK, Stages, GuidInv, GuidInUseIsOwn
  <2>2. table[guid[t]] \in TableRow
    BY <2>1 DEF IsRowOf, TypeInv, TypeOK
  <2>3. TableUpdate(table[guid[t]], req[t]).id = req[t].id
    BY <2>1, <2>2 DEF TableUpdate, TableRow
  <2>4. table' = [table EXCEPT ![guid[t]] = TableUpdate(table[guid[t]], req[t])]
    BY <1>3, <2>1, <2>2 DEF UpdateRow, IsRowOf
  <2>. QED
    BY <2>1, <2>3, <2>4 DEF GuidInv, OneRow, IsRowOf, TypeInv, TypeOK
<1>4. table' = table \/ \E t \in Task : InsertPeer(t) \/ UpdateRow(t)
  BY DEF Next, Arrival, TaskStep, RegisterPk, Get, Start, RegisterPeer, FetchRow,
         FetchNone, LoadRow, GetOr, Check, ReadRate, WriteRate, WritePeer,
         StoreFails, SetGuid, TouchPeer, RegExpires, RateExpires, Crash, vars
<1>. QED BY <1>1, <1>2, <1>3, <1>4

\* A step that gives no record a new holder, nor a new guid.
LEMMA NoNewHolder ==
  ASSUME TypeInv, GuidInv, [Next]_vars,
         \A h \in Handle, i \in Id : Holds(h, i)' => Holds(h, i),
         \A h \in Handle : heap'[h].guid \in {NoGuid, heap[h].guid}
  PROVE  OneId' /\ GuidNamesOwnRow'
<1>1. OneId'
  BY DEF GuidInv, OneId
<1>2. ASSUME NEW h \in Handle, NEW i \in Id, Holds(h, i)', heap'[h].guid # NoGuid
      PROVE  IsRowOf(heap[h].guid, i)'
  <2>1. heap'[h].guid = heap[h].guid /\ heap[h].guid \in Guid
    BY <1>2 DEF TypeInv, TypeOK, Peer
  <2>2. IsRowOf(heap[h].guid, i)
    BY <1>2, <2>1 DEF GuidInv, GuidNamesOwnRow, IsRowOf
  <2>. QED BY <2>1, <2>2, RowsStay DEF IsRowOf
<1>. QED BY <1>1, <1>2 DEF GuidNamesOwnRow, IsRowOf

\* The locals of the tasks that do not move keep naming own rows.
LEMMA OthersKeep ==
  ASSUME TypeInv, GuidInv, [Next]_vars, NEW t \in Task,
         \A u \in Task \ {t} : /\ pc'[u] = pc[u] /\ req'[u] = req[u]
                               /\ row'[u] = row[u] /\ guid'[u] = guid[u],
         pc'[t] = "load" => IsRowOf(row[t].guid, req[t].id)',
         pc'[t] \in {"store", "set_guid"} /\ guid'[t] # NoGuid =>
           IsRowOf(guid[t], req[t].id)'
  PROVE  RowReadIsOwn' /\ GuidInUseIsOwn'
<1>1. RowReadIsOwn'
  <2>1. ASSUME NEW u \in Task, u # t, pc[u] = "load"
        PROVE  IsRowOf(row[u].guid, req[u].id)'
    <3>1. row[u].guid \in Guid /\ req[u].id \in Id
      BY <2>1 DEF TypeInv, Stages, Row, PkRequest, GetRequest
    <3>2. IsRowOf(row[u].guid, req[u].id)
      BY <2>1 DEF GuidInv, RowReadIsOwn
    <3>. QED BY <2>1, <3>1, <3>2, RowsStay DEF IsRowOf
  <2>. QED BY <2>1 DEF RowReadIsOwn, IsRowOf
<1>2. GuidInUseIsOwn'
  <2>1. ASSUME NEW u \in Task, u # t, pc[u] \in {"store", "set_guid"},
               guid[u] # NoGuid
        PROVE  IsRowOf(guid[u], req[u].id)'
    <3>1. guid[u] \in Guid /\ req[u].id \in Id
      BY <2>1 DEF TypeInv, TypeOK, Stages, PkRequest
    <3>2. IsRowOf(guid[u], req[u].id)
      BY <2>1 DEF GuidInv, GuidInUseIsOwn
    <3>. QED BY <2>1, <3>1, <3>2, RowsStay DEF IsRowOf
  <2>. QED BY <2>1 DEF GuidInUseIsOwn, IsRowOf
<1>. QED BY <1>1, <1>2

\* A handler that returns lets go of its record.
LEMMA FinishHolds ==
  ASSUME TypeInv, RegistryAssumption, NEW t \in Task, Finish(t), map' = map
  PROVE  \A h \in Handle, i \in Id : Holds(h, i)' => Holds(h, i)
BY DEF Finish, Holds, TypeInv, TypeOK

\* The same, for the handlers that change a record's guid neither.
LEMMA FinishGuids ==
  ASSUME TypeInv, GuidInv, [Next]_vars, NEW t \in Task, Finish(t), map' = map,
         \A h \in Handle : heap'[h].guid \in {NoGuid, heap[h].guid}
  PROVE  GuidInv'
<1>1. \A h \in Handle, i \in Id : Holds(h, i)' => Holds(h, i)
  BY FinishHolds, RegistryAssumption
<1>2. /\ pc'[t] = "idle"
      /\ \A u \in Task \ {t} : /\ pc'[u] = pc[u] /\ req'[u] = req[u]
                               /\ row'[u] = row[u] /\ guid'[u] = guid[u]
  BY DEF Finish, Goto, TypeInv, TypeOK
<1>. QED BY <1>1, <1>2, NoNewHolder, OthersKeep, OneRowStep DEF GuidInv

\* Dropping records gives no record a new guid.
LEMMA DroppingGuid ==
  ASSUME NEW hp \in [Handle -> Peer],
         \A h \in Handle : hp[h].guid \in {NoGuid, heap[h].guid}
  PROVE  \A h \in Handle : Dropping(hp)[h].guid \in {NoGuid, heap[h].guid}
BY DEF Dropping, DefaultPeer

\* An arrival takes at most a handle of its own id from the map.
LEMMA ArrivalGuids ==
  ASSUME TypeInv, GuidInv, [Next]_vars, NEW t \in Task, Arrival(t)
  PROVE  GuidInv'
<1>1. PICK i \in Id, rq \in Request :
        /\ pc[t] = "idle" /\ rq.id = i
        /\ req' = [req EXCEPT ![t] = rq]
        /\ \/ hdl' = [hdl EXCEPT ![t] = map[i]]
           \/ hdl' = hdl
        /\ pc' \in {[pc EXCEPT ![t] = l] : l \in {"touch", "check", "fetch"}}
        /\ UNCHANGED <<map, heap, table, row, guid>>
  <2>1. CASE \E rq \in PkRequests : RegisterPk(t, rq)
    BY <2>1, PkRequestsType DEF RegisterPk, Start, Goto, PkRequest, Request
  <2>2. CASE \E i \in Id : Get(t, i)
    BY <2>2 DEF Get, Start, Goto, GetRequest, Request
  <2>3. CASE \E i \in Id, a \in SourceAddr : RegisterPeer(t, i, a)
    BY <2>3, RegistryAssumption DEF RegisterPeer, Goto, PeerRequest, Request
  <2>. QED BY <2>1, <2>2, <2>3 DEF Arrival
<1>2. hdl[t] = NoHandle
  BY <1>1 DEF TypeInv, Stages
<1>3. \A h \in Handle, j \in Id : Holds(h, j)' => Holds(h, j)
  BY <1>1, <1>2, RegistryAssumption DEF Holds, TypeInv, TypeOK
<1>4. \A h \in Handle : heap'[h].guid \in {NoGuid, heap[h].guid}
  BY <1>1
<1>5. RowReadIsOwn' /\ GuidInUseIsOwn'
  BY <1>1, OthersKeep DEF TypeInv, TypeOK
<1>. QED BY <1>3, <1>4, <1>5, NoNewHolder, OneRowStep DEF GuidInv

\* A step that gives one record, nobody's so far, to id i alone, with no guid
\* or that of a row of i.
LEMMA OneNewHolder ==
  ASSUME TypeInv, GuidInv, [Next]_vars, NEW k \in Free, NEW i \in Id,
         \A h \in Handle, j \in Id : Holds(h, j)' => Holds(h, j) \/ (h = k /\ j = i),
         \A h \in Handle \ {k} : heap'[h].guid \in {NoGuid, heap[h].guid},
         heap'[k].guid # NoGuid => IsRowOf(heap[k].guid, i)'
  PROVE  OneId' /\ GuidNamesOwnRow'
<1>1. k \in Handle /\ \A j \in Id : ~Holds(k, j)
  BY DEF Free, Referenced, Holds
<1>2. OneId'
  BY <1>1 DEF GuidInv, OneId
<1>3. ASSUME NEW h \in Handle, NEW j \in Id, Holds(h, j)', heap'[h].guid # NoGuid
      PROVE  IsRowOf(heap[h].guid, j)'
  <2>1. CASE h = k
    BY <1>1, <1>3, <2>1
  <2>2. CASE h # k
    <3>1. heap'[h].guid = heap[h].guid /\ heap[h].guid \in Guid
      BY <1>3, <2>2 DEF TypeInv, TypeOK, Peer
    <3>2. IsRowOf(heap[h].guid, j)
      BY <1>3, <2>2, <3>1 DEF GuidInv, GuidNamesOwnRow, IsRowOf
    <3>. QED BY <3>1, <3>2, RowsStay DEF IsRowOf
  <2>. QED BY <2>1, <2>2
<1>. QED BY <1>2, <1>3 DEF GuidNamesOwnRow, IsRowOf

\* The record made of a row carries that row's guid.
LEMMA LoadRowGuids ==
  ASSUME TypeInv, GuidInv, [Next]_vars, NEW t \in Task, LoadRow(t)
  PROVE  GuidInv'
<1>1. PICK i \in Id : i = req[t].id /\ row[t] \in Row /\ IsRowOf(row[t].guid, i)
  BY DEF LoadRow, TypeInv, Stages, PkRequest, GetRequest, GuidInv, RowReadIsOwn
<1>2. PICK k \in Free :
        /\ map' = [map EXCEPT ![i] = k]
        /\ heap' = Dropping([heap EXCEPT ![k] = FromRow(row[t])])
        /\ \/ hdl' = [hdl EXCEPT ![t] = k] /\ req' = req
           \/ Finish(t)
  BY <1>1 DEF LoadRow
<1>3. k \in Handle
  BY DEF Free
<1>4. table' = table /\ pc'[t] \in {"check", "idle"}
  BY DEF LoadRow, Finish, Goto, TypeInv, TypeOK
<1>5. \A h \in Handle, j \in Id : Holds(h, j)' => Holds(h, j) \/ (h = k /\ j = i)
  BY <1>1, <1>2, RegistryAssumption DEF Holds, Finish, TypeInv, TypeOK
<1>6. \A h \in Handle \ {k} : heap'[h].guid \in {NoGuid, heap[h].guid}
  BY <1>2 DEF Dropping, DefaultPeer, TypeInv, TypeOK
<1>7. heap'[k].guid \in {NoGuid, row[t].guid}
  <2>1. FromRow(row[t]).guid = row[t].guid /\ DefaultPeer.guid = NoGuid
    BY DEF FromRow, DefaultPeer
  <2>. QED BY <1>2, <1>3, <2>1 DEF Dropping, TypeInv, TypeOK
<1>8. heap'[k].guid # NoGuid => IsRowOf(heap[k].guid, i)'
  BY <1>1, <1>4, <1>7 DEF IsRowOf
<1>9. OneId' /\ GuidNamesOwnRow'
  BY <1>5, <1>6, <1>8, OneNewHolder
<1>10. \A u \in Task \ {t} : /\ pc'[u] = pc[u] /\ req'[u] = req[u]
                             /\ row'[u] = row[u] /\ guid'[u] = guid[u]
  BY DEF LoadRow, Finish, Goto, TypeInv, TypeOK
<1>. QED BY <1>4, <1>9, <1>10, OthersKeep, OneRowStep DEF GuidInv

\* A blank record carries none.
LEMMA GetOrGuids ==
  ASSUME TypeInv, GuidInv, [Next]_vars, NEW t \in Task, GetOr(t)
  PROVE  GuidInv'
<1>1. PICK i \in Id : i = req[t].id
  BY DEF GetOr, TypeInv, Stages, PkRequest
<1>2. RowReadIsOwn' /\ GuidInUseIsOwn'
  BY OthersKeep DEF GetOr, Goto, TypeInv, TypeOK
<1>3. CASE map' = map /\ heap' = heap /\ hdl' = [hdl EXCEPT ![t] = map[i]]
  <2>1. \A h \in Handle, j \in Id : Holds(h, j)' => Holds(h, j)
    BY <1>1, <1>3 DEF GetOr, Holds, TypeInv, TypeOK
  <2>2. \A h \in Handle : heap'[h].guid \in {NoGuid, heap[h].guid}
    BY <1>3
  <2>. QED BY <1>2, <2>1, <2>2, NoNewHolder, OneRowStep DEF GuidInv
<1>4. CASE \E k \in Free : /\ map' = [map EXCEPT ![i] = k]
                           /\ hdl' = [hdl EXCEPT ![t] = k]
                           /\ heap' = [heap EXCEPT ![k] = DefaultPeer]
  <2>1. PICK k \in Free : /\ map' = [map EXCEPT ![i] = k]
                          /\ hdl' = [hdl EXCEPT ![t] = k]
                          /\ heap' = [heap EXCEPT ![k] = DefaultPeer]
    BY <1>4
  <2>2. \A h \in Handle, j \in Id : Holds(h, j)' => Holds(h, j) \/ (h = k /\ j = i)
    BY <1>1, <2>1 DEF GetOr, Holds, TypeInv, TypeOK
  <2>3. heap'[k].guid = NoGuid
    BY <2>1 DEF Free, DefaultPeer, TypeInv, TypeOK
  <2>4. \A h \in Handle \ {k} : heap'[h].guid \in {NoGuid, heap[h].guid}
    BY <2>1 DEF TypeInv, TypeOK
  <2>. QED BY <1>2, <2>2, <2>3, <2>4, OneNewHolder, OneRowStep DEF GuidInv
<1>. QED BY <1>1, <1>3, <1>4 DEF GetOr

\* The guid just stored goes into the record of its id.
LEMMA SetGuidGuids ==
  ASSUME TypeInv, GuidInv, [Next]_vars, NEW t \in Task, SetGuid(t)
  PROVE  GuidInv'
<1>1. PICK i \in Id : /\ i = req[t].id /\ hdl[t] \in Handle /\ Holds(hdl[t], i)
                      /\ guid[t] \in Guid /\ IsRowOf(guid[t], i)
  BY RecordAssumption
  DEF SetGuid, TypeInv, Stages, PkRequest, Holds, GuidInv, GuidInUseIsOwn
<1>2. PICK k \in Handle : k = hdl[t]
  BY <1>1
<1>3. /\ \A h \in Handle \ {k} : heap'[h].guid \in {NoGuid, heap[h].guid}
      /\ heap'[k].guid \in {NoGuid, guid[t]}
  BY <1>2 DEF SetGuid, Dropping, DefaultPeer, TypeInv, TypeOK, Peer
<1>4. /\ table' = table
      /\ \A h \in Handle, j \in Id : Holds(h, j)' => Holds(h, j)
  BY FinishHolds, RegistryAssumption DEF SetGuid
<1>5. OneId'
  BY <1>4 DEF GuidInv, OneId
<1>6. ASSUME NEW h \in Handle, NEW j \in Id, Holds(h, j)', heap'[h].guid # NoGuid
      PROVE  IsRowOf(heap[h].guid, j)'
  <2>1. CASE h = k
    BY <1>1, <1>2, <1>3, <1>4, <1>6, <2>1 DEF IsRowOf, GuidInv, OneId
  <2>2. CASE h # k
    BY <1>3, <1>4, <1>6, <2>2 DEF IsRowOf, GuidInv, GuidNamesOwnRow
  <2>. QED BY <2>1, <2>2
<1>7. GuidNamesOwnRow'
  BY <1>6 DEF GuidNamesOwnRow, IsRowOf
<1>8. RowReadIsOwn' /\ GuidInUseIsOwn'
  BY OthersKeep DEF SetGuid, Finish, Goto, TypeInv, TypeOK
<1>. QED BY <1>5, <1>7, <1>8, OneRowStep DEF GuidInv

\* Sections that move on with the same record.
LEMMA GoOnGuids ==
  ASSUME TypeInv, GuidInv, [Next]_vars, NEW t \in Task,
         UNCHANGED <<map, hdl, req>>,
         \A h \in Handle : heap'[h].guid \in {NoGuid, heap[h].guid},
         \A u \in Task \ {t} : /\ pc'[u] = pc[u] /\ row'[u] = row[u]
                               /\ guid'[u] = guid[u],
         pc'[t] = "load" => IsRowOf(row[t].guid, req[t].id)',
         pc'[t] \in {"store", "set_guid"} /\ guid'[t] # NoGuid =>
           IsRowOf(guid[t], req[t].id)'
  PROVE  GuidInv'
<1>1. \A h \in Handle, i \in Id : Holds(h, i)' => Holds(h, i)
  BY DEF Holds
<1>2. RowReadIsOwn' /\ GuidInUseIsOwn'
  BY OthersKeep
<1>. QED BY <1>1, <1>2, NoNewHolder, OneRowStep DEF GuidInv

\* No section of a handler confuses the guids of two ids.
LEMMA TaskStepGuids ==
  ASSUME TypeInv, GuidInv, [Next]_vars, NEW t \in Task, TaskStep(t)
  PROVE  GuidInv'
<1>h. heap \in [Handle -> Peer] /\ Stages
  BY DEF TypeInv, TypeOK
<1>d. heap' = heap \/ heap' = Dropping(heap)
        => \A h \in Handle : heap'[h].guid \in {NoGuid, heap[h].guid}
  BY <1>h, DroppingGuid
<1>1. CASE FetchRow(t)
  BY <1>1, GoOnGuids DEF FetchRow, Goto, TypeInv, TypeOK, IsRowOf, Snapshot
<1>2. CASE FetchNone(t)
  <2>1. CASE Finish(t)
    BY <1>2, <2>1, FinishGuids DEF FetchNone
  <2>2. CASE ~Finish(t)
    BY <1>2, <2>2, GoOnGuids DEF FetchNone, Goto, TypeInv, TypeOK
  <2>. QED BY <2>1, <2>2
<1>3. CASE LoadRow(t)
  BY <1>3, LoadRowGuids
<1>4. CASE GetOr(t)
  BY <1>4, GetOrGuids
<1>5. CASE Check(t)
  <2>1. CASE Finish(t)
    BY <1>5, <1>d, <2>1, FinishGuids DEF Check
  <2>2. CASE ~Finish(t)
    BY <1>5, <2>2, GoOnGuids DEF Check, Goto, TypeInv, TypeOK
  <2>. QED BY <2>1, <2>2
<1>6. CASE ReadRate(t)
  <2>1. CASE Finish(t)
    BY <1>6, <1>d, <2>1, FinishGuids DEF ReadRate
  <2>2. CASE ~Finish(t)
    BY <1>6, <2>2, GoOnGuids DEF ReadRate, Goto, TypeInv, TypeOK
  <2>. QED BY <2>1, <2>2
<1>7. CASE WriteRate(t)
  <2>. DEFINE hp == [heap EXCEPT ![hdl[t]].rate = rate[t]]
  <2>0. rate[t] \in Rate /\ hdl[t] \in Handle
    BY <1>7, <1>h DEF WriteRate, Stages, TypeInv, TypeOK
  <2>a. \A p \in Peer : /\ [p EXCEPT !.rate = rate[t]] \in Peer
                        /\ [p EXCEPT !.rate = rate[t]].guid = p.guid
    BY <2>0 DEF Peer
  <2>1. /\ hp \in [Handle -> Peer]
        /\ \A h \in Handle : hp[h].guid \in {NoGuid, heap[h].guid}
    BY <1>h, <2>0, <2>a
  <2>2. heap' = hp \/ heap' = Dropping(hp)
    BY <1>7 DEF WriteRate
  <2>3. \A h \in Handle : heap'[h].guid \in {NoGuid, heap[h].guid}
    BY <2>1, <2>2, DroppingGuid
  <2>4. CASE Finish(t)
    BY <1>7, <2>3, <2>4, FinishGuids DEF WriteRate
  <2>5. CASE ~Finish(t)
    BY <1>7, <2>3, <2>5, GoOnGuids DEF WriteRate, Goto, TypeInv, TypeOK
  <2>. QED BY <2>4, <2>5
<1>8. CASE WritePeer(t)
  <2>1. hdl[t] \in Handle /\ req[t] \in PkRequest
    BY <1>8, <1>h DEF WritePeer, Stages
  <2>2. Holds(hdl[t], req[t].id) /\ req[t].id \in Id
    BY <2>1 DEF Holds, PkRequest
  <2>3. \A h \in Handle : heap'[h].guid \in {NoGuid, heap[h].guid}
    BY <1>8, <1>h, <2>1 DEF WritePeer, UpdatePk, Peer
  <2>4. guid'[t] # NoGuid => IsRowOf(guid[t], req[t].id)'
    BY <1>8, <2>1, <2>2
    DEF WritePeer, Mine, GuidInv, GuidNamesOwnRow, IsRowOf, TypeInv, TypeOK
  <2>. QED BY <1>8, <2>3, <2>4, GoOnGuids DEF WritePeer, Goto, TypeInv, TypeOK
<1>9. CASE InsertPeer(t)
  <2>1. req[t] \in PkRequest /\ RowOf(req[t]) # NoRow
    BY <1>9, <1>h, RecordAssumption, SentinelAssumption
    DEF InsertPeer, Stages, RowOf, TableRow, PkRequest, Addr
  <2>2. IsRowOf(guid[t], req[t].id)'
    BY <1>9, <2>1 DEF InsertPeer, IsRowOf, RowOf, TypeInv, TypeOK
  <2>. QED BY <1>9, <2>2, GoOnGuids DEF InsertPeer, Goto, TypeInv, TypeOK
<1>10. CASE UpdateRow(t)
  BY <1>10, <1>d, FinishGuids DEF UpdateRow
<1>11. CASE StoreFails(t)
  BY <1>11, <1>d, FinishGuids DEF StoreFails
<1>12. CASE SetGuid(t)
  BY <1>12, SetGuidGuids
<1>13. CASE TouchPeer(t)
  <2>. DEFINE hp == [heap EXCEPT ![hdl[t]] = UpdateAddr(@, req[t].addr)]
  <2>1. req[t].addr \in Addr /\ hdl[t] \in Handle
    BY <1>13, <1>h DEF TouchPeer, Stages, PeerRequest
  <2>a. \A p \in Peer : UpdateAddr(p, req[t].addr).guid = p.guid
    BY DEF UpdateAddr, Peer
  <2>2. /\ hp \in [Handle -> Peer]
        /\ \A h \in Handle : hp[h].guid \in {NoGuid, heap[h].guid}
    BY <1>h, <2>1, <2>a, UpdateAddrType
  <2>3. \A h \in Handle : heap'[h].guid \in {NoGuid, heap[h].guid}
    BY <1>13, <2>2, DroppingGuid DEF TouchPeer
  <2>. QED BY <1>13, <2>3, FinishGuids DEF TouchPeer
<1>. QED
  BY <1>1, <1>2, <1>3, <1>4, <1>5, <1>6, <1>7, <1>8, <1>9, <1>10, <1>11, <1>12,
     <1>13 DEF TaskStep

\* The inductive invariant about guids.
LEMMA GuidInvCorrect == Spec => []GuidInv
<1>1. Init => GuidInv
  BY RegistryAssumption
  DEF Init, GuidInv, OneId, OneRow, GuidNamesOwnRow, RowReadIsOwn,
      GuidInUseIsOwn, Holds, IsRowOf
<1>2. TypeInv /\ GuidInv /\ [Next]_vars => GuidInv'
  <2>. SUFFICES ASSUME TypeInv, GuidInv, [Next]_vars PROVE GuidInv'
    OBVIOUS
  <2>1. ASSUME NEW t \in Task, Arrival(t) \/ TaskStep(t) PROVE GuidInv'
    BY <2>1, ArrivalGuids, TaskStepGuids
  <2>2. ASSUME NEW h \in Handle, RegExpires(h) \/ RateExpires(h) PROVE GuidInv'
    <3>1. \A k \in Handle : heap'[k].guid = heap[k].guid
      BY <2>2 DEF RegExpires, RateExpires, TypeInv, TypeOK, Peer
    <3>. QED
      BY <2>2, <3>1
      DEF RegExpires, RateExpires, locals, GuidInv, OneId, OneRow,
          GuidNamesOwnRow, RowReadIsOwn, GuidInUseIsOwn, Holds, IsRowOf
  <2>3. CASE Crash
    BY <2>3, RegistryAssumption
    DEF Crash, GuidInv, OneId, OneRow, GuidNamesOwnRow, RowReadIsOwn,
        GuidInUseIsOwn, Holds, IsRowOf
  <2>4. CASE UNCHANGED vars
    BY <2>4 DEF vars, GuidInv, OneId, OneRow, GuidNamesOwnRow, RowReadIsOwn,
                GuidInUseIsOwn, Holds, IsRowOf
  <2>. QED BY <2>1, <2>2, <2>3, <2>4 DEF Next
<1>. QED BY <1>1, <1>2, TypeInvCorrect, PTL DEF Spec

\* However handlers overlap and whatever fails, the guid in a record of an id
\* names a row of that id.
THEOREM GuidsCorrect == Spec => []GuidNamesOwnRow
BY GuidInvCorrect, PTL DEF GuidInv

-----------------------------------------------------------------------------
(* One task moves at a time; what it serves is an id. *)

\* A task that is not idle serves an id.
LEMMA ServedId ==
  ASSUME TypeInv, NEW t \in Task, pc[t] # "idle"
  PROVE  req[t] \in Request /\ req[t].id \in Id
BY DEF TypeInv, TypeOK, Stages, Pc, Request, PkRequest, PeerRequest, GetRequest

\* The locals of the other tasks stay.
LEMMA OthersStay ==
  ASSUME TypeInv, NEW t \in Task, Arrival(t) \/ TaskStep(t), NEW u \in Task \ {t}
  PROVE  /\ pc'[u] = pc[u] /\ req'[u] = req[u] /\ hdl'[u] = hdl[u]
         /\ row'[u] = row[u] /\ changed'[u] = changed[u] /\ guid'[u] = guid[u]
<1>1. CASE Arrival(t)
  BY <1>1 DEF Arrival, RegisterPk, Get, RegisterPeer, Start, Goto, TypeInv, TypeOK
<1>2. CASE FetchRow(t) \/ FetchNone(t) \/ LoadRow(t) \/ GetOr(t)
  BY <1>2 DEF FetchRow, FetchNone, LoadRow, GetOr, Finish, Goto, TypeInv, TypeOK
<1>3. CASE Check(t) \/ ReadRate(t) \/ WriteRate(t) \/ WritePeer(t)
  BY <1>3 DEF Check, ReadRate, WriteRate, WritePeer, Finish, Goto, TypeInv, TypeOK
<1>4. CASE InsertPeer(t) \/ UpdateRow(t) \/ StoreFails(t) \/ SetGuid(t) \/ TouchPeer(t)
  BY <1>4 DEF InsertPeer, UpdateRow, StoreFails, SetGuid, TouchPeer, Finish, Goto,
              TypeInv, TypeOK
<1>. QED BY <1>1, <1>2, <1>3, <1>4 DEF TaskStep

\* A handler that returns leaves an idle task that holds nothing.
LEMMA FinishLocals ==
  ASSUME TypeInv, NEW t \in Task, Finish(t)
  PROVE  pc'[t] = "idle" /\ req'[t] = NoRequest /\ hdl'[t] = NoHandle
BY DEF Finish, Goto, TypeInv, TypeOK

-----------------------------------------------------------------------------
(* A known id never looks new.  While statements succeed: an id somebody has *)
(* a record of is in the map; before it has a row it has one record only;    *)
(* once it has one, none of its records is blank.                            *)

Blank(h) == heap[h].uuid = NoUuid

HeldIsMapped == \A t \in Task : hdl[t] # NoHandle => map[req[t].id] # NoHandle

OneRecordUntilStored ==
  \A t \in Task :
    hdl[t] # NoHandle /\ ~HasRow(req[t].id) => hdl[t] = map[req[t].id]

StoredNotBlank ==
  \A h \in Handle, i \in Id : HasRow(i) /\ Holds(h, i) => ~Blank(h)

WrittenNotBlank ==
  \A t \in Task : pc[t] \in {"store", "set_guid"} => ~Blank(hdl[t])

\* What the second look of get_or is for.
MissedIsMapped ==
  \A t \in Task :
    pc[t] = "get_or" /\ HasRow(req[t].id) => map[req[t].id] # NoHandle

KnownInv ==
  /\ HeldIsMapped
  /\ OneRecordUntilStored
  /\ StoredNotBlank
  /\ WrittenNotBlank
  /\ MissedIsMapped

\* An id that has a row keeps one.
LEMMA HasRowStays ==
  ASSUME TypeInv, GuidInv, [Next]_vars, NEW i \in Id, HasRow(i)
  PROVE  HasRow(i)'
BY RowsStay DEF HasRow

\* No task makes a record blank that somebody held and still holds.
LEMMA NotBlankStays ==
  ASSUME TypeInv, NEW t \in Task, Arrival(t) \/ TaskStep(t),
         NEW h \in Handle, Referenced(h), Referenced(h)', ~Blank(h)
  PROVE  ~Blank(h)'
<1>h. heap \in [Handle -> Peer] /\ Stages
  BY DEF TypeInv, TypeOK
<1>1. CASE heap' = heap \/ heap' = Dropping(heap)
  BY <1>1 DEF Dropping, Blank
<1>2. CASE LoadRow(t)
  <2>1. PICK k \in Free : heap' = Dropping([heap EXCEPT ![k] = FromRow(row[t])])
    BY <1>2 DEF LoadRow
  <2>2. k # h
    BY DEF Free
  <2>. QED BY <1>h, <2>1, <2>2 DEF Dropping, Blank
<1>3. CASE GetOr(t)
  BY <1>3, <1>h DEF GetOr, Free, Blank
<1>4. CASE WriteRate(t)
  BY <1>4, <1>h DEF WriteRate, Dropping, Blank, Peer
<1>5. CASE SetGuid(t)
  BY <1>5, <1>h DEF SetGuid, Dropping, Blank, Peer
<1>6. CASE WritePeer(t)
  <2>1. req[t].uuid # NoUuid
    BY <1>6, <1>h, RecordAssumption DEF WritePeer, Stages, PkRequest
  <2>2. heap'[h] = IF h = hdl[t] THEN UpdatePk(heap[h], req[t]) ELSE heap[h]
    BY <1>6, <1>h DEF WritePeer
  <2>. QED BY <1>h, <2>1, <2>2 DEF UpdatePk, Blank, Peer
<1>7. CASE TouchPeer(t)
  <2>1. heap'[h] = IF h = hdl[t] THEN UpdateAddr(heap[h], req[t].addr) ELSE heap[h]
    BY <1>7, <1>h DEF TouchPeer, Dropping
  <2>. QED BY <1>h, <2>1 DEF UpdateAddr, Blank, Peer
<1>8. CASE Arrival(t)
  BY <1>8 DEF Arrival, RegisterPk, Get, Start, RegisterPeer, Blank
<1>9. FetchRow(t) \/ FetchNone(t) \/ InsertPeer(t) => heap' = heap
  BY DEF FetchRow, FetchNone, InsertPeer
<1>10. Check(t) \/ ReadRate(t) \/ UpdateRow(t) \/ StoreFails(t)
        => heap' = heap \/ heap' = Dropping(heap)
  BY DEF Check, ReadRate, UpdateRow, StoreFails
<1>. QED BY <1>1, <1>2, <1>3, <1>4, <1>5, <1>6, <1>7, <1>8, <1>9, <1>10 DEF TaskStep

\* A step that gives nobody a record and stores no new row.
LEMMA KnownKept ==
  ASSUME TypeInv, GuidInv, KnownInv, [Next]_vars, NEW t \in Task,
         Arrival(t) \/ TaskStep(t),
         map' = map, \A i \in Id : HasRow(i)' <=> HasRow(i),
         hdl'[t] = NoHandle \/ (hdl'[t] = hdl[t] /\ req'[t] = req[t]),
         pc'[t] \in {"store", "set_guid"} => ~Blank(hdl[t])',
         pc'[t] = "get_or" =>
           /\ pc[t] # "idle" /\ req'[t] = req[t]
           /\ HasRow(req[t].id) => map[req[t].id] # NoHandle
  PROVE  KnownInv'
<1>1. ASSUME NEW u \in Task, hdl'[u] # NoHandle
      PROVE  hdl'[u] = hdl[u] /\ req'[u] = req[u] /\ pc[u] # "idle" /\ req[u].id \in Id
  <2>1. hdl'[u] = hdl[u] /\ req'[u] = req[u]
    BY <1>1, OthersStay
  <2>2. pc[u] # "idle"
    BY <1>1, <2>1 DEF TypeInv, Stages
  <2>. QED BY <2>1, <2>2, ServedId
<1>2. HeldIsMapped'
  BY <1>1 DEF KnownInv, HeldIsMapped
<1>3. OneRecordUntilStored'
  <2>1. ASSUME NEW u \in Task, hdl'[u] # NoHandle, ~HasRow(req[u].id)'
        PROVE  hdl'[u] = map'[req'[u].id]
    <3>1. ~HasRow(req[u].id)
      <4>1. PICK i \in Id : i = req[u].id /\ i = req'[u].id
        BY <1>1, <2>1
      <4>. QED BY <2>1, <4>1 DEF HasRow, IsRowOf
    <3>. QED BY <1>1, <2>1, <3>1 DEF KnownInv, OneRecordUntilStored
  <2>. QED BY <2>1 DEF OneRecordUntilStored
<1>4. StoredNotBlank'
  <2>1. ASSUME NEW h \in Handle, NEW i \in Id, HasRow(i)', Holds(h, i)'
        PROVE  ~Blank(h)'
    <3>1. Holds(h, i)
      BY <1>1, <2>1, RegistryAssumption DEF Holds
    <3>2. Referenced(h) /\ Referenced(h)'
      BY <2>1, <3>1 DEF Holds, Referenced
    <3>. QED BY <2>1, <3>1, <3>2, NotBlankStays DEF KnownInv, StoredNotBlank
  <2>. QED BY <2>1 DEF StoredNotBlank
<1>5. WrittenNotBlank'
  <2>1. ASSUME NEW u \in Task \ {t}, pc'[u] \in {"store", "set_guid"}
        PROVE  ~Blank(hdl[u])'
    <3>1. pc[u] = pc'[u] /\ hdl'[u] = hdl[u]
      BY OthersStay
    <3>2. PICK h \in Handle : h = hdl[u]
      BY <2>1, <3>1 DEF TypeInv, Stages
    <3>3. ~Blank(h) /\ Referenced(h) /\ Referenced(h)'
      BY <2>1, <3>1, <3>2 DEF Referenced, KnownInv, WrittenNotBlank
    <3>4. ~Blank(h)'
      BY <3>3, NotBlankStays
    <3>. QED BY <3>1, <3>2, <3>4 DEF Blank
  <2>. QED BY <2>1 DEF WrittenNotBlank
<1>6. MissedIsMapped'
  <2>1. ASSUME NEW u \in Task, pc'[u] = "get_or", HasRow(req[u].id)'
        PROVE  map'[req'[u].id] # NoHandle
    <3>1. pc[u] # "idle" /\ req'[u] = req[u]
      BY <2>1, OthersStay
    <3>2. PICK i \in Id : i = req[u].id /\ i = req'[u].id
      BY <3>1, ServedId
    <3>3. HasRow(i)
      BY <2>1, <3>2 DEF HasRow, IsRowOf
    <3>4. CASE u = t
      BY <2>1, <3>2, <3>3, <3>4
    <3>5. CASE u # t
      BY <2>1, <3>2, <3>3, <3>5, OthersStay DEF KnownInv, MissedIsMapped
    <3>. QED BY <3>4, <3>5
  <2>. QED BY <2>1 DEF MissedIsMapped
<1>. QED BY <1>2, <1>3, <1>4, <1>5, <1>6 DEF KnownInv

\* Only an insert makes a row where there was none, for its own id.
LEMMA RowsOnlyInserted ==
  ASSUME TypeInv, GuidInv, [Next]_vars, NEW g \in Guid, NEW i \in Id,
         IsRowOf(g, i)', ~IsRowOf(g, i)
  PROVE  \E t \in Task : InsertPeer(t) /\ req[t].id = i
<1>1. ASSUME NEW t \in Task, UpdateRow(t) PROVE FALSE
  <2>1. guid[t] \in Guid /\ IsRowOf(guid[t], req[t].id)
    BY <1>1 DEF UpdateRow, TypeInv, TypeOK, Stages, GuidInv, GuidInUseIsOwn
  <2>2. table[guid[t]] \in TableRow
    BY <2>1 DEF IsRowOf, TypeInv, TypeOK
  <2>3. TableUpdate(table[guid[t]], req[t]).id = req[t].id
    BY <2>2 DEF TableUpdate, TableRow
  <2>4. table' = [table EXCEPT ![guid[t]] = TableUpdate(table[guid[t]], req[t])]
    BY <1>1, <2>1, <2>2 DEF UpdateRow, IsRowOf
  <2>. QED BY <2>1, <2>3, <2>4 DEF IsRowOf, TypeInv, TypeOK
<1>2. ASSUME NEW t \in Task, InsertPeer(t) PROVE req[t].id = i
  BY <1>2 DEF InsertPeer, IsRowOf, RowOf, TypeInv, TypeOK
<1>3. table' = table \/ \E t \in Task : InsertPeer(t) \/ UpdateRow(t)
  BY DEF Next, Arrival, TaskStep, RegisterPk, Get, Start, RegisterPeer, FetchRow,
         FetchNone, LoadRow, GetOr, Check, ReadRate, WriteRate, WritePeer,
         StoreFails, SetGuid, TouchPeer, RegExpires, RateExpires, Crash, vars
<1>. QED BY <1>1, <1>2, <1>3 DEF IsRowOf

\* A step that leaves the table alone, or updates a row, stores no new row.
LEMMA NoNewRow ==
  ASSUME TypeInv, GuidInv, [Next]_vars,
         table' = table \/ \E t \in Task : UpdateRow(t)
  PROVE  \A i \in Id : HasRow(i)' <=> HasRow(i)
<1>1. ASSUME NEW t \in Task, NEW u \in Task, UpdateRow(t), InsertPeer(u) PROVE FALSE
  BY <1>1 DEF UpdateRow, InsertPeer, Finish, Goto, TypeInv, TypeOK
<1>2. ASSUME NEW g \in Guid, NEW i \in Id, IsRowOf(g, i)' PROVE IsRowOf(g, i)
  <2>1. CASE table' = table
    BY <1>2, <2>1 DEF IsRowOf
  <2>2. CASE \E t \in Task : UpdateRow(t)
    BY <1>1, <1>2, <2>2, RowsOnlyInserted
  <2>. QED BY <2>1, <2>2
<1>. QED BY <1>2, HasRowStays DEF HasRow

\* The insert finds one record of the id, the one its task has just written.
LEMMA InsertKnown ==
  ASSUME TypeInv, GuidInv, KnownInv, [Next]_vars, NEW t \in Task, InsertPeer(t)
  PROVE  KnownInv'
<1>1. PICK i \in Id, k \in Handle :
        /\ i = req[t].id /\ k = hdl[t] /\ ~HasRow(i) /\ ~Blank(k) /\ pc[t] = "store"
  BY DEF InsertPeer, TypeInv, Stages, PkRequest, KnownInv, WrittenNotBlank
<1>2. map[i] = k
  BY <1>1, RegistryAssumption DEF KnownInv, OneRecordUntilStored
<1>3. map' = map /\ heap' = heap /\ hdl' = hdl /\ req' = req
  BY DEF InsertPeer
<1>4. pc' = [pc EXCEPT ![t] = "set_guid"]
  BY DEF InsertPeer, Goto
<1>5. \A j \in Id : HasRow(j)' => HasRow(j) \/ j = i
  <2>1. \A g \in Guid, j \in Id : IsRowOf(g, j)' => IsRowOf(g, j) \/ j = i
    BY <1>1 DEF InsertPeer, IsRowOf, RowOf, TypeInv, TypeOK
  <2>. QED BY <2>1 DEF HasRow
<1>6. HeldIsMapped'
  BY <1>3 DEF KnownInv, HeldIsMapped
<1>7. OneRecordUntilStored'
  <2>1. ASSUME NEW u \in Task, hdl[u] # NoHandle, ~HasRow(req[u].id)'
        PROVE  hdl[u] = map[req[u].id]
    <3>1. PICK j \in Id : j = req[u].id
      BY <2>1, ServedId DEF TypeInv, Stages
    <3>2. ~HasRow(j)'
      BY <1>3, <2>1, <3>1 DEF HasRow, IsRowOf
    <3>3. ~HasRow(j)
      BY <3>2, HasRowStays
    <3>. QED BY <2>1, <3>1, <3>3 DEF KnownInv, OneRecordUntilStored
  <2>. QED BY <1>3, <2>1 DEF OneRecordUntilStored
<1>8. StoredNotBlank'
  <2>1. ASSUME NEW h \in Handle, NEW j \in Id, HasRow(j)', Holds(h, j)'
        PROVE  ~Blank(h)
    <3>1. Holds(h, j)
      BY <1>3, <2>1 DEF Holds
    <3>2. CASE HasRow(j)
      BY <3>1, <3>2 DEF KnownInv, StoredNotBlank
    <3>3. CASE j = i /\ ~HasRow(j)
      <4>1. h = k
        BY <1>2, <3>1, <3>3, RegistryAssumption DEF Holds, KnownInv, OneRecordUntilStored
      <4>. QED BY <1>1, <4>1
    <3>. QED BY <1>5, <2>1, <3>2, <3>3
  <2>. QED BY <1>3, <2>1 DEF StoredNotBlank, Blank
<1>9. WrittenNotBlank'
  BY <1>1, <1>3, <1>4 DEF KnownInv, WrittenNotBlank, Blank, TypeInv, TypeOK
<1>10. MissedIsMapped'
  <2>1. ASSUME NEW u \in Task, pc'[u] = "get_or", HasRow(req[u].id)'
        PROVE  map[req[u].id] # NoHandle
    <3>1. pc[u] = "get_or" /\ req[u].id \in Id
      BY <1>4, <2>1, ServedId DEF TypeInv, TypeOK
    <3>2. HasRow(req[u].id) \/ req[u].id = i
      <4>1. PICK j \in Id : j = req[u].id
        BY <3>1
      <4>2. HasRow(j)'
        BY <1>3, <2>1, <4>1 DEF HasRow, IsRowOf
      <4>. QED BY <1>5, <4>1, <4>2
    <3>. QED BY <1>1, <1>2, <3>1, <3>2, RegistryAssumption DEF KnownInv, MissedIsMapped
  <2>. QED BY <1>3, <2>1 DEF MissedIsMapped
<1>. QED BY <1>6, <1>7, <1>8, <1>9, <1>10 DEF KnownInv

\* A task takes the record the map has of its id.
LEMMA HitKnown ==
  ASSUME TypeInv, GuidInv, KnownInv, [Next]_vars, NEW t \in Task,
         Arrival(t) \/ TaskStep(t), UNCHANGED <<map, heap, table>>,
         NEW i \in Id, req'[t].id = i, hdl'[t] = map[i], map[i] # NoHandle,
         pc'[t] \in {"check", "touch"}
  PROVE  KnownInv'
<1>1. \A j \in Id : HasRow(j)' <=> HasRow(j)
  BY NoNewRow
<1>2. ASSUME NEW u \in Task, hdl'[u] # NoHandle
      PROVE  \/ u = t /\ hdl'[u] = map[i] /\ req'[u].id = i
             \/ u # t /\ hdl'[u] = hdl[u] /\ req'[u] = req[u] /\ req[u].id \in Id
  <2>1. u # t => pc[u] # "idle"
    BY <1>2, OthersStay DEF TypeInv, Stages
  <2>. QED BY <2>1, OthersStay, ServedId
<1>3. HeldIsMapped'
  BY <1>2 DEF KnownInv, HeldIsMapped
<1>4. OneRecordUntilStored'
  <2>1. ASSUME NEW u \in Task, u # t, hdl'[u] # NoHandle, ~HasRow(req[u].id)'
        PROVE  hdl'[u] = map'[req'[u].id]
    <3>1. PICK j \in Id : j = req[u].id /\ req'[u].id = j
      BY <1>2, <2>1
    <3>2. ~HasRow(j)
      BY <1>1, <2>1, <3>1 DEF HasRow, IsRowOf
    <3>. QED BY <1>2, <2>1, <3>1, <3>2 DEF KnownInv, OneRecordUntilStored
  <2>. QED BY <1>2, <2>1 DEF OneRecordUntilStored
<1>5. StoredNotBlank'
  <2>1. ASSUME NEW h \in Handle, NEW j \in Id, HasRow(j)', Holds(h, j)'
        PROVE  ~Blank(h)
    <3>1. Holds(h, j)
      BY <1>2, <2>1, RegistryAssumption DEF Holds
    <3>. QED BY <1>1, <2>1, <3>1 DEF KnownInv, StoredNotBlank
  <2>. QED BY <2>1 DEF StoredNotBlank, Blank
<1>6. WrittenNotBlank'
  BY OthersStay DEF KnownInv, WrittenNotBlank, Blank
<1>7. MissedIsMapped'
  <2>1. ASSUME NEW u \in Task, pc'[u] = "get_or", HasRow(req[u].id)'
        PROVE  map[req'[u].id] # NoHandle
    <3>1. u # t /\ pc[u] = "get_or" /\ req'[u] = req[u]
      BY <2>1, OthersStay
    <3>2. PICK j \in Id : j = req[u].id
      BY <3>1, ServedId
    <3>3. HasRow(j)
      BY <1>1, <2>1, <3>1, <3>2 DEF HasRow, IsRowOf
    <3>. QED BY <3>1, <3>2, <3>3 DEF KnownInv, MissedIsMapped
  <2>. QED BY <2>1 DEF MissedIsMapped
<1>. QED BY <1>3, <1>4, <1>5, <1>6, <1>7 DEF KnownInv

\* A new record: made of the row of an id that has one, or of one whose map
\* entry is missing and which has no row.
LEMMA NewKnown ==
  ASSUME TypeInv, GuidInv, KnownInv, [Next]_vars, NEW t \in Task,
         Arrival(t) \/ TaskStep(t), table' = table,
         NEW i \in Id, NEW k \in Free, map' = [map EXCEPT ![i] = k],
         (hdl'[t] = NoHandle /\ pc'[t] = "idle")
           \/ (hdl'[t] = k /\ req'[t].id = i /\ pc'[t] = "check"),
         IF HasRow(i) THEN heap'[k].uuid # NoUuid ELSE map[i] = NoHandle
  PROVE  KnownInv'
<1>0. k \in Handle /\ k # NoHandle /\ ~Referenced(k)
  BY RegistryAssumption DEF Free
<1>1. \A j \in Id : HasRow(j)' <=> HasRow(j)
  BY NoNewRow
<1>2. ASSUME NEW u \in Task, hdl'[u] # NoHandle
      PROVE  \/ u = t /\ hdl'[u] = k /\ req'[u].id = i
             \/ u # t /\ hdl'[u] = hdl[u] /\ req'[u] = req[u] /\ req[u].id \in Id
  <2>1. u # t => pc[u] # "idle"
    BY <1>2, OthersStay DEF TypeInv, Stages
  <2>. QED BY <1>2, <2>1, OthersStay, ServedId
<1>m. map'[i] = k /\ \A j \in Id \ {i} : map'[j] = map[j]
  BY DEF TypeInv, TypeOK
<1>3. HeldIsMapped'
  BY <1>0, <1>2, <1>m DEF KnownInv, HeldIsMapped
<1>4. OneRecordUntilStored'
  <2>1. ASSUME NEW u \in Task, u # t, hdl'[u] # NoHandle, ~HasRow(req[u].id)'
        PROVE  hdl'[u] = map'[req'[u].id]
    <3>1. PICK j \in Id : j = req[u].id /\ req'[u].id = j
      BY <1>2, <2>1
    <3>2. ~HasRow(j)
      BY <1>1, <2>1, <3>1 DEF HasRow, IsRowOf
    <3>3. hdl[u] = map[j] /\ map[j] # NoHandle
      BY <1>2, <2>1, <3>1, <3>2 DEF KnownInv, OneRecordUntilStored
    <3>4. j # i
      BY <3>2, <3>3
    <3>. QED BY <1>2, <1>m, <2>1, <3>1, <3>3, <3>4
  <2>2. hdl'[t] # NoHandle => hdl'[t] = map'[req'[t].id]
    BY <1>2, <1>m
  <2>. QED BY <2>1, <2>2 DEF OneRecordUntilStored
<1>5. StoredNotBlank'
  <2>1. ASSUME NEW h \in Handle, NEW j \in Id, HasRow(j)', Holds(h, j)'
        PROVE  ~Blank(h)'
    <3>1. CASE h = k
      <4>1. j = i
        BY <1>0, <1>2, <1>m, <2>1, <3>1 DEF Holds, Referenced
      <4>. QED BY <1>1, <2>1, <3>1, <4>1 DEF Blank
    <3>2. CASE h # k
      <4>1. Holds(h, j)
        BY <1>2, <1>m, <2>1, <3>2, RegistryAssumption DEF Holds
      <4>2. Referenced(h) /\ Referenced(h)'
        BY <2>1, <4>1 DEF Holds, Referenced
      <4>. QED BY <1>1, <2>1, <4>1, <4>2, NotBlankStays DEF KnownInv, StoredNotBlank
    <3>. QED BY <3>1, <3>2
  <2>. QED BY <2>1 DEF StoredNotBlank
<1>6. WrittenNotBlank'
  <2>1. ASSUME NEW u \in Task \ {t}, pc'[u] \in {"store", "set_guid"}
        PROVE  ~Blank(hdl[u])'
    <3>1. pc[u] = pc'[u] /\ hdl'[u] = hdl[u]
      BY OthersStay
    <3>2. PICK h \in Handle : h = hdl[u]
      BY <2>1, <3>1 DEF TypeInv, Stages
    <3>3. ~Blank(h) /\ Referenced(h) /\ Referenced(h)'
      BY <2>1, <3>1, <3>2 DEF Referenced, KnownInv, WrittenNotBlank
    <3>4. ~Blank(h)'
      BY <3>3, NotBlankStays
    <3>. QED BY <3>1, <3>2, <3>4 DEF Blank
  <2>. QED BY <2>1 DEF WrittenNotBlank
<1>7. MissedIsMapped'
  <2>1. ASSUME NEW u \in Task, pc'[u] = "get_or", HasRow(req[u].id)'
        PROVE  map'[req'[u].id] # NoHandle
    <3>1. u # t /\ pc[u] = "get_or" /\ req'[u] = req[u]
      BY <2>1, OthersStay
    <3>2. PICK j \in Id : j = req[u].id
      BY <3>1, ServedId
    <3>3. HasRow(j)
      BY <1>1, <2>1, <3>1, <3>2 DEF HasRow, IsRowOf
    <3>. QED BY <1>0, <1>m, <3>1, <3>2, <3>3 DEF KnownInv, MissedIsMapped
  <2>. QED BY <2>1 DEF MissedIsMapped
<1>. QED BY <1>3, <1>4, <1>5, <1>6, <1>7 DEF KnownInv

\* No arrival and no section of a handler lets a known id look new.
LEMMA TaskKnown ==
  ASSUME TypeInv, GuidInv, KnownInv, [Next]_vars, ~DbMayFail,
         NEW t \in Task, Arrival(t) \/ TaskStep(t)
  PROVE  KnownInv'
<1>0. pc[t] # "idle" => req[t].id \in Id
  BY ServedId
<1>f. Finish(t) /\ map' = map /\ (table' = table \/ UpdateRow(t)) => KnownInv'
  <2>. SUFFICES ASSUME Finish(t), map' = map, table' = table \/ UpdateRow(t)
                PROVE  KnownInv'
    OBVIOUS
  <2>1. pc'[t] = "idle" /\ hdl'[t] = NoHandle
    BY FinishLocals
  <2>2. \A i \in Id : HasRow(i)' <=> HasRow(i)
    BY NoNewRow
  <2>. QED BY <2>1, <2>2, KnownKept
<1>g. ASSUME UNCHANGED <<map, table, hdl, req>>, pc'[t] \notin {"get_or", "store", "set_guid"}
      PROVE  KnownInv'
  <2>1. \A i \in Id : HasRow(i)' <=> HasRow(i)
    BY <1>g, NoNewRow
  <2>. QED BY <1>g, <2>1, KnownKept
<1>1. CASE Arrival(t)
  <2>1. PICK i \in Id :
          \/ /\ UNCHANGED <<map, heap, table, hdl>> /\ pc'[t] = "fetch" /\ pc[t] = "idle"
          \/ /\ UNCHANGED <<map, heap, table>> /\ map[i] # NoHandle
             /\ req'[t].id = i /\ hdl'[t] = map[i] /\ pc'[t] \in {"check", "touch"}
    <3>1. CASE \E rq \in PkRequests : RegisterPk(t, rq)
      BY <3>1, PkRequestsType
      DEF RegisterPk, Start, Goto, PkRequest, TypeInv, TypeOK
    <3>2. CASE \E i \in Id : Get(t, i)
      BY <3>2 DEF Get, Start, Goto, TypeInv, TypeOK
    <3>3. CASE \E i \in Id, a \in SourceAddr : RegisterPeer(t, i, a)
      BY <3>3 DEF RegisterPeer, Goto, TypeInv, TypeOK
    <3>. QED BY <1>1, <3>1, <3>2, <3>3 DEF Arrival
  <2>2. CASE UNCHANGED <<map, heap, table, hdl>> /\ pc'[t] = "fetch" /\ pc[t] = "idle"
    <3>1. hdl'[t] = NoHandle
      BY <2>2 DEF TypeInv, Stages
    <3>2. \A j \in Id : HasRow(j)' <=> HasRow(j)
      BY <2>2, NoNewRow
    <3>. QED BY <2>2, <3>1, <3>2, KnownKept
  <2>. QED BY <2>1, <2>2, HitKnown
<1>2. CASE FetchRow(t)
  BY <1>2, <1>g DEF FetchRow, Goto, TypeInv, TypeOK
<1>3. CASE FetchNone(t)
  <2>1. CASE Finish(t)
    BY <1>3, <1>f, <2>1 DEF FetchNone
  <2>2. CASE ~Finish(t)
    <3>1. /\ UNCHANGED <<map, table, hdl, req>> /\ pc'[t] = "get_or" /\ pc[t] = "fetch"
          /\ ~HasRow(req[t].id)
      BY <1>3, <2>2 DEF FetchNone, Goto, TypeInv, TypeOK
    <3>2. \A i \in Id : HasRow(i)' <=> HasRow(i)
      BY <3>1, NoNewRow
    <3>. QED BY <3>1, <3>2, KnownKept
  <2>. QED BY <2>1, <2>2
<1>4. CASE LoadRow(t)
  <2>1. PICK i \in Id : i = req[t].id /\ row[t] \in Row /\ HasRow(i)
    BY <1>4
    DEF LoadRow, TypeInv, Stages, PkRequest, GetRequest, GuidInv, RowReadIsOwn,
        Row, IsRowOf, HasRow
  <2>2. PICK k \in Free :
          /\ map' = [map EXCEPT ![i] = k]
          /\ heap' = Dropping([heap EXCEPT ![k] = FromRow(row[t])])
          /\ \/ /\ hdl' = [hdl EXCEPT ![t] = k] /\ req' = req /\ Goto(t, "check")
             \/ Finish(t)
    BY <1>4, <2>1 DEF LoadRow
  <2>3. k \in Handle /\ map'[i] = k
    BY <2>2 DEF Free, TypeInv, TypeOK
  <2>4. heap'[k] = FromRow(row[t])
    BY <2>2, <2>3 DEF Dropping, Referenced, TypeInv, TypeOK
  <2>5. heap'[k].uuid # NoUuid
    BY <2>1, <2>4, RecordAssumption DEF FromRow, DefaultPeer, Row
  <2>6. \/ hdl'[t] = NoHandle /\ pc'[t] = "idle"
        \/ hdl'[t] = k /\ req'[t].id = i /\ pc'[t] = "check"
    BY <2>1, <2>2, FinishLocals DEF Goto, TypeInv, TypeOK
  <2>7. table' = table
    BY <1>4 DEF LoadRow
  <2>. QED BY <1>4, <2>1, <2>2, <2>5, <2>6, <2>7, NewKnown
<1>5. CASE GetOr(t)
  <2>1. PICK i \in Id : i = req[t].id
    BY <1>5, <1>0 DEF GetOr
  <2>2. /\ table' = table /\ req' = req /\ pc'[t] = "check" /\ pc[t] = "get_or"
    BY <1>5 DEF GetOr, Goto, TypeInv, TypeOK
  <2>3. CASE map[i] # NoHandle
    <3>1. UNCHANGED <<map, heap>> /\ hdl'[t] = map[i]
      BY <1>5, <2>1, <2>3 DEF GetOr, TypeInv, TypeOK
    <3>. QED BY <1>5, <2>1, <2>2, <2>3, <3>1, HitKnown
  <2>4. CASE map[i] = NoHandle
    <3>1. PICK k \in Free : map' = [map EXCEPT ![i] = k] /\ hdl' = [hdl EXCEPT ![t] = k]
      BY <1>5, <2>1, <2>4 DEF GetOr
    <3>2. hdl'[t] = k
      BY <3>1 DEF TypeInv, TypeOK
    <3>3. ~HasRow(i)
      BY <2>1, <2>2, <2>4 DEF KnownInv, MissedIsMapped
    <3>. QED BY <1>5, <2>1, <2>2, <2>4, <3>1, <3>2, <3>3, NewKnown
  <2>. QED BY <2>3, <2>4
<1>6. CASE Check(t)
  BY <1>6, <1>f, <1>g DEF Check, Goto, TypeInv, TypeOK
<1>7. CASE ReadRate(t)
  BY <1>7, <1>f, <1>g DEF ReadRate, Goto, TypeInv, TypeOK
<1>8. CASE WriteRate(t)
  BY <1>8, <1>f, <1>g DEF WriteRate, Goto, TypeInv, TypeOK
<1>9. CASE WritePeer(t)
  <2>1. PICK k \in Handle, rq \in PkRequest : k = hdl[t] /\ rq = req[t]
    BY <1>9 DEF WritePeer, TypeInv, Stages
  <2>2. heap'[k] = UpdatePk(heap[k], rq) /\ hdl'[t] = k /\ req' = req
    BY <1>9, <2>1 DEF WritePeer, TypeInv, TypeOK
  <2>3. heap'[k].uuid # NoUuid
    BY <2>1, <2>2, RecordAssumption DEF UpdatePk, PkRequest, Peer, TypeInv, TypeOK
  <2>4. UNCHANGED <<map, table, hdl>> /\ pc'[t] = "store"
    BY <1>9 DEF WritePeer, Goto, TypeInv, TypeOK
  <2>5. \A i \in Id : HasRow(i)' <=> HasRow(i)
    BY <2>4, NoNewRow
  <2>. QED BY <1>9, <2>2, <2>3, <2>4, <2>5, KnownKept DEF Blank
<1>10. CASE InsertPeer(t)
  BY <1>10, InsertKnown
<1>11. CASE UpdateRow(t)
  BY <1>11, <1>f DEF UpdateRow
<1>12. CASE StoreFails(t) \/ SetGuid(t) \/ TouchPeer(t)
  BY <1>12, <1>f DEF StoreFails, SetGuid, TouchPeer
<1>. QED
  BY <1>1, <1>2, <1>3, <1>4, <1>5, <1>6, <1>7, <1>8, <1>9, <1>10, <1>11, <1>12
  DEF TaskStep

\* While statements succeed, KnownInv is an inductive invariant.
LEMMA KnownInvCorrect == ASSUME ~DbMayFail PROVE Spec => []KnownInv
<1>1. Init => KnownInv
  BY RegistryAssumption
  DEF Init, KnownInv, HeldIsMapped, OneRecordUntilStored, StoredNotBlank,
      WrittenNotBlank, MissedIsMapped, Holds, HasRow, IsRowOf
<1>2. TypeInv /\ GuidInv /\ KnownInv /\ [Next]_vars => KnownInv'
  <2>. SUFFICES ASSUME TypeInv, GuidInv, KnownInv, [Next]_vars PROVE KnownInv'
    OBVIOUS
  <2>. USE DEF KnownInv, HeldIsMapped, OneRecordUntilStored, StoredNotBlank,
               WrittenNotBlank, MissedIsMapped, Holds, HasRow, IsRowOf, Blank
  <2>1. ASSUME NEW t \in Task, Arrival(t) \/ TaskStep(t) PROVE KnownInv'
    BY <2>1, TaskKnown
  <2>2. ASSUME NEW h \in Handle, RegExpires(h) \/ RateExpires(h) PROVE KnownInv'
    <3>1. \A k \in Handle : heap'[k].uuid = heap[k].uuid
      BY <2>2 DEF RegExpires, RateExpires, TypeInv, TypeOK, Peer
    <3>2. \A t \in Task : pc[t] \in {"store", "set_guid"} => hdl[t] \in Handle
      BY DEF TypeInv, Stages
    <3>. QED BY <2>2, <3>1, <3>2 DEF RegExpires, RateExpires, locals
  <2>3. CASE Crash
    BY <2>3, RegistryAssumption DEF Crash
  <2>4. CASE UNCHANGED vars
    BY <2>4 DEF vars
  <2>. QED BY <2>1, <2>2, <2>3, <2>4 DEF Next
<1>. QED BY <1>1, <1>2, TypeInvCorrect, GuidInvCorrect, PTL DEF Spec

\* However registrations overlap: while statements succeed, an id that has a
\* row is never checked against a blank record, so a machine that is not the
\* id's owner is always found out.
THEOREM KnownCorrect == Spec => []KnownIdNeverLooksNew
<1>1. CASE DbMayFail
  <2>1. KnownIdNeverLooksNew
    BY <1>1 DEF KnownIdNeverLooksNew
  <2>. QED BY <2>1, PTL
<1>2. CASE ~DbMayFail
  <2>1. TypeInv /\ KnownInv => KnownIdNeverLooksNew
    <3>. SUFFICES ASSUME TypeInv, KnownInv, NEW i \in Id, HasRow(i)
                  PROVE  /\ map[i] # NoHandle => heap[map[i]].uuid # NoUuid
                         /\ \A t \in Task : pc[t] = "check" /\ req[t].id = i
                                              => Mine(t).uuid # NoUuid
      BY DEF KnownIdNeverLooksNew
    <3>. QED
      BY DEF TypeInv, TypeOK, Stages, KnownInv, StoredNotBlank, Holds, Blank, Mine
  <2>. QED BY <1>2, <2>1, TypeInvCorrect, KnownInvCorrect, PTL
<1>. QED BY <1>1, <1>2

-----------------------------------------------------------------------------
(* One handler at a time.  An id that is not in disturbed is served by one   *)
(* RegisterPk or Get at most, and each section of that handler leaves what   *)
(* the next one relies on; heartbeats come in between at any time.           *)

RecordOf(i) == heap[map[i]]

\* Task t runs a handler for i that reads the map through `get`.
Serial(t, i) == pc[t] \notin {"idle", "touch"} /\ req[t].id = i

\* It has written the record and not yet the table, or not yet the new guid.
Writing(t, i) == Serial(t, i) /\ pc[t] \in {"store", "set_guid"}

\* The record has what the request registers.
SameKey(p, rq) == p.uuid = rq.uuid /\ p.pk = rq.pk /\ p.ip = rq.addr.ip

\* Memory and table agree about i.
Agrees(i) ==
  /\ \A g \in Guid : IsRowOf(g, i) =>
       /\ RecordOf(i).guid = g
       /\ [id |-> i, uuid |-> RecordOf(i).uuid, pk |-> RecordOf(i).pk,
           ip |-> RecordOf(i).ip] = table[g]
  /\ ~HasRow(i) => RecordOf(i).uuid = NoUuid /\ RecordOf(i).pk = NoPk

\* What the handler of t, the only one for i, knows at each section.
Knows(t, i) ==
  /\ pc[t] \in {"fetch", "load", "get_or"} => map[i] = NoHandle
  /\ pc[t] = "load" => row[t] = Snapshot(row[t].guid)
  /\ pc[t] = "get_or" => ~HasRow(i)
  /\ pc[t] \in {"read_rate", "write_rate", "write_peer"} =>
       /\ RecordOf(i).uuid \in {NoUuid, req[t].uuid}
       /\ changed[t] \/ SameKey(RecordOf(i), req[t])
  /\ pc[t] \in {"store", "set_guid"} => SameKey(RecordOf(i), req[t])
  /\ pc[t] = "store" =>
       /\ guid[t] = RecordOf(i).guid
       /\ guid[t] = NoGuid => ~HasRow(i)
       /\ guid[t] # NoGuid => table[guid[t]].uuid = req[t].uuid
  /\ pc[t] = "set_guid" => table[guid[t]] = RowOf(req[t])

OneHandler(i) == \A t, u \in Task : Serial(t, i) /\ Serial(u, i) => t = u

HeldIsCurrent(i) ==
  \A t \in Task :
    pc[t] # "idle" /\ req[t].id = i /\ hdl[t] # NoHandle => hdl[t] = map[i]

SerialOf(i) ==
  /\ OneHandler(i)
  /\ HeldIsCurrent(i)
  /\ \A t \in Task : Serial(t, i) => Knows(t, i)
  /\ map[i] # NoHandle /\ (\A t \in Task : ~Writing(t, i)) => Agrees(i)

SerialInv == \A i \in Id \ disturbed : SerialOf(i)

-----------------------------------------------------------------------------
(* What a step leaves of an id it does not serve. *)

\* The record of another id, if it has one, is the same afterwards.
LEMMA OtherRecord ==
  ASSUME TypeInv, GuidInv, NEW t \in Task, TaskStep(t), NEW i \in Id,
         req[t].id # i
  PROVE  map'[i] = map[i] /\ (map[i] # NoHandle => heap'[map[i]] = heap[map[i]])
<1>h. heap \in [Handle -> Peer] /\ Stages /\ map \in [Id -> Handle \cup {NoHandle}]
  BY DEF TypeInv, TypeOK
<1>1. map'[i] = map[i]
  BY <1>h
  DEF TaskStep, FetchRow, FetchNone, LoadRow, GetOr, Check, ReadRate, WriteRate,
      WritePeer, InsertPeer, UpdateRow, StoreFails, SetGuid, TouchPeer
<1>2. SUFFICES ASSUME NEW h \in Handle, h = map[i] PROVE heap'[h] = heap[h]
  BY <1>1, <1>h
<1>3. Referenced(h) /\ Referenced(h)' /\ h \notin Free
  BY <1>1, <1>2 DEF Referenced, Free
<1>4. h # hdl[t]
  <2>. SUFFICES ASSUME h = hdl[t] PROVE FALSE
    OBVIOUS
  <2>1. pc[t] # "idle"
    BY RegistryAssumption DEF TypeInv, Stages
  <2>. QED BY <1>2, <2>1, ServedId DEF GuidInv, OneId, Holds
<1>5. CASE heap' = heap \/ heap' = Dropping(heap)
  BY <1>3, <1>5 DEF Dropping
<1>6. CASE LoadRow(t)
  BY <1>3, <1>6, <1>h DEF LoadRow, Dropping
<1>7. CASE GetOr(t)
  BY <1>3, <1>7, <1>h DEF GetOr
<1>8. CASE WriteRate(t) \/ SetGuid(t)
  BY <1>3, <1>4, <1>8, <1>h DEF WriteRate, SetGuid, Dropping
<1>9. CASE WritePeer(t)
  BY <1>4, <1>9, <1>h DEF WritePeer
<1>10. CASE TouchPeer(t)
  BY <1>3, <1>4, <1>10, <1>h DEF TouchPeer, Dropping
<1>11. FetchRow(t) \/ FetchNone(t) \/ InsertPeer(t) => heap' = heap
  BY DEF FetchRow, FetchNone, InsertPeer
<1>12. Check(t) \/ ReadRate(t) \/ UpdateRow(t) \/ StoreFails(t)
        => heap' = heap \/ heap' = Dropping(heap)
  BY DEF Check, ReadRate, UpdateRow, StoreFails
<1>. QED BY <1>5, <1>6, <1>7, <1>8, <1>9, <1>10, <1>11, <1>12 DEF TaskStep

\* So are its rows.
LEMMA OtherRows ==
  ASSUME TypeInv, GuidInv, [Next]_vars, NEW t \in Task, TaskStep(t), NEW i \in Id,
         req[t].id # i
  PROVE  \A g \in Guid : /\ IsRowOf(g, i)' <=> IsRowOf(g, i)
                         /\ IsRowOf(g, i) => table'[g] = table[g]
<1>1. CASE table' = table
  BY <1>1 DEF IsRowOf
<1>2. CASE InsertPeer(t)
  BY <1>2 DEF InsertPeer, IsRowOf, RowOf, TypeInv, TypeOK
<1>3. CASE UpdateRow(t)
  <2>1. guid[t] \in Guid /\ IsRowOf(guid[t], req[t].id)
    BY <1>3 DEF UpdateRow, TypeInv, TypeOK, Stages, GuidInv, GuidInUseIsOwn
  <2>2. table[guid[t]] \in TableRow
    BY <2>1 DEF IsRowOf, TypeInv, TypeOK
  <2>3. TableUpdate(table[guid[t]], req[t]).id = req[t].id
    BY <2>2 DEF TableUpdate, TableRow
  <2>4. table' = [table EXCEPT ![guid[t]] = TableUpdate(table[guid[t]], req[t])]
    BY <1>3, <2>1, <2>2 DEF UpdateRow, IsRowOf
  <2>. QED BY <2>1, <2>3, <2>4 DEF IsRowOf, TypeInv, TypeOK
<1>4. table' = table \/ InsertPeer(t) \/ UpdateRow(t)
  BY DEF TaskStep, FetchRow, FetchNone, LoadRow, GetOr, Check, ReadRate, WriteRate,
         WritePeer, StoreFails, SetGuid, TouchPeer
<1>. QED BY <1>1, <1>2, <1>3, <1>4

\* What SerialOf(i) reads of memory and table is left as it is; the address
\* and the times of the record may change.
Kept(i) ==
  /\ map'[i] = map[i]
  /\ map[i] # NoHandle =>
       /\ heap'[map[i]].guid = heap[map[i]].guid
       /\ heap'[map[i]].uuid = heap[map[i]].uuid
       /\ heap'[map[i]].pk = heap[map[i]].pk
       /\ heap'[map[i]].ip = heap[map[i]].ip
  /\ \A g \in Guid : /\ IsRowOf(g, i)' <=> IsRowOf(g, i)
                     /\ IsRowOf(g, i) => table'[g] = table[g]

\* Nothing is lost between memory and table then,
LEMMA AgreesKept ==
  ASSUME NEW i \in Id, Kept(i), map[i] # NoHandle, Agrees(i)
  PROVE  Agrees(i)'
<1>1. HasRow(i)' <=> HasRow(i)
  BY DEF Kept, HasRow
<1>2. \A g \in Guid : IsRowOf(g, i)' => IsRowOf(g, i) /\ table'[g] = table[g]
  BY DEF Kept
<1>. QED BY <1>1, <1>2 DEF Kept, Agrees, RecordOf

\* nor by a handler that waits.
LEMMA KnowsKept ==
  ASSUME TypeInv, GuidInv, NEW i \in Id, SerialOf(i), Kept(i),
         NEW u \in Task, Serial(u, i),
         pc'[u] = pc[u], req'[u] = req[u], row'[u] = row[u],
         changed'[u] = changed[u], guid'[u] = guid[u]
  PROVE  Knows(u, i)'
<1>1. Knows(u, i)
  BY DEF SerialOf
<1>2. HasRow(i)' <=> HasRow(i)
  BY DEF Kept, HasRow
<1>3. ASSUME pc[u] \in {"check", "read_rate", "write_rate", "write_peer", "store", "set_guid"}
      PROVE  /\ map[i] # NoHandle /\ map'[i] = map[i]
             /\ RecordOf(i)'.guid = RecordOf(i).guid /\ RecordOf(i)'.uuid = RecordOf(i).uuid
             /\ RecordOf(i)'.pk = RecordOf(i).pk /\ RecordOf(i)'.ip = RecordOf(i).ip
  <2>1. hdl[u] = map[i] /\ hdl[u] # NoHandle
    BY <1>3, RegistryAssumption DEF TypeInv, Stages, SerialOf, HeldIsCurrent, Serial
  <2>. QED BY <2>1 DEF Kept, RecordOf
<1>4. pc[u] = "load" => Snapshot(row[u].guid)' = Snapshot(row[u].guid)
  BY DEF TypeInv, Stages, Row, GuidInv, RowReadIsOwn, Kept, Serial, Snapshot
<1>4a. pc[u] = "load" => row'[u] = Snapshot(row[u].guid)'
  BY <1>1, <1>4 DEF Knows
<1>5. pc[u] = "store" /\ guid[u] # NoGuid => table'[guid[u]] = table[guid[u]]
  BY DEF TypeInv, TypeOK, GuidInv, GuidInUseIsOwn, Kept, Serial
<1>6. pc[u] = "set_guid" => table'[guid[u]] = table[guid[u]]
  BY RecordAssumption DEF TypeInv, Stages, GuidInv, GuidInUseIsOwn, Kept, Serial
<1>7. pc[u] \in {"read_rate", "write_rate", "write_peer"} =>
       /\ RecordOf(i)'.uuid \in {NoUuid, req'[u].uuid}
       /\ changed'[u] \/ SameKey(RecordOf(i), req[u])'
  BY <1>1, <1>3 DEF Knows, SameKey
<1>8. pc[u] \in {"store", "set_guid"} => SameKey(RecordOf(i), req[u])'
  BY <1>1, <1>3 DEF Knows, SameKey
<1>9. pc[u] = "store" =>
       /\ guid'[u] = RecordOf(i)'.guid
       /\ guid'[u] = NoGuid => ~HasRow(i)'
       /\ guid'[u] # NoGuid => table'[guid'[u]].uuid = req'[u].uuid
  BY <1>1, <1>2, <1>3, <1>5 DEF Knows
<1>10. pc[u] = "set_guid" => table'[guid'[u]] = RowOf(req[u])'
  BY <1>1, <1>6 DEF Knows, RowOf
<1>11. /\ pc[u] \in {"fetch", "load", "get_or"} => map'[i] = NoHandle
       /\ pc[u] = "get_or" => ~HasRow(i)'
  BY <1>1, <1>2 DEF Knows, Kept
<1>. QED BY <1>4a, <1>7, <1>8, <1>9, <1>10, <1>11 DEF Knows

\* A step that serves another id, or a heartbeat of this one.
LEMMA SerialKept ==
  ASSUME TypeInv, GuidInv, NEW i \in Id, SerialOf(i), Kept(i),
         NEW t \in Task, Arrival(t) \/ TaskStep(t),
         ~Serial(t, i), ~Serial(t, i)',
         pc'[t] # "idle" /\ req'[t].id = i /\ hdl'[t] # NoHandle => hdl'[t] = map[i]
  PROVE  SerialOf(i)'
<1>1. \A u \in Task : Serial(u, i)' => u # t /\ Serial(u, i)
  BY OthersStay DEF Serial
<1>2. \A u \in Task : Writing(u, i) => Writing(u, i)'
  BY OthersStay DEF Writing, Serial
<1>3. OneHandler(i)'
  BY <1>1 DEF SerialOf, OneHandler
<1>4. HeldIsCurrent(i)'
  BY OthersStay DEF SerialOf, HeldIsCurrent, Kept
<1>5. ASSUME NEW u \in Task, Serial(u, i)' PROVE Knows(u, i)'
  BY <1>1, <1>5, OthersStay, KnowsKept
<1>6. ASSUME map'[i] # NoHandle, \A u \in Task : ~Writing(u, i)' PROVE Agrees(i)'
  BY <1>2, <1>6, AgreesKept DEF SerialOf, Kept
<1>. QED BY <1>3, <1>4, <1>5, <1>6 DEF SerialOf

-----------------------------------------------------------------------------
(* The sections of the one handler. *)

\* What a step of the only handler of i has to show.
LEMMA LoneStep ==
  ASSUME TypeInv, NEW i \in Id, SerialOf(i), NEW t \in Task, Arrival(t) \/ TaskStep(t),
         \A u \in Task \ {t} : ~Serial(u, i),
         map'[i] = map[i] \/ map[i] = NoHandle,
         pc'[t] # "idle" /\ req'[t].id = i /\ hdl'[t] # NoHandle => hdl'[t] = map'[i],
         Serial(t, i)' => Knows(t, i)',
         map'[i] # NoHandle /\ ~Writing(t, i)' => Agrees(i)'
  PROVE  SerialOf(i)'
<1>1. \A u \in Task \ {t} : ~Serial(u, i)'
  BY OthersStay DEF Serial
<1>2. OneHandler(i)'
  BY <1>1 DEF OneHandler
<1>3. HeldIsCurrent(i)'
  BY OthersStay DEF SerialOf, HeldIsCurrent
<1>. QED BY <1>1, <1>2, <1>3 DEF SerialOf

\* These sections change of a record the address and the times only.
LEMMA IdentityKept ==
  ASSUME TypeInv, NEW t \in Task,
         \/ FetchRow(t) \/ FetchNone(t) \/ Check(t) \/ ReadRate(t) \/ WriteRate(t)
         \/ InsertPeer(t) \/ UpdateRow(t) \/ TouchPeer(t),
         NEW h \in Handle, Referenced(h)'
  PROVE  /\ heap'[h].guid = heap[h].guid /\ heap'[h].uuid = heap[h].uuid
         /\ heap'[h].pk = heap[h].pk /\ heap'[h].ip = heap[h].ip
         /\ map' = map
<1>h. heap \in [Handle -> Peer]
  BY DEF TypeInv, TypeOK
<1>1. CASE WriteRate(t)
  <2>1. heap'[h] = IF h = hdl[t] THEN [heap[h] EXCEPT !.rate = rate[t]] ELSE heap[h]
    BY <1>1, <1>h DEF WriteRate, Dropping
  <2>. QED BY <1>1, <1>h, <2>1 DEF WriteRate, Peer
<1>2. CASE TouchPeer(t)
  <2>1. heap'[h] = IF h = hdl[t] THEN UpdateAddr(heap[h], req[t].addr) ELSE heap[h]
    BY <1>2, <1>h DEF TouchPeer, Dropping
  <2>. QED BY <1>2, <1>h, <2>1 DEF TouchPeer, UpdateAddr, Peer
<1>3. CASE FetchRow(t) \/ FetchNone(t) \/ Check(t) \/ ReadRate(t) \/ InsertPeer(t)
             \/ UpdateRow(t)
  <2>1. heap'[h] = heap[h] /\ map' = map
    BY <1>3 DEF FetchRow, FetchNone, Check, ReadRate, InsertPeer, UpdateRow, Dropping
  <2>. QED BY <2>1
<1>. QED BY <1>1, <1>2, <1>3

\* With the table as it is, nothing of i changes in them.
LEMMA SectionKept ==
  ASSUME TypeInv, NEW t \in Task, NEW i \in Id, table' = table,
         \/ FetchRow(t) \/ FetchNone(t) \/ Check(t) \/ ReadRate(t) \/ WriteRate(t)
         \/ TouchPeer(t)
  PROVE  Kept(i)
<1>1. \A g \in Guid : /\ IsRowOf(g, i)' <=> IsRowOf(g, i)
                      /\ IsRowOf(g, i) => table'[g] = table[g]
  BY DEF IsRowOf
<1>2. map' = map
  BY DEF FetchRow, FetchNone, Check, ReadRate, WriteRate, TouchPeer
<1>3. CASE map[i] = NoHandle
  BY <1>1, <1>2, <1>3 DEF Kept
<1>4. CASE map[i] # NoHandle
  <2>1. map[i] \in Handle /\ Referenced(map[i])'
    BY <1>2, <1>4 DEF Referenced, TypeInv, TypeOK
  <2>. QED BY <1>1, <1>2, <2>1, IdentityKept DEF Kept
<1>. QED BY <1>3, <1>4

\* PeerMap::get and get_or.
LEMMA LookupSerial ==
  ASSUME TypeInv, GuidInv, [Next]_vars, NEW t \in Task, NEW i \in Id \ disturbed',
         SerialOf(i), Serial(t, i), \A u \in Task \ {t} : ~Serial(u, i),
         FetchRow(t) \/ FetchNone(t) \/ LoadRow(t) \/ GetOr(t)
  PROVE  SerialOf(i)'
<1>0. Knows(t, i) /\ req[t].id = i /\ map \in [Id -> Handle \cup {NoHandle}]
  BY DEF SerialOf, Serial, TypeInv, TypeOK
<1>s. TaskStep(t)
  BY DEF TaskStep
<1>1. map[i] = NoHandle
  BY <1>0 DEF FetchRow, FetchNone, LoadRow, GetOr, Knows
<1>n. hdl[t] = NoHandle
  <2>1. pc[t] # "idle"
    BY DEF Serial
  <2>. QED BY <1>0, <1>1, <2>1 DEF SerialOf, HeldIsCurrent
<1>2. CASE FetchRow(t)
  <2>1. PICK g \in Guid : IsRowOf(g, i) /\ row' = [row EXCEPT ![t] = Snapshot(g)]
    BY <1>0, <1>2 DEF FetchRow
  <2>2. row'[t] = Snapshot(g) /\ pc'[t] = "load" /\ UNCHANGED <<map, table, hdl>>
    BY <1>2, <2>1 DEF FetchRow, Goto, TypeInv, TypeOK
  <2>3. row'[t].guid = g /\ Snapshot(g)' = Snapshot(g)
    BY <2>2 DEF Snapshot
  <2>4. row'[t] = Snapshot(row[t].guid)'
    BY <2>2, <2>3 DEF Snapshot
  <2>5. Knows(t, i)'
    BY <1>1, <2>2, <2>4 DEF Knows
  <2>. QED BY <1>1, <1>n, <1>s, <2>2, <2>5, LoneStep
<1>3. CASE FetchNone(t)
  <2>0. UNCHANGED <<map, table>>
    BY <1>3 DEF FetchNone
  <2>1. CASE Finish(t)
    <3>1. ~Serial(t, i)' /\ pc'[t] = "idle"
      BY <2>1, FinishLocals DEF Serial
    <3>. QED BY <1>1, <1>s, <2>0, <3>1, LoneStep
  <2>2. CASE ~Finish(t)
    <3>1. ~HasRow(i) /\ pc'[t] = "get_or" /\ UNCHANGED hdl
      BY <1>0, <1>3, <2>2 DEF FetchNone, Goto, TypeInv, TypeOK
    <3>2. ~HasRow(i)'
      BY <2>0, <3>1 DEF HasRow, IsRowOf
    <3>3. Knows(t, i)'
      BY <1>1, <2>0, <3>1, <3>2 DEF Knows
    <3>. QED BY <1>1, <1>n, <1>s, <2>0, <3>1, <3>3, LoneStep
  <2>. QED BY <2>1, <2>2
<1>4. CASE LoadRow(t)
  <2>1. PICK g \in Guid : /\ g = row[t].guid /\ row[t] = Snapshot(g) /\ IsRowOf(g, i)
                          /\ row[t] \in Row
    BY <1>0, <1>4
    DEF LoadRow, Knows, GuidInv, RowReadIsOwn, TypeInv, Stages, Row
  <2>2. PICK k \in Free :
          /\ map' = [map EXCEPT ![i] = k]
          /\ heap' = Dropping([heap EXCEPT ![k] = FromRow(row[t])])
          /\ \/ /\ hdl' = [hdl EXCEPT ![t] = k] /\ req' = req /\ Goto(t, "check")
             \/ Finish(t)
    BY <1>0, <1>4 DEF LoadRow
  <2>3. k \in Handle /\ map'[i] = k
    BY <1>0, <2>2 DEF Free
  <2>4. heap'[k] = FromRow(row[t])
    BY <2>2, <2>3 DEF Dropping, Referenced, TypeInv, TypeOK
  <2>5. \/ pc'[t] = "idle"
        \/ hdl'[t] = k /\ pc'[t] = "check"
    BY <2>2, FinishLocals DEF Goto, TypeInv, TypeOK
  <2>6. table' = table
    BY <1>4 DEF LoadRow
  <2>7. table[g] \in TableRow /\ table[g].id = i
    BY <2>1 DEF IsRowOf, TypeInv, TypeOK
  <2>8. /\ heap'[k].guid = g /\ heap'[k].uuid = table[g].uuid
        /\ heap'[k].pk = table[g].pk /\ heap'[k].ip = table[g].ip
    BY <2>1, <2>4 DEF FromRow, DefaultPeer, Snapshot
  <2>9. [id |-> i, uuid |-> heap'[k].uuid, pk |-> heap'[k].pk, ip |-> heap'[k].ip] = table[g]
    BY <2>7, <2>8 DEF TableRow
  <2>10. \A f \in Guid : IsRowOf(f, i)' => f = g
    BY <2>1, <2>6 DEF GuidInv, OneRow, IsRowOf
  <2>11. HasRow(i)'
    BY <2>1, <2>6 DEF HasRow, IsRowOf
  <2>12. Agrees(i)'
    BY <2>3, <2>6, <2>8, <2>9, <2>10, <2>11 DEF Agrees, RecordOf
  <2>13. Serial(t, i)' => Knows(t, i)'
    BY <2>5 DEF Serial, Knows
  <2>. QED BY <1>1, <1>s, <2>3, <2>5, <2>12, <2>13, LoneStep
<1>5. CASE GetOr(t)
  <2>1. PICK k \in Free : /\ map' = [map EXCEPT ![i] = k]
                          /\ hdl' = [hdl EXCEPT ![t] = k]
                          /\ heap' = [heap EXCEPT ![k] = DefaultPeer]
    BY <1>0, <1>1, <1>5 DEF GetOr
  <2>2. k \in Handle /\ map'[i] = k /\ hdl'[t] = k /\ heap'[k] = DefaultPeer
    BY <1>0, <2>1 DEF Free, TypeInv, TypeOK
  <2>3. pc'[t] = "check" /\ table' = table /\ ~HasRow(i)
    BY <1>0, <1>5 DEF GetOr, Goto, Knows, TypeInv, TypeOK
  <2>4. ~HasRow(i)'
    BY <2>3 DEF HasRow, IsRowOf
  <2>5. Agrees(i)'
    BY <2>2, <2>4 DEF Agrees, HasRow, RecordOf, DefaultPeer
  <2>6. Knows(t, i)'
    BY <2>3 DEF Knows
  <2>. QED BY <1>1, <1>s, <2>2, <2>5, <2>6, LoneStep
<1>. QED BY <1>2, <1>3, <1>4, <1>5

\* A task past its lookup holds the record the map has.
LEMMA LoneHolds ==
  ASSUME TypeInv, NEW t \in Task, NEW i \in Id, SerialOf(i), Serial(t, i),
         pc[t] \in {"check", "read_rate", "write_rate", "write_peer", "store", "set_guid"}
  PROVE  /\ hdl[t] = map[i] /\ map[i] \in Handle /\ map[i] # NoHandle
         /\ req[t] \in PkRequest /\ req[t].id = i
         /\ Mine(t) = RecordOf(i) /\ RecordOf(i) \in Peer /\ Knows(t, i)
BY RegistryAssumption
DEF TypeInv, TypeOK, Stages, SerialOf, HeldIsCurrent, Serial, Mine, RecordOf

\* handle_register_pk up to the first write.
LEMMA CheckSerial ==
  ASSUME TypeInv, GuidInv, [Next]_vars, NEW t \in Task, NEW i \in Id,
         SerialOf(i), Serial(t, i), \A u \in Task \ {t} : ~Serial(u, i),
         Check(t) \/ ReadRate(t) \/ WriteRate(t)
  PROVE  SerialOf(i)'
<1>0. /\ hdl[t] = map[i] /\ map[i] \in Handle /\ map[i] # NoHandle
      /\ req[t] \in PkRequest /\ req[t].id = i
      /\ Mine(t) = RecordOf(i) /\ RecordOf(i) \in Peer /\ Knows(t, i)
  BY LoneHolds DEF Check, ReadRate, WriteRate
<1>s. TaskStep(t) /\ table' = table /\ map' = map
  BY DEF TaskStep, Check, ReadRate, WriteRate
<1>1. Agrees(i)
  BY <1>0 DEF SerialOf, Writing, Serial, Check, ReadRate, WriteRate
<1>2. Kept(i)
  BY <1>s, SectionKept
<1>3. Agrees(i)'
  BY <1>0, <1>1, <1>2, AgreesKept
<1>4. /\ RecordOf(i)'.uuid = RecordOf(i).uuid
      /\ RecordOf(i)'.pk = RecordOf(i).pk /\ RecordOf(i)'.ip = RecordOf(i).ip
  BY <1>0, <1>2 DEF Kept, RecordOf
<1>5. CASE Finish(t)
  <2>1. pc'[t] = "idle"
    BY <1>5, FinishLocals
  <2>. QED BY <1>3, <1>s, <2>1, LoneStep DEF Serial
<1>6. CASE ~Finish(t)
  <2>1. hdl' = hdl /\ req' = req /\ pc'[t] \in {"read_rate", "write_rate", "write_peer"}
    BY <1>6 DEF Check, ReadRate, WriteRate, Goto, TypeInv, TypeOK
  <2>2. /\ RecordOf(i).uuid \in {NoUuid, req[t].uuid}
        /\ changed'[t] \/ SameKey(RecordOf(i), req[t])
    <3>1. CASE Check(t)
      <4>1. ~UuidMismatch(RecordOf(i), req[t]) /\ changed'[t] = Changed(RecordOf(i), req[t])
        BY <1>0, <1>6, <3>1 DEF Check, TypeInv, TypeOK
      <4>2. RecordOf(i).uuid \in {NoUuid, req[t].uuid}
        BY <4>1 DEF UuidMismatch
      <4>. QED BY <4>1, <4>2 DEF Changed, SameKey
    <3>2. CASE ReadRate(t) \/ WriteRate(t)
      BY <1>0, <1>6, <3>2 DEF ReadRate, WriteRate, Knows
    <3>. QED BY <3>1, <3>2
  <2>3. Knows(t, i)'
    BY <1>4, <2>1, <2>2 DEF Knows, SameKey
  <2>. QED BY <1>0, <1>3, <1>s, <2>1, <2>3, LoneStep
<1>. QED BY <1>5, <1>6

\* PeerMap::update_pk writes the record first.
LEMMA WriteSerial ==
  ASSUME TypeInv, GuidInv, [Next]_vars, NEW t \in Task, NEW i \in Id,
         SerialOf(i), Serial(t, i), \A u \in Task \ {t} : ~Serial(u, i),
         WritePeer(t)
  PROVE  SerialOf(i)'
<1>. DEFINE p == RecordOf(i)
<1>0. /\ hdl[t] = map[i] /\ map[i] \in Handle /\ map[i] # NoHandle
      /\ req[t] \in PkRequest /\ req[t].id = i
      /\ Mine(t) = p /\ p \in Peer /\ Knows(t, i)
  BY LoneHolds DEF WritePeer
<1>s. /\ TaskStep(t) /\ UNCHANGED <<table, map, req, hdl>>
      /\ pc'[t] = "store" /\ guid'[t] = p.guid
  BY <1>0 DEF TaskStep, WritePeer, Goto, TypeInv, TypeOK
<1>1. Agrees(i)
  BY <1>0 DEF SerialOf, Writing, Serial, WritePeer
<1>2. RecordOf(i)' = UpdatePk(p, req[t])
  BY <1>0 DEF WritePeer, RecordOf, TypeInv, TypeOK
<1>3. SameKey(RecordOf(i), req[t])' /\ RecordOf(i)'.guid = p.guid
  BY <1>0, <1>2, <1>s DEF UpdatePk, SameKey, Peer
<1>4. p.guid = NoGuid => ~HasRow(i)'
  BY <1>1, <1>s, RecordAssumption DEF Agrees, HasRow, IsRowOf
<1>5. p.guid # NoGuid => table[p.guid].uuid = req[t].uuid
  <2>. SUFFICES ASSUME p.guid # NoGuid PROVE table[p.guid].uuid = req[t].uuid
    OBVIOUS
  <2>1. Holds(map[i], i) /\ p.guid \in Guid
    BY <1>0 DEF Holds, Peer
  <2>2. IsRowOf(p.guid, i)
    BY <1>0, <2>1 DEF GuidInv, GuidNamesOwnRow, IsRowOf, RecordOf
  <2>3. table[p.guid] \in TableRow
    BY <2>1, <2>2 DEF IsRowOf, TypeInv, TypeOK
  <2>4. table[p.guid].uuid = p.uuid /\ p.uuid # NoUuid
    BY <1>1, <2>1, <2>2, <2>3, RecordAssumption DEF Agrees, TableRow
  <2>. QED BY <1>0, <2>4 DEF Knows, WritePeer
<1>6. Knows(t, i)'
  BY <1>3, <1>4, <1>5, <1>s DEF Knows
<1>7. Writing(t, i)'
  BY <1>0, <1>s DEF Writing, Serial
<1>. QED BY <1>0, <1>6, <1>7, <1>s, LoneStep

\* An update that succeeds leaves in the row what was registered.
LEMMA UpdatedRow ==
  ASSUME TypeInv, GuidInv, NEW t \in Task, NEW i \in Id,
         SerialOf(i), Serial(t, i), UpdateRow(t)
  PROVE  \E g \in Guid : /\ RecordOf(i).guid = g /\ IsRowOf(g, i)
                         /\ table'[g] = RowOf(req[t])
<1>. DEFINE rq == req[t]
<1>0. rq \in PkRequest /\ rq.id = i /\ Knows(t, i)
  BY LoneHolds DEF UpdateRow
<1>1. PICK g \in Guid : g = guid[t] /\ IsRowOf(g, i)
  BY <1>0 DEF UpdateRow, TypeInv, TypeOK, GuidInv, GuidInUseIsOwn
<1>2. table[g] \in TableRow /\ table[g].uuid = rq.uuid /\ RecordOf(i).guid = g
  BY <1>0, <1>1 DEF UpdateRow, Knows, IsRowOf, TypeInv, TypeOK
<1>3. table'[g] = TableUpdate(table[g], rq)
  BY <1>1 DEF UpdateRow, IsRowOf, TypeInv, TypeOK
<1>4. ASSUME NEW r \in TableRow, r.uuid = rq.uuid PROVE TableUpdate(r, rq) = RowOf(rq)
  <2>1. TableUpdate(r, rq) \in TableRow /\ RowOf(rq) \in TableRow
    BY <1>0 DEF TableUpdate, RowOf, TableRow, PkRequest, Addr
  <2>2. /\ TableUpdate(r, rq).id = RowOf(rq).id /\ TableUpdate(r, rq).uuid = RowOf(rq).uuid
        /\ TableUpdate(r, rq).pk = RowOf(rq).pk /\ TableUpdate(r, rq).ip = RowOf(rq).ip
    BY <1>4 DEF TableUpdate, RowOf, TableRow
  <2>. QED BY <2>1, <2>2 DEF TableRow
<1>. QED BY <1>1, <1>2, <1>3, <1>4

\* The row second, and the new guid third.
LEMMA StoreSerial ==
  ASSUME TypeInv, GuidInv, [Next]_vars, NEW t \in Task, NEW i \in Id,
         SerialOf(i), Serial(t, i), \A u \in Task \ {t} : ~Serial(u, i),
         InsertPeer(t) \/ UpdateRow(t) \/ SetGuid(t)
  PROVE  SerialOf(i)'
<1>. DEFINE p == RecordOf(i)  rq == req[t]
<1>0. /\ hdl[t] = map[i] /\ map[i] \in Handle /\ map[i] # NoHandle
      /\ rq \in PkRequest /\ rq.id = i
      /\ p \in Peer /\ Knows(t, i)
  BY LoneHolds DEF InsertPeer, UpdateRow, SetGuid
<1>s. TaskStep(t) /\ map' = map
  BY DEF TaskStep, InsertPeer, UpdateRow, SetGuid
<1>k. SameKey(p, rq)
  BY <1>0 DEF Knows, InsertPeer, UpdateRow, SetGuid
<1>r. Referenced(map[i])'
  BY <1>s DEF Referenced
<1>o. OneRow'
  BY OneRowStep
<1>1. CASE InsertPeer(t)
  <2>1. /\ UNCHANGED <<heap, req, hdl>> /\ pc'[t] = "set_guid" /\ guid'[t] \in Guid
        /\ table'[guid'[t]] = RowOf(rq)
    BY <1>1 DEF InsertPeer, Goto, TypeInv, TypeOK
  <2>2. Knows(t, i)'
    BY <1>k, <1>s, <2>1 DEF Knows, SameKey, RecordOf, RowOf
  <2>3. Writing(t, i)'
    BY <1>0, <2>1 DEF Writing, Serial
  <2>. QED BY <1>0, <1>s, <2>1, <2>2, <2>3, LoneStep
\* The id has one row, what the task has sent to the table; the record has it too.
<1>2. ASSUME NEW g \in Guid, IsRowOf(g, i)', table'[g] = RowOf(rq),
             RecordOf(i)'.guid = g, RecordOf(i)'.uuid = p.uuid,
             RecordOf(i)'.pk = p.pk, RecordOf(i)'.ip = p.ip,
             pc'[t] = "idle"
      PROVE  SerialOf(i)'
  <2>1. \A f \in Guid : IsRowOf(f, i)' => f = g
    BY <1>2, <1>o DEF OneRow
  <2>2. HasRow(i)'
    BY <1>2 DEF HasRow
  <2>3. [id |-> i, uuid |-> p.uuid, pk |-> p.pk, ip |-> p.ip] = RowOf(rq)
    BY <1>0, <1>k DEF SameKey, RowOf
  <2>4. Agrees(i)'
    BY <1>2, <2>1, <2>2, <2>3 DEF Agrees
  <2>5. ~Serial(t, i)'
    BY <1>2 DEF Serial
  <2>. QED BY <1>2, <1>s, <2>4, <2>5, LoneStep
<1>3. CASE UpdateRow(t)
  <2>1. PICK g \in Guid : p.guid = g /\ IsRowOf(g, i) /\ table'[g] = RowOf(rq)
    BY <1>3, UpdatedRow
  <2>2. RecordOf(i)' = p
    BY <1>0, <1>3, <1>r, <1>s DEF UpdateRow, Dropping, RecordOf
  <2>3. IsRowOf(g, i)' /\ table'[g] = RowOf(rq) /\ RecordOf(i)'.guid = g
    BY <2>1, <2>2, RowsStay
  <2>4. pc'[t] = "idle"
    BY <1>3, FinishLocals DEF UpdateRow
  <2>. QED BY <1>2, <2>2, <2>3, <2>4
<1>4. CASE SetGuid(t)
  <2>1. guid[t] \in Guid /\ IsRowOf(guid[t], i) /\ table[guid[t]] = RowOf(rq)
    BY <1>0, <1>4, RecordAssumption
    DEF SetGuid, TypeInv, Stages, GuidInv, GuidInUseIsOwn, Knows
  <2>2. table' = table /\ pc'[t] = "idle"
    BY <1>4, FinishLocals DEF SetGuid
  <2>3. RecordOf(i)' = [p EXCEPT !.guid = guid[t]]
    BY <1>0, <1>4, <1>r, <1>s DEF SetGuid, Dropping, RecordOf, TypeInv, TypeOK
  <2>4. /\ RecordOf(i)'.guid = guid[t] /\ RecordOf(i)'.uuid = p.uuid
        /\ RecordOf(i)'.pk = p.pk /\ RecordOf(i)'.ip = p.ip
    BY <1>0, <2>3 DEF Peer
  <2>5. PICK g \in Guid : g = guid[t]
    BY <2>1
  <2>6. IsRowOf(g, i)' /\ table'[g] = RowOf(rq) /\ RecordOf(i)'.guid = g
    BY <2>1, <2>2, <2>4, <2>5 DEF IsRowOf
  <2>. QED BY <1>2, <2>2, <2>4, <2>6
<1>. QED BY <1>1, <1>3, <1>4

-----------------------------------------------------------------------------
(* The inductive invariant of the ids nobody has disturbed. *)

\* A section of a handler, for the id it serves and for every other one.
LEMMA TaskStepSerial ==
  ASSUME TypeInv, GuidInv, SerialInv, [Next]_vars, NEW t \in Task, TaskStep(t)
  PROVE  SerialInv'
<1>0. disturbed \subseteq disturbed'
  BY DEF TaskStep, FetchRow, FetchNone, LoadRow, GetOr, Check, ReadRate, WriteRate,
         WritePeer, InsertPeer, UpdateRow, StoreFails, SetGuid, TouchPeer
<1>1. SUFFICES ASSUME NEW i \in Id \ disturbed' PROVE SerialOf(i)'
  BY DEF SerialInv
<1>2. SerialOf(i) /\ pc[t] # "idle"
  BY <1>0
  DEF SerialInv, TaskStep, FetchRow, FetchNone, LoadRow, GetOr, Check, ReadRate,
      WriteRate, WritePeer, InsertPeer, UpdateRow, StoreFails, SetGuid, TouchPeer
<1>3. CASE req[t].id # i
  <2>1. Kept(i)
    BY <1>3, OtherRecord, OtherRows DEF Kept
  <2>2. pc'[t] = "idle" \/ req'[t] = req[t]
    BY FinishLocals
    DEF TaskStep, FetchRow, FetchNone, LoadRow, GetOr, Check, ReadRate, WriteRate,
        WritePeer, InsertPeer, UpdateRow, StoreFails, SetGuid, TouchPeer
  <2>. QED BY <1>2, <1>3, <2>1, <2>2, SerialKept DEF Serial
<1>4. CASE TouchPeer(t)
  <2>1. Kept(i) /\ pc'[t] = "idle" /\ pc[t] = "touch"
    BY <1>4, SectionKept, FinishLocals DEF TouchPeer
  <2>. QED BY <1>2, <2>1, SerialKept DEF Serial
<1>5. CASE req[t].id = i /\ ~TouchPeer(t)
  <2>1. Serial(t, i)
    BY <1>2, <1>5
    DEF Serial, TaskStep, FetchRow, FetchNone, LoadRow, GetOr, Check, ReadRate,
        WriteRate, WritePeer, InsertPeer, UpdateRow, StoreFails, SetGuid
  <2>2. \A u \in Task \ {t} : ~Serial(u, i)
    BY <1>2, <2>1 DEF SerialOf, OneHandler
  <2>3. ~StoreFails(t)
    BY <1>5 DEF StoreFails
  <2>. QED
    BY <1>2, <1>5, <2>1, <2>2, <2>3, LookupSerial, CheckSerial, WriteSerial, StoreSerial
    DEF TaskStep
<1>. QED BY <1>3, <1>4, <1>5

\* An arrival: it changes no record, and does not find another handler.
LEMMA ArrivalSerial ==
  ASSUME TypeInv, GuidInv, SerialInv, [Next]_vars, NEW t \in Task, Arrival(t)
  PROVE  SerialInv'
<1>1. PICK j \in Id :
        /\ UNCHANGED <<map, heap, table>> /\ disturbed \subseteq disturbed'
        /\ pc[t] = "idle" /\ req'[t].id = j
        /\ \/ pc'[t] = "touch" /\ hdl'[t] = map[j]
           \/ /\ Overlap(t, j) => j \in disturbed'
              /\ \/ pc'[t] = "check" /\ hdl'[t] = map[j]
                 \/ pc'[t] = "fetch" /\ hdl'[t] = hdl[t] /\ map[j] = NoHandle
  <2>1. CASE \E rq \in PkRequests : RegisterPk(t, rq)
    <3>1. PICK rq \in PkRequests : RegisterPk(t, rq)
      BY <2>1
    <3>2. rq.id \in Id
      BY PkRequestsType DEF PkRequest
    <3>. QED BY <3>1, <3>2 DEF RegisterPk, Start, Goto, TypeInv, TypeOK
  <2>2. CASE \E i \in Id : Get(t, i)
    BY <2>2 DEF Get, Start, Goto, TypeInv, TypeOK
  <2>3. CASE \E i \in Id, a \in SourceAddr : RegisterPeer(t, i, a)
    BY <2>3 DEF RegisterPeer, Goto, TypeInv, TypeOK
  <2>. QED BY <2>1, <2>2, <2>3 DEF Arrival
<1>2. SUFFICES ASSUME NEW i \in Id \ disturbed' PROVE SerialOf(i)'
  BY DEF SerialInv
<1>3. SerialOf(i) /\ ~Serial(t, i)
  BY <1>1 DEF SerialInv, Serial
<1>4. Kept(i)
  BY <1>1 DEF Kept, IsRowOf
<1>5. CASE i # j \/ pc'[t] = "touch"
  BY <1>1, <1>3, <1>4, <1>5, SerialKept DEF Serial
<1>6. CASE i = j /\ pc'[t] # "touch"
  <2>1. ~Overlap(t, i)
    BY <1>1, <1>6
  <2>2. ASSUME NEW u \in Task \ {t} PROVE ~Serial(u, i)
    <3>. SUFFICES ASSUME Serial(u, i) PROVE FALSE
      OBVIOUS
    <3>1. req[u].op # "RegisterPeer" /\ req[u].id = i /\ pc[u] # "idle"
      BY DEF Serial, TypeInv, TypeOK, Stages, Pc, PkRequest, GetRequest
    <3>. QED BY <2>1, <3>1 DEF Overlap
  <2>3. map[i] # NoHandle => Agrees(i)'
    BY <1>3, <1>4, <2>2, AgreesKept DEF SerialOf, Writing
  <2>4. Knows(t, i)'
    BY <1>1, <1>6 DEF Knows
  <2>5. hdl'[t] # NoHandle => hdl'[t] = map[i]
    BY <1>1, <1>6 DEF TypeInv, Stages
  <2>. QED BY <1>1, <1>3, <2>2, <2>3, <2>4, <2>5, LoneStep
<1>. QED BY <1>5, <1>6

\* The steps of no task.
LEMMA SerialInvCorrect == Spec => []SerialInv
<1>1. Init => SerialInv
  BY DEF Init, SerialInv, SerialOf, OneHandler, HeldIsCurrent, Serial
<1>2. TypeInv /\ GuidInv /\ SerialInv /\ [Next]_vars => SerialInv'
  <2>. SUFFICES ASSUME TypeInv, GuidInv, SerialInv, [Next]_vars PROVE SerialInv'
    OBVIOUS
  <2>1. ASSUME NEW t \in Task, Arrival(t) \/ TaskStep(t) PROVE SerialInv'
    BY <2>1, ArrivalSerial, TaskStepSerial
  <2>2. ASSUME UNCHANGED <<map, table, locals, disturbed>>,
               \A h \in Handle :
                 /\ heap'[h].guid = heap[h].guid /\ heap'[h].uuid = heap[h].uuid
                 /\ heap'[h].pk = heap[h].pk /\ heap'[h].ip = heap[h].ip
        PROVE  SerialInv'
    <3>1. SUFFICES ASSUME NEW i \in Id \ disturbed PROVE SerialOf(i)'
      BY <2>2 DEF SerialInv
    <3>2. SerialOf(i)
      BY DEF SerialInv
    <3>3. Kept(i)
      BY <2>2 DEF Kept, IsRowOf, TypeInv, TypeOK
    <3>4. OneHandler(i)' /\ HeldIsCurrent(i)'
      BY <2>2, <3>2 DEF SerialOf, OneHandler, HeldIsCurrent, Serial, locals
    <3>5. ASSUME NEW u \in Task, Serial(u, i)' PROVE Knows(u, i)'
      BY <2>2, <3>2, <3>3, <3>5, KnowsKept DEF Serial, locals
    <3>6. map'[i] # NoHandle /\ (\A u \in Task : ~Writing(u, i)') => Agrees(i)'
      BY <2>2, <3>2, <3>3, AgreesKept DEF SerialOf, Writing, Serial, locals
    <3>. QED BY <3>4, <3>5, <3>6 DEF SerialOf
  <2>3. ASSUME NEW h \in Handle, RegExpires(h) \/ RateExpires(h) PROVE SerialInv'
    BY <2>2, <2>3 DEF RegExpires, RateExpires, TypeInv, TypeOK, Peer
  <2>4. CASE Crash
    BY <2>4 DEF Crash, SerialInv, SerialOf, OneHandler, HeldIsCurrent, Serial
  <2>5. CASE UNCHANGED vars
    BY <2>2, <2>5 DEF vars, locals
  <2>. QED BY <2>1, <2>3, <2>4, <2>5 DEF Next
<1>. QED BY <1>1, <1>2, TypeInvCorrect, GuidInvCorrect, PTL DEF Spec

\* When the handlers of an id did not overlap and no statement failed, memory
\* and table agree whenever no request is served.
THEOREM SerialCorrect == Spec => []SerialAgreement
<1>1. TypeInv /\ GuidInv /\ SerialInv => SerialAgreement
  <2>. SUFFICES ASSUME TypeInv, GuidInv, SerialInv, NEW i \in Id \ disturbed, Quiet(i),
                       map[i] # NoHandle
                PROVE  LET p == heap[map[i]] IN
                         IF HasRow(i)
                         THEN /\ p.guid = RowGuid(i)
                              /\ [id |-> i, uuid |-> p.uuid, pk |-> p.pk, ip |-> p.ip]
                                   = table[p.guid]
                         ELSE p.uuid = NoUuid /\ p.pk = NoPk
    BY DEF SerialAgreement
  <2>1. \A t \in Task : ~Serial(t, i)
    BY ServedId, SentinelAssumption DEF Quiet, Serial
  <2>2. Agrees(i)
    BY <2>1 DEF SerialInv, SerialOf, Writing
  <2>3. HasRow(i) => RowGuid(i) \in Guid /\ IsRowOf(RowGuid(i), i)
    BY DEF HasRow, RowGuid
  <2>. QED BY <2>2, <2>3 DEF Agrees, RecordOf
<1>. QED BY <1>1, TypeInvCorrect, GuidInvCorrect, SerialInvCorrect, PTL

-----------------------------------------------------------------------------
(* What an undisturbed id can rely on, step by step. *)

\* The answer OK to a RegisterPk.
LEMMA AckedStep ==
  ASSUME TypeInv, GuidInv, SerialInv, NEW t \in Task, Accepted(t),
         req[t].id \notin disturbed'
  PROVE  \E g \in Guid : table'[g] # NoRow /\ table'[g] = RowOf(req[t])
<1>. DEFINE i == req[t].id  p == RecordOf(i)
<1>1. pc[t] \in {"write_rate", "store", "set_guid"} /\ ~StoreFails(t)
      /\ disturbed' = disturbed /\ pc'[t] = "idle"
  BY DEF Accepted, WriteRate, UpdateRow, StoreFails, SetGuid
<1>2. i \in Id \ disturbed /\ Serial(t, i)
  BY <1>1, ServedId DEF Serial
<1>3. SerialOf(i) /\ \A u \in Task \ {t} : ~Serial(u, i)
  BY <1>2 DEF SerialInv, SerialOf, OneHandler
<1>4. req[t] \in PkRequest /\ Knows(t, i) /\ map[i] # NoHandle
  BY <1>1, <1>2, <1>3, LoneHolds
<1>5. RowOf(req[t]) # NoRow
  BY <1>4, SentinelAssumption DEF RowOf, TableRow, PkRequest, Addr
<1>6. CASE WriteRate(t)
  <2>1. ~changed[t] /\ table' = table /\ pc[t] = "write_rate"
    BY <1>1, <1>6 DEF WriteRate, Goto, TypeInv, TypeOK
  <2>2. SameKey(p, req[t])
    BY <1>4, <2>1 DEF Knows
  <2>3. Agrees(i)
    BY <1>3, <1>4, <2>1 DEF SerialOf, Writing
  <2>4. PICK g \in Guid : IsRowOf(g, i)
    BY <1>4, <2>2, <2>3, RecordAssumption DEF Agrees, HasRow, SameKey, PkRequest
  <2>5. table[g] = RowOf(req[t])
    BY <2>2, <2>3, <2>4 DEF Agrees, SameKey, RowOf
  <2>. QED BY <1>5, <2>1, <2>5
<1>7. CASE UpdateRow(t)
  BY <1>2, <1>3, <1>5, <1>7, UpdatedRow
<1>8. CASE SetGuid(t)
  <2>1. guid[t] \in Guid /\ table'[guid[t]] = RowOf(req[t])
    BY <1>4, <1>8 DEF SetGuid, Knows, TypeInv, Stages
  <2>. QED BY <1>5, <2>1
<1>. QED BY <1>1, <1>6, <1>7, <1>8 DEF Accepted

\* An OK is an OK of the table.
THEOREM AckedCorrect == Spec => AckedIsStored
<1>1. TypeInv /\ GuidInv /\ SerialInv
        => [\A t \in Task :
              Accepted(t) /\ req[t].id \notin disturbed' =>
                \E g \in Guid : table'[g] # NoRow /\ table'[g] = RowOf(req[t])]_vars
  BY AckedStep
<1>. QED
  BY <1>1, TypeInvCorrect, GuidInvCorrect, SerialInvCorrect, PTL DEF AckedIsStored

\* A record that stays in the map stays fresh in every section of a handler.
LEMMA FreshKept ==
  ASSUME TypeInv, NEW t \in Task, TaskStep(t), ~LoadRow(t), ~GetOr(t),
         NEW h \in Handle, Referenced(h), Referenced(h)', heap[h].fresh
  PROVE  heap'[h].fresh /\ map' = map
<1>h. heap \in [Handle -> Peer] /\ Stages
  BY DEF TypeInv, TypeOK
<1>1. CASE heap' = heap \/ heap' = Dropping(heap)
  <2>1. heap'[h] = heap[h]
    BY <1>1 DEF Dropping
  <2>. QED
    BY <1>1, <2>1
    DEF TaskStep, FetchRow, FetchNone, Check, ReadRate, WriteRate, WritePeer,
        InsertPeer, UpdateRow, StoreFails, SetGuid, TouchPeer
<1>2. CASE WriteRate(t) \/ SetGuid(t)
  BY <1>2, <1>h DEF WriteRate, SetGuid, Dropping, Peer
<1>3. CASE WritePeer(t)
  <2>1. heap'[h] = IF h = hdl[t] THEN UpdatePk(heap[h], req[t]) ELSE heap[h]
    BY <1>3, <1>h DEF WritePeer
  <2>. QED BY <1>3, <1>h, <2>1 DEF WritePeer, UpdatePk, Peer
<1>4. CASE TouchPeer(t)
  <2>1. heap'[h] = IF h = hdl[t] THEN UpdateAddr(heap[h], req[t].addr) ELSE heap[h]
    BY <1>4, <1>h DEF TouchPeer, Dropping
  <2>. QED BY <1>4, <1>h, <2>1 DEF TouchPeer, UpdateAddr, Peer
<1>5. FetchRow(t) \/ FetchNone(t) \/ InsertPeer(t) => heap' = heap
  BY DEF FetchRow, FetchNone, InsertPeer
<1>6. Check(t) \/ ReadRate(t) \/ UpdateRow(t) \/ StoreFails(t)
        => heap' = heap \/ heap' = Dropping(heap)
  BY DEF Check, ReadRate, UpdateRow, StoreFails
<1>. QED BY <1>1, <1>2, <1>3, <1>4, <1>5, <1>6 DEF TaskStep

\* Who is online and is not any more has waited too long, or met a crash.
LEMMA OnlineStep ==
  ASSUME TypeInv, GuidInv, SerialInv, [Next]_vars, NEW i \in Id \ disturbed',
         Online(i), ~Online(i)'
  PROVE  RegExpires(map[i]) \/ Crash
<1>0. map[i] \in Handle /\ heap[map[i]].fresh /\ heap \in [Handle -> Peer]
      /\ map[i] # NoHandle
  BY DEF Online, TypeInv, TypeOK
<1>1. ASSUME NEW t \in Task, Arrival(t) PROVE FALSE
  BY <1>1 DEF Arrival, RegisterPk, Get, Start, RegisterPeer, Online
<1>2. ASSUME NEW t \in Task, TaskStep(t) PROVE FALSE
  <2>1. CASE req[t].id # i
    BY <1>0, <1>2, <2>1, OtherRecord DEF Online
  <2>2. CASE req[t].id = i /\ (LoadRow(t) \/ GetOr(t))
    <3>1. i \in Id \ disturbed /\ Serial(t, i) /\ pc[t] \in {"load", "get_or"}
      BY <2>2 DEF LoadRow, GetOr, Serial
    <3>2. map[i] = NoHandle
      BY <3>1 DEF SerialInv, SerialOf, Knows
    <3>. QED BY <1>0, <3>2
  <2>3. CASE ~LoadRow(t) /\ ~GetOr(t)
    <3>1. map' = map
      BY <1>2, <2>3
      DEF TaskStep, FetchRow, FetchNone, Check, ReadRate, WriteRate, WritePeer,
          InsertPeer, UpdateRow, StoreFails, SetGuid, TouchPeer
    <3>2. Referenced(map[i]) /\ Referenced(map[i])'
      BY <3>1 DEF Referenced
    <3>. QED BY <1>0, <1>2, <2>3, <3>1, <3>2, FreshKept DEF Online
  <2>. QED BY <2>1, <2>2, <2>3
<1>3. ASSUME NEW h \in Handle, RegExpires(h) PROVE h = map[i]
  BY <1>0, <1>3 DEF RegExpires, Online
<1>4. ASSUME NEW h \in Handle, RateExpires(h) PROVE FALSE
  BY <1>0, <1>4 DEF RateExpires, Online, Peer
<1>5. CASE UNCHANGED vars
  BY <1>5 DEF vars, Online
<1>. QED BY <1>1, <1>2, <1>3, <1>4, <1>5 DEF Next

\* No handler makes an online peer look offline.
THEOREM OnlineCorrect == Spec => OnlineUntilExpiry
<1>1. TypeInv /\ GuidInv /\ SerialInv /\ [Next]_vars
        => [\A i \in Id \ disturbed' :
              Online(i) /\ ~Online(i)' => RegExpires(map[i]) \/ Crash]_vars
  BY OnlineStep
<1>. QED
  BY <1>1, TypeInvCorrect, GuidInvCorrect, SerialInvCorrect, PTL
  DEF Spec, OnlineUntilExpiry

-----------------------------------------------------------------------------
(* The table implements IdentityStore. *)

Owner(i) == IF HasRow(i) THEN table[RowGuid(i)].uuid ELSE NoUuid
Key(i) == IF HasRow(i) THEN table[RowGuid(i)].pk ELSE NoPk

\* The row of an id is a row of that id.
LEMMA RowGuidIsOwn ==
  ASSUME NEW i \in Id, HasRow(i)
  PROVE  RowGuid(i) \in Guid /\ IsRowOf(RowGuid(i), i)
BY DEF HasRow, RowGuid

\* Owner and Key, read off any row of the id.
LEMMA OwnerOfRow ==
  ASSUME OneRow, NEW g \in Guid, NEW i \in Id, IsRowOf(g, i)
  PROVE  HasRow(i) /\ Owner(i) = table[g].uuid /\ Key(i) = table[g].pk
<1>1. HasRow(i)
  BY DEF HasRow
<1>2. RowGuid(i) = g
  BY <1>1, RowGuidIsOwn DEF OneRow
<1>. QED BY <1>1, <1>2 DEF Owner, Key

\* The same after a step.
LEMMA OwnerOfRowNext ==
  ASSUME OneRow', NEW g \in Guid, NEW i \in Id, IsRowOf(g, i)'
  PROVE  HasRow(i)' /\ Owner(i)' = table'[g].uuid /\ Key(i)' = table'[g].pk
<1>1. HasRow(i)'
  BY DEF HasRow
<1>2. RowGuid(i)' \in Guid /\ IsRowOf(RowGuid(i), i)'
  BY <1>1 DEF HasRow, RowGuid
<1>3. RowGuid(i)' = g
  BY <1>2 DEF OneRow
<1>. QED BY <1>1, <1>3 DEF Owner, Key

\* An id whose rows a step leaves alone keeps owner and key.
LEMMA OwnerKept ==
  ASSUME OneRow, OneRow', NEW i \in Id,
         \A g \in Guid : /\ IsRowOf(g, i)' <=> IsRowOf(g, i)
                         /\ IsRowOf(g, i) => table'[g] = table[g]
  PROVE  Owner(i)' = Owner(i) /\ Key(i)' = Key(i)
<1>1. CASE \E g \in Guid : IsRowOf(g, i)
  BY <1>1, OwnerOfRow, OwnerOfRowNext
<1>2. CASE ~\E g \in Guid : IsRowOf(g, i)
  BY <1>2 DEF HasRow, Owner, Key
<1>. QED BY <1>1, <1>2

\* An insert binds the id to the machine that registers.
LEMMA InsertBinds ==
  ASSUME TypeInv, GuidInv, [Next]_vars, NEW t \in Task, InsertPeer(t)
  PROVE  \E i \in Id, u \in Uuid, k \in Pk :
           /\ Owner(i) = NoUuid /\ Owner(i)' = u /\ Key(i)' = k
           /\ \A j \in Id \ {i} : Owner(j)' = Owner(j) /\ Key(j)' = Key(j)
<1>1. PICK rq \in PkRequest : rq = req[t]
  BY DEF InsertPeer, TypeInv, Stages
<1>2. rq.id \in Id /\ rq.uuid \in Uuid /\ rq.pk \in Pk /\ ~HasRow(rq.id)
  BY <1>1 DEF InsertPeer, PkRequest
<1>3. PICK g \in Guid : table[g] = NoRow /\ table' = [table EXCEPT ![g] = RowOf(rq)]
  BY <1>1 DEF InsertPeer
<1>4. /\ table'[g] = RowOf(rq) /\ RowOf(rq) # NoRow
      /\ \A k \in Guid \ {g} : table'[k] = table[k]
  BY <1>3, RecordAssumption, SentinelAssumption
  DEF RowOf, TableRow, PkRequest, Addr, TypeInv, TypeOK
<1>5. OneRow /\ OneRow'
  BY OneRowStep DEF GuidInv
<1>6. Owner(rq.id) = NoUuid
  BY <1>2 DEF Owner
<1>7. IsRowOf(g, rq.id)'
  BY <1>4 DEF IsRowOf, RowOf
<1>8. Owner(rq.id)' = rq.uuid /\ Key(rq.id)' = rq.pk
  BY <1>2, <1>4, <1>5, <1>7, OwnerOfRowNext DEF RowOf
<1>9. ASSUME NEW j \in Id \ {rq.id} PROVE Owner(j)' = Owner(j) /\ Key(j)' = Key(j)
  <2>1. \A k \in Guid : /\ IsRowOf(k, j)' <=> IsRowOf(k, j)
                        /\ IsRowOf(k, j) => table'[k] = table[k]
    BY <1>3, <1>4 DEF IsRowOf, RowOf
  <2>. QED BY <1>5, <2>1, OwnerKept
<1>. QED BY <1>2, <1>6, <1>8, <1>9

\* An update changes the key of the id it serves, and no owner.
LEMMA UpdateRekeys ==
  ASSUME TypeInv, GuidInv, [Next]_vars, NEW t \in Task, UpdateRow(t)
  PROVE  \E i \in Id, k \in Pk :
           /\ Owner(i) # NoUuid /\ Owner(i)' = Owner(i) /\ Key(i)' = k
           /\ \A j \in Id \ {i} : Owner(j)' = Owner(j) /\ Key(j)' = Key(j)
<1>1. PICK rq \in PkRequest, g \in Guid : rq = req[t] /\ g = guid[t]
  BY DEF UpdateRow, TypeInv, TypeOK, Stages
<1>2. rq.id \in Id /\ rq.pk \in Pk /\ IsRowOf(g, rq.id)
  BY <1>1 DEF UpdateRow, PkRequest, GuidInv, GuidInUseIsOwn
<1>3. table[g] \in TableRow
  BY <1>2 DEF IsRowOf, TypeInv, TypeOK
<1>4. /\ TableUpdate(table[g], rq).uuid = table[g].uuid
      /\ TableUpdate(table[g], rq).id = rq.id
      /\ TableUpdate(table[g], rq).pk = rq.pk
  BY <1>3 DEF TableUpdate, TableRow
<1>5. /\ table'[g] = TableUpdate(table[g], rq)
      /\ \A k \in Guid \ {g} : table'[k] = table[k]
  BY <1>1, <1>2 DEF UpdateRow, IsRowOf, TypeInv, TypeOK
<1>6. OneRow /\ OneRow' /\ IsRowOf(g, rq.id)'
  BY <1>2, OneRowStep, RowsStay DEF GuidInv
<1>7. Owner(rq.id) = table[g].uuid /\ table[g].uuid # NoUuid
  BY <1>2, <1>3, <1>6, OwnerOfRow, RecordAssumption DEF TableRow
<1>8. Owner(rq.id)' = table[g].uuid /\ Key(rq.id)' = rq.pk
  BY <1>2, <1>4, <1>5, <1>6, OwnerOfRowNext
<1>9. ASSUME NEW j \in Id \ {rq.id} PROVE Owner(j)' = Owner(j) /\ Key(j)' = Key(j)
  <2>1. \A k \in Guid : /\ IsRowOf(k, j)' <=> IsRowOf(k, j)
                        /\ IsRowOf(k, j) => table'[k] = table[k]
    BY <1>2, <1>5, <1>6 DEF IsRowOf
  <2>. QED BY <1>6, <2>1, OwnerKept
<1>. QED BY <1>2, <1>7, <1>8, <1>9

\* Every step is a binding, a new key, or a stutter of the abstract store.
LEMMA StoreStep ==
  ASSUME TypeInv, GuidInv, [Next]_vars
  PROVE  [Store!Next]_(Store!vars)
<1>. USE DEF Store!Next, Store!vars, Store!Bind, Store!Rekey
<1>1. CASE table' = table
  <2>1. \A i \in Id : /\ HasRow(i)' <=> HasRow(i)
                      /\ RowGuid(i)' = RowGuid(i)
    BY <1>1 DEF HasRow, RowGuid, IsRowOf
  <2>. QED BY <1>1, <2>1
<1>2. ASSUME NEW t \in Task, InsertPeer(t) PROVE Store!Next
  <2>1. PICK i \in Id, u \in Uuid, k \in Pk :
           /\ Owner(i) = NoUuid /\ Owner(i)' = u /\ Key(i)' = k
           /\ \A j \in Id \ {i} : Owner(j)' = Owner(j) /\ Key(j)' = Key(j)
    BY <1>2, InsertBinds
  <2>2. Store!Bind(i, u, k)
    BY <2>1 DEF Owner, Key
  <2>. QED BY <2>2
<1>3. ASSUME NEW t \in Task, UpdateRow(t) PROVE Store!Next
  <2>1. PICK i \in Id, k \in Pk :
           /\ Owner(i) # NoUuid /\ Owner(i)' = Owner(i) /\ Key(i)' = k
           /\ \A j \in Id \ {i} : Owner(j)' = Owner(j) /\ Key(j)' = Key(j)
    BY <1>3, UpdateRekeys
  <2>2. Store!Rekey(i, k)
    BY <2>1 DEF Owner, Key
  <2>. QED BY <2>2
<1>4. table' = table \/ \E t \in Task : InsertPeer(t) \/ UpdateRow(t)
  BY DEF Next, Arrival, TaskStep, RegisterPk, Get, Start, RegisterPeer, FetchRow,
         FetchNone, LoadRow, GetOr, Check, ReadRate, WriteRate, WritePeer,
         StoreFails, SetGuid, TouchPeer, RegExpires, RateExpires, Crash, vars
<1>. QED BY <1>1, <1>2, <1>3, <1>4

\* An id keeps the machine it was first bound to: through overlapping
\* registrations, SQL errors and restarts the table implements the promise.
THEOREM StoreCorrect == Spec => StoreSpec
<1>1. Init => Store!Init
  BY DEF Init, Store!Init, HasRow, IsRowOf
<1>2. TypeInv /\ GuidInv /\ [Next]_vars => [Store!Next]_(Store!vars)
  BY StoreStep
<1>. QED BY <1>1, <1>2, TypeInvCorrect, GuidInvCorrect, PTL DEF Spec, StoreSpec, Store!Spec

=============================================================================
