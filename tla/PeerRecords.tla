---------------------------- MODULE PeerRecords ----------------------------
(***************************************************************************)
(* The record hbbs keeps of a peer (struct Peer, src/src/peer.rs) and the  *)
(* decisions the rendezvous server takes on one record while it holds the  *)
(* record's lock.  Everything here is a pure operator; the modules that    *)
(* interleave tasks, devices and restarts use it.                          *)
(*                                                                         *)
(* Abstractions.  A socket address is an IP and whether its port is zero   *)
(* (the server never looks at a port in any other way here).  An Instant   *)
(* is the one bit its readers derive from it: last_reg_time is "fresh"     *)
(* while younger than REG_TIMEOUT; the count of reg_pk is back to zero     *)
(* once its Instant is older than six seconds.                             *)
(***************************************************************************)
EXTENDS Integers

CONSTANTS Ip,          \* IP addresses requests come from
          Loopback,    \* those that are loopback addresses
          Uuid,        \* machine identities
          Pk,          \* public keys
          Guid,        \* row keys of table peer
          NoIp, NoUuid, NoPk, NoGuid,   \* the empty string or byte vector
          RegPkLimit   \* 2 in the code: "req_pk.0 > 2" is too frequent

ASSUME RecordAssumption ==
  /\ Loopback \subseteq Ip
  /\ NoIp \notin Ip
  /\ NoUuid \notin Uuid
  /\ NoPk \notin Pk
  /\ NoGuid \notin Guid
  /\ RegPkLimit \in Nat

-----------------------------------------------------------------------------
Addr == [ip : Ip, port : {0, 1}]

\* "0.0.0.0:0"
NoAddr == [ip |-> NoIp, port |-> 0]

\* RegisterPk messages accepted since the last gap of six seconds.
Rate == 0..(RegPkLimit + 1)

Peer == [addr  : Addr \cup {NoAddr},
         fresh : BOOLEAN,
         guid  : Guid \cup {NoGuid},
         uuid  : Uuid \cup {NoUuid},
         pk    : Pk \cup {NoPk},
         ip    : Ip \cup {NoIp},
         rate  : Rate]

DefaultPeer ==
  [addr |-> NoAddr, fresh |-> FALSE, guid |-> NoGuid, uuid |-> NoUuid,
   pk |-> NoPk, ip |-> NoIp, rate |-> 0]

\* A row of table peer, and the record PeerMap::get makes of it.
Row == [guid : Guid, uuid : Uuid, pk : Pk, ip : Ip]

FromRow(row) ==
  [DefaultPeer EXCEPT !.guid = row.guid, !.uuid = row.uuid,
                      !.pk = row.pk, !.ip = row.ip]

-----------------------------------------------------------------------------
(* RegisterPeer: the heartbeat of a device. *)

IpMoved(p, addr) ==
  /\ addr.ip \notin Loopback
  /\ IF p.addr.port # 0 THEN addr.ip # p.addr.ip ELSE addr.ip # p.ip

\* The server asks the device to send RegisterPk first.
RequestPk(p, addr) == p.pk = NoPk \/ IpMoved(p, addr)

\* Mutant: the address is taken over without a registration.
UpdateAddrUnasked(p, addr) ==
  IF p.pk = NoPk THEN p ELSE [p EXCEPT !.addr = addr, !.fresh = TRUE]

UpdateAddr(p, addr) ==
  IF RequestPk(p, addr) THEN p ELSE [p EXCEPT !.addr = addr, !.fresh = TRUE]

-----------------------------------------------------------------------------
(* RegisterPk: rk is the message, rk.addr the address it came from. *)

\* The id belongs to somebody else, or key and IP changed at once.
UuidMismatch(p, rk) ==
  /\ p.uuid # NoUuid
  /\ \/ p.uuid # rk.uuid
     \/ p.ip # rk.addr.ip /\ p.pk # rk.pk

\* Mutant: a new key alone is not a change.
ChangedIgnoresPk(p, rk) == p.uuid = NoUuid \/ p.ip # rk.addr.ip

\* What was registered differs from what is recorded.
Changed(p, rk) ==
  p.uuid = NoUuid \/ p.pk # rk.pk \/ p.ip # rk.addr.ip

\* Mutant: one more than the limit.
TooFrequentLate(rate) == rate > RegPkLimit + 1

TooFrequent(rate) == rate > RegPkLimit

\* Mutant: info.ip is forgotten.
UpdatePkKeepsIp(p, rk) ==
  [p EXCEPT !.addr = rk.addr, !.uuid = rk.uuid, !.pk = rk.pk, !.fresh = TRUE]

\* PeerMap::update_pk, under the record's write lock.
UpdatePk(p, rk) ==
  [p EXCEPT !.addr = rk.addr, !.uuid = rk.uuid, !.pk = rk.pk,
            !.fresh = TRUE, !.ip = rk.addr.ip]
=============================================================================
