--------------------------- MODULE DeviceHeartbeat ---------------------------
(***************************************************************************)
(* A device that wants to be found, and hbbs over UDP: heartbeats          *)
(* (RegisterPeer, update_addr) and registrations (RegisterPk,              *)
(* handle_register_pk), src/src/rendezvous_server.rs.                      *)
(*                                                                         *)
(* The UDP loop handles one datagram at a time, so a handler is one action *)
(* here; PeerRegistry takes it apart, with the connections that interfere. *)
(* Datagrams get lost, late and out of order.  Answers on which a device   *)
(* does nothing are left out.  The device is not part of the repository:   *)
(* it sends heartbeats again and again and registers when it is asked to.  *)
(***************************************************************************)
EXTENDS PeerRecords, FiniteSets

CONSTANTS NoMem, NoRow,
          TheUuid, TheGuid,  \* of the one device
          MaxBeats, MaxPks   \* bounds on datagrams on their way

ASSUME HeartbeatAssumption ==
  /\ TheUuid \in Uuid /\ TheGuid \in Guid
  /\ NoMem \notin Peer /\ NoRow \notin Row
  /\ MaxBeats \in Nat \ {0} /\ MaxPks \in Nat \ {0}

VARIABLES
  mem,      \* the record in memory
  row,      \* the row of table peer
  device,   \* where it is, and its key
  beats,    \* RegisterPeer on its way: where from
  pks,      \* RegisterPk on its way
  asked     \* a RegisterPeerResponse with request_pk is on its way

serverVars == <<mem, row>>
netVars == <<beats, pks, asked>>
vars == <<mem, row, device, beats, pks, asked>>

At(ip) == [ip |-> ip, port |-> 1]
PkMsg == [addr : {At(ip) : ip \in Ip}, uuid : {TheUuid}, pk : Pk]
Device == [ip : Ip, pk : Pk]

Init ==
  /\ mem = NoMem /\ row = NoRow
  /\ device \in Device
  /\ beats = {} /\ pks = {} /\ asked = FALSE

-----------------------------------------------------------------------------
(* The device. *)

SendBeat ==
  /\ Cardinality(beats) < MaxBeats
  /\ beats' = beats \cup {device.ip}
  /\ UNCHANGED <<serverVars, device, pks, asked>>

\* What does not fit in is lost.
Register ==
  pks' = IF Cardinality(pks) < MaxPks
         THEN pks \cup {[addr |-> At(device.ip), uuid |-> TheUuid, pk |-> device.pk]}
         ELSE pks

\* Unasked, as after the start or with a new key.
SendPk == Register /\ UNCHANGED <<serverVars, device, beats, asked>>

HearAsk ==
  /\ asked /\ asked' = FALSE
  /\ Register
  /\ UNCHANGED <<serverVars, device, beats>>

Move(ip) ==
  /\ ip # device.ip
  /\ device' = [device EXCEPT !.ip = ip]
  /\ UNCHANGED <<serverVars, netVars>>

NewKey(pk) ==
  /\ pk # device.pk
  /\ device' = [device EXCEPT !.pk = pk]
  /\ UNCHANGED <<serverVars, netVars>>

-----------------------------------------------------------------------------
(* handle_udp *)

\* Mutant: after a restart nobody is asked to register.
AskKnown(m) == mem # NoMem /\ RequestPk(mem, At(m))

\* update_addr: only a record in memory is looked at.
Ask(m) == mem = NoMem \/ RequestPk(mem, At(m))
Refresh(m) == mem' = IF mem = NoMem THEN mem ELSE UpdateAddr(mem, At(m))

HandleBeat(m) ==
  /\ m \in beats
  /\ beats' = beats \ {m}
  /\ Refresh(m)
  /\ asked' = (asked \/ Ask(m))
  /\ UNCHANGED <<row, device, pks>>

\* PeerMap::get_or
Known == IF mem # NoMem THEN mem ELSE IF row # NoRow THEN FromRow(row) ELSE DefaultPeer

\* insert_peer or update_pk; the uuid of a row stays.
Stored(m) == [guid |-> TheGuid, uuid |-> IF row = NoRow THEN m.uuid ELSE row.uuid,
              pk |-> m.pk, ip |-> m.addr.ip]

Accept(p, m) ==
  \/ /\ Changed(p, m)
     /\ mem' = [UpdatePk(p, m) EXCEPT !.rate = p.rate + 1, !.guid = TheGuid]
     /\ row' = Stored(m)
  \/ /\ ~Changed(p, m)
     /\ mem' = [p EXCEPT !.rate = @ + 1]
     /\ UNCHANGED row

HandlePk(m) ==
  /\ m \in pks
  /\ pks' = pks \ {m}
  /\ \/ /\ UuidMismatch(Known, m) \/ TooFrequent(Known.rate)
        /\ mem' = Known
        /\ UNCHANGED row
     \/ /\ ~UuidMismatch(Known, m) /\ ~TooFrequent(Known.rate)
        /\ Accept(Known, m)
  /\ UNCHANGED <<device, beats, asked>>

\* The process starts again.
Restart ==
  /\ mem' = NoMem
  /\ UNCHANGED <<row, device, netVars>>

RegExpires ==
  /\ mem # NoMem /\ mem.fresh
  /\ mem' = [mem EXCEPT !.fresh = FALSE]
  /\ UNCHANGED <<row, device, netVars>>

RateExpires ==
  /\ mem # NoMem /\ mem.rate > 0
  /\ mem' = [mem EXCEPT !.rate = 0]
  /\ UNCHANGED <<row, device, netVars>>

Lose ==
  /\ \/ \E m \in beats : beats' = beats \ {m} /\ UNCHANGED <<pks, asked>>
     \/ \E m \in pks : pks' = pks \ {m} /\ UNCHANGED <<beats, asked>>
     \/ asked /\ asked' = FALSE /\ UNCHANGED <<beats, pks>>
  /\ UNCHANGED <<serverVars, device>>

-----------------------------------------------------------------------------
\* What changes the world the two must agree on.
Disturbance ==
  \/ \E ip \in Ip : Move(ip)
  \/ \E pk \in Pk : NewKey(pk)
  \/ Restart

Next ==
  \/ SendBeat \/ SendPk \/ HearAsk
  \/ \E m \in beats : HandleBeat(m)
  \/ \E m \in pks : HandlePk(m)
  \/ RegExpires \/ RateExpires \/ Lose
  \/ Disturbance

Spec == Init /\ [][Next]_vars

\* Of datagrams of one kind that are sent again and again some arrive; the
\* device does not stop to send heartbeats; six seconds pass.
Fairness ==
  /\ WF_vars(SendBeat) /\ WF_vars(RateExpires)
  /\ SF_vars(\E m \in beats : HandleBeat(m))
  /\ SF_vars(\E m \in pks : HandlePk(m))
  /\ SF_vars(HearAsk)

FairSpec == Spec /\ Fairness

-----------------------------------------------------------------------------
(* Properties. *)

\* Types; registrations are counted up to the limit and no further.
TypeOK ==
  /\ mem \in Peer \cup {NoMem} /\ row \in Row \cup {NoRow}
  /\ device \in Device
  /\ beats \subseteq Ip /\ pks \subseteq PkMsg
  /\ asked \in BOOLEAN

\* Punch hole requests find the device where it is.
Online == mem # NoMem /\ mem.fresh /\ mem.addr.ip = device.ip

\* Key and address differ from those on record: what the device registers is
\* refused.
LockedOut == row # NoRow /\ row.pk # device.pk /\ row.ip # device.ip

\* The last heartbeat came through the loopback, and what is on record is what
\* the device registers: nothing has changed, the address is not replaced.
Misled ==
  /\ mem # NoMem /\ mem.addr.ip \in Loopback
  /\ mem.ip = device.ip /\ mem.pk = device.pk /\ device.ip \notin Loopback

Settles == <>[][~Disturbance]_vars

\* A registration that says where the device is and what its key is, or was.
Late == \E m \in pks : ~(m.addr = At(device.ip) /\ m.pk = device.pk) /\ HandlePk(m)

\* A device stays online until it is not heard of in time, or a late registration
\* of its own or a heartbeat through the loopback replaces its address; while the
\* world is as it is, nothing but a late registration gets it out of being locked
\* out or misled, whatever it sends.
Lasts ==
  [][/\ Online /\ ~Online' => \/ Disturbance \/ RegExpires \/ Late
                             \/ \E m \in beats \cap Loopback : HandleBeat(m)
     /\ LockedOut /\ ~LockedOut' => Disturbance \/ Late
     /\ Misled /\ ~Misled' => Disturbance \/ Late]_vars

\* A device that has moved, or whose server was started again, is online at its
\* new address again and again, through the round of a heartbeat, a request for
\* RegisterPk and RegisterPk itself, though late datagrams of its earlier
\* address register that once more and use up the rate.
BackOnline == Settles /\ <>[]~(LockedOut \/ Misled) => []<>Online
=============================================================================
