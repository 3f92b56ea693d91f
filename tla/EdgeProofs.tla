----------------------------- MODULE EdgeProofs -----------------------------
(***************************************************************************)
(* What holds at the edges of the two servers, for any number of servers,  *)
(* keys, addresses, files and places in a channel:                         *)
(*                                                                         *)
(*   KeyFile, where they get their key from: types, that a private key is  *)
(*   for good, and that servers serve with the key that is published;      *)
(*                                                                         *)
(*   DeviceHeartbeat, who they serve: types, that memory says what the     *)
(*   table says, what ends being online, locked out or misled, what each   *)
(*   datagram does for being online, and that it implements IdentityStore; *)
(*                                                                         *)
(*   UiChannels, what shows their logs: that no choice and no change is    *)
(*   lost on its way, and that a jam is for ever.                          *)
(***************************************************************************)
EXTENDS KeyFile, DeviceHeartbeat, UiChannels, SequenceTheorems, TLAPS

-----------------------------------------------------------------------------
(* The key files.  The argument is what a server that generates alone knows  *)
(* of the files at each of its four system calls.                            *)

\* A private key that was opened is there to be read.
Opened == \A s \in Server : pc[s] = "read" => sk # Absent

KeyTypes == KeyTypeOK /\ Opened

\* One server generates, and from an absent private key on.
Alone ==
  raced \/
    \A s \in Server :
      /\ \A t \in Server \ {s} : ~(pc[s] \in Generating /\ pc[t] \in Generating)
      /\ pc[s] \in {"create_pub", "write_pub", "create_sk"} => sk = Absent
      /\ pc[s] = "write_sk" => sk = Empty

\* The script runs while no server does.
Rested == script \in {"none", "done"}
ScriptFirst == Rested \/ \A s \in Server : pc[s] = "down"

\* The public key is written first, and belongs to a private key that is there.
PubFirst ==
  raced \/ failed \/
    /\ Rested /\ sk \in Key => pub = sk
    /\ \A s \in Server : pc[s] \in {"create_sk", "write_sk"} => pub = mine[s]

KeyInv == KeyTypes /\ Alone /\ ScriptFirst
PairInv == KeyInv /\ PubFirst /\ ServedAsPublished

-----------------------------------------------------------------------------
\* Types; a server serves with what it has read.
LEMMA KeyTypesCorrect == KeySpec => []KeyTypes
<1>. USE KeyAssumption DEF KeyTypes, KeyTypeOK, Opened, Content, Pc, Script, Generating
<1>1. KeyInit => KeyTypes
  BY DEF KeyInit
<1>2. KeyTypes /\ [KeyNext]_keyVars => KeyTypes'
  <2>. SUFFICES ASSUME KeyTypes, [KeyNext]_keyVars PROVE KeyTypes'
    OBVIOUS
  <2>1. CASE UpReal
    BY <2>1 DEF UpReal, PutPub, PutSk, Verdict
  <2>2. CASE RestartContainer
    BY <2>2 DEF RestartContainer
  <2>3. ASSUME NEW s \in Server, Start(s) \/ Crash(s) \/ NoFile(s) PROVE KeyTypes'
    BY <2>3 DEF Start, Crash, NoFile, Goto, Holds
  <2>4. ASSUME NEW s \in Server, Open(s) PROVE KeyTypes'
    BY <2>4 DEF Open, Generate, Fresh, Goto, Holds
  <2>5. ASSUME NEW s \in Server, Read(s) PROVE KeyTypes'
    BY <2>5 DEF Read, Goto, Holds
  <2>6. ASSUME NEW s \in Server, CreatePub(s) \/ WritePub(s) PROVE KeyTypes'
    BY <2>6 DEF CreatePub, WritePub, Goto
  <2>7. ASSUME NEW s \in Server, CreateSk(s) \/ WriteSk(s) PROVE KeyTypes'
    BY <2>7 DEF CreateSk, WriteSk, Goto
  <2>8. CASE UNCHANGED keyVars
    BY <2>8 DEF keyVars
  <2>. QED BY <2>1, <2>2, <2>3, <2>4, <2>5, <2>6, <2>7, <2>8 DEF KeyNext, GenSk
<1>. QED BY <1>1, <1>2, PTL DEF KeySpec

\* Types of the files, the servers and the script; a server that writes files
\* has a key to write.
THEOREM KeyTypeCorrect == KeySpec => []KeyTypeOK
BY KeyTypesCorrect, PTL DEF KeyTypes

-----------------------------------------------------------------------------
\* Servers run when the script has ended, and generate one at a time or have
\* raced.
LEMMA KeyInvCorrect == KeySpec => []KeyInv
<1>1. KeyInit => Alone /\ ScriptFirst
  BY DEF KeyInit, Alone, ScriptFirst, Generating
<1>2. KeyTypes /\ Alone /\ ScriptFirst /\ [KeyNext]_keyVars => Alone' /\ ScriptFirst'
  <2>. SUFFICES ASSUME KeyTypes, Alone, ScriptFirst, [KeyNext]_keyVars
                PROVE  Alone' /\ ScriptFirst'
    OBVIOUS
  <2>. USE KeyAssumption DEF KeyTypes, KeyTypeOK, Alone, ScriptFirst, Rested, Generating, Pc
  <2>1. CASE UpReal
    BY <2>1 DEF UpReal, PutPub, PutSk, Verdict, Script
  <2>2. CASE RestartContainer
    BY <2>2 DEF RestartContainer
  <2>3. ASSUME NEW s \in Server, Start(s) \/ Crash(s) \/ NoFile(s)
        PROVE  Alone' /\ ScriptFirst'
    BY <2>3 DEF Start, Crash, NoFile, Goto, Holds
  <2>4. ASSUME NEW s \in Server, Open(s) PROVE Alone' /\ ScriptFirst'
    BY <2>4 DEF Open, Generate, Goto
  <2>5. ASSUME NEW s \in Server, Read(s) PROVE Alone' /\ ScriptFirst'
    BY <2>5 DEF Read, Goto
  <2>6. ASSUME NEW s \in Server, CreatePub(s) \/ WritePub(s)
        PROVE  Alone' /\ ScriptFirst'
    BY <2>6 DEF CreatePub, WritePub, Goto
  <2>7. ASSUME NEW s \in Server, CreateSk(s) \/ WriteSk(s)
        PROVE  Alone' /\ ScriptFirst'
    BY <2>7 DEF CreateSk, WriteSk, Goto
  <2>8. CASE UNCHANGED keyVars
    BY <2>8 DEF keyVars
  <2>. QED BY <2>1, <2>2, <2>3, <2>4, <2>5, <2>6, <2>7, <2>8 DEF KeyNext, GenSk
<1>. QED BY <1>1, <1>2, KeyTypesCorrect, PTL DEF KeySpec, KeyInv

\* No start of a server or of the container replaces a private key that is
\* there, except where two servers generated at once.
THEOREM KeyIsForGoodCorrect == KeySpec => KeyIsForGood
<1>1. KeyInv /\ [KeyNext]_keyVars => [~raced /\ sk \in Key => UNCHANGED sk]_keyVars
  <2>. SUFFICES ASSUME KeyInv, KeyNext, ~raced, sk \in Key PROVE sk' = sk
    OBVIOUS
  <2>. USE KeyAssumption
  <2>1. CASE UpReal
    BY <2>1 DEF UpReal, PutPub, PutSk, Verdict
  <2>2. CASE RestartContainer
    BY <2>2 DEF RestartContainer
  <2>3. ASSUME NEW s \in Server, Start(s) \/ Crash(s) \/ NoFile(s) PROVE sk' = sk
    BY <2>3 DEF Start, Crash, NoFile
  <2>4. ASSUME NEW s \in Server, GenSk(s) PROVE sk' = sk
    BY <2>4 DEF GenSk, Open, Generate, Read, CreatePub, WritePub, CreateSk, WriteSk,
                KeyInv, Alone
  <2>. QED BY <2>1, <2>2, <2>3, <2>4 DEF KeyNext
<1>. QED BY <1>1, KeyInvCorrect, PTL DEF KeySpec, KeyIsForGood

-----------------------------------------------------------------------------
\* A step of a server that generates, while PairInv holds.
LEMMA GenerateStep ==
  ASSUME PairInv, NEW s \in Server,
         CreatePub(s) \/ WritePub(s) \/ CreateSk(s) \/ WriteSk(s)
  PROVE  PubFirst' /\ ServedAsPublished'
<1>. USE KeyAssumption DEF PairInv, KeyInv, KeyTypes, KeyTypeOK, Alone, PubFirst,
         ServedAsPublished, ValidPair, Rested, Goto, Generating, Pc
<1>1. CASE CreatePub(s)
  BY <1>1 DEF CreatePub
<1>2. CASE WritePub(s)
  BY <1>2 DEF WritePub
<1>3. CASE CreateSk(s)
  BY <1>3 DEF CreateSk
<1>4. CASE WriteSk(s)
  BY <1>4 DEF WriteSk
<1>. QED BY <1>1, <1>2, <1>3, <1>4

\* Who serves does so with the key of the two files, unless two servers
\* generated at once or a file failed, whatever dies in between.
THEOREM ServedCorrect == KeySpec => []ServedAsPublished
<1>1. KeyInit => PubFirst /\ ServedAsPublished
  BY KeyAssumption DEF KeyInit, PubFirst, ServedAsPublished
<1>2. PairInv /\ [KeyNext]_keyVars => PubFirst' /\ ServedAsPublished'
  <2>. SUFFICES ASSUME PairInv, [KeyNext]_keyVars PROVE PubFirst' /\ ServedAsPublished'
    OBVIOUS
  <2>0. ASSUME NEW s \in Server,
               CreatePub(s) \/ WritePub(s) \/ CreateSk(s) \/ WriteSk(s)
        PROVE  PubFirst' /\ ServedAsPublished'
    BY <2>0, GenerateStep
  <2>. USE KeyAssumption DEF PairInv, KeyInv, KeyTypes, KeyTypeOK, Alone, ScriptFirst,
           PubFirst, ServedAsPublished, ValidPair, Rested, Generating, Pc
  <2>1. CASE UpReal
    BY <2>1 DEF UpReal, PutPub, PutSk, Verdict, Script
  <2>2. CASE RestartContainer
    BY <2>2 DEF RestartContainer
  <2>3. ASSUME NEW s \in Server, Start(s) \/ Crash(s) \/ NoFile(s)
        PROVE  PubFirst' /\ ServedAsPublished'
    BY <2>3 DEF Start, Crash, NoFile, Goto, Holds
  <2>4. ASSUME NEW s \in Server, Open(s) PROVE PubFirst' /\ ServedAsPublished'
    BY <2>4 DEF Open, Generate, Goto, Holds
  <2>5. ASSUME NEW s \in Server, Read(s) PROVE PubFirst' /\ ServedAsPublished'
    BY <2>5 DEF Read, Goto, Holds, Opened, Content
  <2>6. CASE UNCHANGED keyVars
    BY <2>6 DEF keyVars
  <2>. QED BY <2>0, <2>1, <2>2, <2>3, <2>4, <2>5, <2>6 DEF KeyNext, GenSk
<1>. QED BY <1>1, <1>2, KeyInvCorrect, PTL DEF KeySpec, PairInv

-----------------------------------------------------------------------------
(* The device that is to be found. *)

\* A record in memory says what the row of the id says; without a row it is blank
\* but for address and time.
MemoryIsRow ==
  mem # NoMem =>
    IF row = NoRow
    THEN mem.guid = NoGuid /\ mem.uuid = NoUuid /\ mem.pk = NoPk /\ mem.ip = NoIp
    ELSE mem.guid = row.guid /\ mem.uuid = row.uuid /\ mem.pk = row.pk /\ mem.ip = row.ip

\* Addresses in memory are those messages came from.
Ports == mem # NoMem => mem.addr \in {At(ip) : ip \in Ip} \cup {NoAddr}

DeviceInv == TypeOK /\ MemoryIsRow /\ Ports

\* Addresses, and the sentinels.
LEMMA Addresses ==
  /\ \A ip \in Ip : At(ip) \in Addr /\ At(ip) # NoAddr /\ At(ip).ip = ip /\ At(ip).port = 1
  /\ NoMem \notin Peer /\ NoRow \notin Row
  /\ NoUuid \notin Uuid /\ NoPk \notin Pk /\ NoIp \notin Ip /\ Loopback \subseteq Ip
  /\ TheUuid \in Uuid /\ TheGuid \in Guid
BY RecordAssumption, HeartbeatAssumption DEF NoAddr, Addr, At

\* A record made of nothing, or of a row.
LEMMA MadeRecords ==
  /\ DefaultPeer \in Peer
  /\ DefaultPeer.addr = NoAddr /\ DefaultPeer.guid = NoGuid /\ DefaultPeer.uuid = NoUuid
  /\ DefaultPeer.pk = NoPk /\ DefaultPeer.ip = NoIp
  /\ \A r \in Row : /\ FromRow(r) \in Peer
                    /\ FromRow(r).addr = NoAddr /\ FromRow(r).guid = r.guid
                    /\ FromRow(r).uuid = r.uuid /\ FromRow(r).pk = r.pk /\ FromRow(r).ip = r.ip
<1>1. DefaultPeer \in Peer
  BY RecordAssumption DEF DefaultPeer, Peer, NoAddr, Rate
<1>2. ASSUME NEW r \in Row PROVE FromRow(r) \in Peer
  BY <1>1 DEF FromRow, Peer, Row, DefaultPeer
<1>3. ASSUME NEW r \in Row
      PROVE  /\ FromRow(r).addr = NoAddr /\ FromRow(r).guid = r.guid
             /\ FromRow(r).uuid = r.uuid /\ FromRow(r).pk = r.pk /\ FromRow(r).ip = r.ip
  BY DEF FromRow, DefaultPeer
<1>. QED BY <1>1, <1>2, <1>3 DEF DefaultPeer

\* A heartbeat leaves the record as it is, or changes address and time.
LEMMA Refreshed ==
  ASSUME NEW p \in Peer, NEW a \in Addr
  PROVE  /\ UpdateAddr(p, a) \in Peer
         /\ \/ RequestPk(p, a) /\ UpdateAddr(p, a) = p
            \/ /\ ~RequestPk(p, a) /\ UpdateAddr(p, a).addr = a /\ UpdateAddr(p, a).fresh
               /\ UpdateAddr(p, a).guid = p.guid /\ UpdateAddr(p, a).uuid = p.uuid
               /\ UpdateAddr(p, a).pk = p.pk /\ UpdateAddr(p, a).ip = p.ip
BY DEF UpdateAddr, Peer

\* What a registration makes of a record when nothing has changed.
LEMMA Counted ==
  ASSUME NEW p \in Peer, NEW q, q = [p EXCEPT !.rate = @ + 1], p.rate + 1 \in Rate
  PROVE  /\ q \in Peer
         /\ q.addr = p.addr /\ q.fresh = p.fresh /\ q.guid = p.guid
         /\ q.uuid = p.uuid /\ q.pk = p.pk /\ q.ip = p.ip
BY DEF Peer

\* What a registration makes of a record when something has.
LEMMA Recorded ==
  ASSUME NEW p \in Peer, NEW m \in PkMsg, NEW q, p.rate + 1 \in Rate,
         q = [UpdatePk(p, m) EXCEPT !.rate = p.rate + 1, !.guid = TheGuid]
  PROVE  /\ q \in Peer
         /\ q.addr = m.addr /\ q.fresh = TRUE /\ q.guid = TheGuid
         /\ q.uuid = m.uuid /\ q.pk = m.pk /\ q.ip = m.addr.ip
<1>1. m.addr \in Addr /\ m.uuid \in Uuid /\ m.pk \in Pk /\ m.addr.ip \in Ip /\ TheGuid \in Guid
  BY Addresses DEF PkMsg
<1>. QED BY <1>1 DEF Peer, UpdatePk

\* What a registration does to the record it is about, and to the row.
LEMMA Registered ==
  ASSUME DeviceInv, NEW m \in pks, HandlePk(m)
  PROVE  /\ Known \in Peer /\ m \in PkMsg
         /\ mem' \in Peer
         /\ UNCHANGED <<device, beats, asked>> /\ pks' = pks \ {m}
         /\ \/ mem' = Known /\ row' = row
            \/ /\ ~UuidMismatch(Known, m) /\ ~Changed(Known, m) /\ row' = row
               /\ mem'.addr = Known.addr /\ mem'.fresh = Known.fresh /\ mem'.guid = Known.guid
               /\ mem'.uuid = Known.uuid /\ mem'.pk = Known.pk /\ mem'.ip = Known.ip
            \/ /\ ~UuidMismatch(Known, m) /\ Changed(Known, m) /\ row' = Stored(m)
               /\ mem'.addr = m.addr /\ mem'.fresh = TRUE /\ mem'.guid = TheGuid
               /\ mem'.uuid = m.uuid /\ mem'.pk = m.pk /\ mem'.ip = m.addr.ip
<1>1. m \in PkMsg /\ UNCHANGED <<device, beats, asked>> /\ pks' = pks \ {m}
  BY DEF DeviceInv, TypeOK, HandlePk
<1>2. Known \in Peer
  BY MadeRecords DEF DeviceInv, TypeOK, Known
<1>3. ~TooFrequent(Known.rate) => Known.rate + 1 \in Rate
  BY <1>2, RecordAssumption DEF TooFrequent, Peer, Rate
<1>4. CASE mem' = Known /\ row' = row
  BY <1>1, <1>2, <1>4
<1>5. CASE /\ ~UuidMismatch(Known, m) /\ ~TooFrequent(Known.rate)
           /\ Accept(Known, m)
  <2>1. CASE Changed(Known, m)
    <3>1. /\ mem' = [UpdatePk(Known, m) EXCEPT !.rate = Known.rate + 1, !.guid = TheGuid]
          /\ row' = Stored(m)
      BY <1>5, <2>1 DEF Accept
    <3>2. /\ mem' \in Peer
          /\ mem'.addr = m.addr /\ mem'.fresh = TRUE /\ mem'.guid = TheGuid
          /\ mem'.uuid = m.uuid /\ mem'.pk = m.pk /\ mem'.ip = m.addr.ip
      BY <1>1, <1>2, <1>3, <1>5, <3>1, Recorded
    <3>. QED BY <1>1, <1>2, <1>5, <2>1, <3>1, <3>2
  <2>2. CASE ~Changed(Known, m)
    <3>1. mem' = [Known EXCEPT !.rate = @ + 1] /\ row' = row
      BY <1>5, <2>2 DEF Accept
    <3>2. /\ mem' \in Peer
          /\ mem'.addr = Known.addr /\ mem'.fresh = Known.fresh /\ mem'.guid = Known.guid
          /\ mem'.uuid = Known.uuid /\ mem'.pk = Known.pk /\ mem'.ip = Known.ip
      BY <1>2, <1>3, <1>5, <3>1, Counted
    <3>. QED BY <1>1, <1>2, <1>5, <2>2, <3>1, <3>2
  <2>. QED BY <2>1, <2>2
<1>. QED BY <1>4, <1>5 DEF HandlePk

\* Types of the records and of what is on its way.
LEMMA DeviceTypes == Spec => []DeviceInv
<1>1. Init => DeviceInv
  BY Addresses DEF Init, DeviceInv, TypeOK, MemoryIsRow, Ports
<1>2. DeviceInv /\ [Next]_vars => DeviceInv'
  <2>. SUFFICES ASSUME DeviceInv, [Next]_vars PROVE DeviceInv'
    OBVIOUS
  <2>1. CASE SendBeat
    BY <2>1 DEF SendBeat, serverVars, DeviceInv, TypeOK, MemoryIsRow, Ports, Device
  <2>2. CASE SendPk \/ HearAsk
    <3>1. [addr |-> At(device.ip), uuid |-> TheUuid, pk |-> device.pk] \in PkMsg
      BY DEF DeviceInv, TypeOK, Device, PkMsg
    <3>2. pks' \subseteq PkMsg /\ UNCHANGED <<mem, row, device, beats>> /\ asked' \in BOOLEAN
      BY <2>2, <3>1 DEF SendPk, HearAsk, Register, serverVars, DeviceInv, TypeOK
    <3>. QED BY <3>2 DEF DeviceInv, TypeOK, MemoryIsRow, Ports
  <2>3. ASSUME NEW m \in beats, HandleBeat(m) PROVE DeviceInv'
    <3>1. /\ m \in Ip /\ At(m) \in Addr /\ beats' \subseteq Ip /\ asked' \in BOOLEAN
          /\ UNCHANGED <<row, device, pks>>
      BY <2>3, Addresses DEF HandleBeat, Ask, RequestPk, DeviceInv, TypeOK
    <3>2. CASE mem' = mem
      BY <3>1, <3>2 DEF DeviceInv, TypeOK, MemoryIsRow, Ports
    <3>3. CASE mem # NoMem /\ mem' = UpdateAddr(mem, At(m))
      <4>1. mem \in Peer
        BY <3>3 DEF DeviceInv, TypeOK
      <4>2. mem' \in Peer /\ mem' # NoMem
        BY <3>1, <3>3, <4>1, Refreshed, Addresses
      <4>3. MemoryIsRow' /\ Ports'
        BY <3>1, <3>3, <4>1, Refreshed DEF DeviceInv, MemoryIsRow, Ports
      <4>. QED BY <3>1, <4>2, <4>3 DEF DeviceInv, TypeOK
    <3>. QED BY <2>3, <3>2, <3>3 DEF HandleBeat, Refresh
  <2>4. ASSUME NEW m \in pks, HandlePk(m) PROVE DeviceInv'
    <3>1. /\ Known \in Peer /\ m \in PkMsg /\ mem' \in Peer /\ mem' # NoMem
          /\ UNCHANGED <<device, beats, asked>> /\ pks' = pks \ {m}
      BY <2>4, Registered, Addresses
    <3>2. /\ Known.addr \in {At(ip) : ip \in Ip} \cup {NoAddr}
          /\ IF row = NoRow
             THEN /\ Known.guid = NoGuid /\ Known.uuid = NoUuid
                  /\ Known.pk = NoPk /\ Known.ip = NoIp
             ELSE /\ Known.guid = row.guid /\ Known.uuid = row.uuid
                  /\ Known.pk = row.pk /\ Known.ip = row.ip
      BY MadeRecords DEF Known, DeviceInv, TypeOK, MemoryIsRow, Ports
    <3>3. m.addr \in {At(ip) : ip \in Ip} /\ m.addr.ip \in Ip /\ m.pk \in Pk /\ m.uuid \in Uuid
      BY <3>1, Addresses DEF PkMsg
    <3>4. Ports'
      BY <2>4, <3>2, <3>3, Registered DEF Ports
    <3>5. CASE /\ row' = row
               /\ mem'.guid = Known.guid /\ mem'.uuid = Known.uuid
               /\ mem'.pk = Known.pk /\ mem'.ip = Known.ip
      BY <3>1, <3>2, <3>4, <3>5 DEF DeviceInv, TypeOK, MemoryIsRow
    <3>6. CASE /\ ~UuidMismatch(Known, m) /\ row' = Stored(m)
               /\ mem'.guid = TheGuid /\ mem'.uuid = m.uuid
               /\ mem'.pk = m.pk /\ mem'.ip = m.addr.ip
      <4>1. row' \in Row /\ row' # NoRow
        BY <3>3, <3>6, Addresses DEF Stored, Row, DeviceInv, TypeOK
      <4>2. row'.uuid = m.uuid
        BY <3>2, <3>6, Addresses DEF Stored, UuidMismatch, DeviceInv, TypeOK, Row
      <4>3. MemoryIsRow'
        BY <3>6, <4>1, <4>2 DEF MemoryIsRow, Stored
      <4>. QED BY <3>1, <3>4, <4>1, <4>3 DEF DeviceInv, TypeOK
    <3>. QED BY <2>4, <3>5, <3>6, Registered
  <2>5. CASE RegExpires \/ RateExpires
    <3>1. mem \in Peer /\ 0 \in Rate /\ UNCHANGED <<row, device, netVars>>
      BY <2>5, RecordAssumption DEF RegExpires, RateExpires, DeviceInv, TypeOK, Rate
    <3>2. /\ mem' \in Peer /\ mem'.addr = mem.addr /\ mem'.guid = mem.guid
          /\ mem'.uuid = mem.uuid /\ mem'.pk = mem.pk /\ mem'.ip = mem.ip
      BY <2>5, <3>1 DEF RegExpires, RateExpires, Peer
    <3>. QED BY <3>1, <3>2, Addresses DEF netVars, DeviceInv, TypeOK, MemoryIsRow, Ports
  <2>6. CASE Lose \/ Disturbance
    BY <2>6 DEF Lose, Disturbance, Move, NewKey, Restart, serverVars, netVars,
       DeviceInv, TypeOK, MemoryIsRow, Ports, Device
  <2>7. CASE UNCHANGED vars
    BY <2>7 DEF vars, DeviceInv, TypeOK, MemoryIsRow, Ports
  <2>. QED BY <2>1, <2>2, <2>3, <2>4, <2>5, <2>6, <2>7 DEF Next
<1>. QED BY <1>1, <1>2, PTL DEF Spec

\* Types of the record, the row, the device and the datagrams; registrations are
\* counted up to the limit and no further.
THEOREM DeviceTypeCorrect == Spec => []TypeOK
BY DeviceTypes, PTL DEF DeviceInv

\* Memory never tells another story about an id than its row, whatever is lost,
\* late, refused or started again.
THEOREM MemoryIsRowCorrect == Spec => []MemoryIsRow
BY DeviceTypes, PTL DEF DeviceInv

-----------------------------------------------------------------------------
\* A registration that is not late, of a device that is known: refused if it is
\* locked out, without effect on the address if it is misled, and it does not
\* take it offline.
LEMMA CurrentRegistration ==
  ASSUME DeviceInv, NEW m \in pks, HandlePk(m), m.addr = At(device.ip), m.pk = device.pk
  PROVE  (LockedOut => LockedOut') /\ (Misled => Misled') /\ (Online => Online')
<1>1. /\ Known \in Peer /\ m \in PkMsg /\ device' = device /\ m.addr.ip = device.ip
      /\ device.ip \in Ip /\ device.pk \in Pk /\ mem' # NoMem
  BY Registered, Addresses DEF DeviceInv, TypeOK, Device
<1>2. row # NoRow => /\ row \in Row /\ Known.uuid = row.uuid /\ Known.uuid # NoUuid
                     /\ Known.pk = row.pk /\ Known.ip = row.ip
  BY MadeRecords, Addresses DEF Known, DeviceInv, TypeOK, MemoryIsRow, Row
<1>3. mem # NoMem => Known = mem
  BY DEF Known
<1>4. LockedOut => LockedOut'
  <2>. SUFFICES ASSUME LockedOut PROVE LockedOut'
    OBVIOUS
  <2>1. UuidMismatch(Known, m)
    BY <1>1, <1>2 DEF LockedOut, UuidMismatch
  <2>2. row' = row
    BY <2>1, Registered
  <2>. QED BY <1>1, <2>2 DEF LockedOut
<1>5. Misled => Misled'
  <2>. SUFFICES ASSUME Misled PROVE Misled'
    OBVIOUS
  <2>1. Known = mem /\ row # NoRow
    BY <1>1, <1>3, Addresses DEF Misled, DeviceInv, MemoryIsRow
  <2>2. ~Changed(Known, m)
    BY <1>1, <1>2, <2>1 DEF Misled, Changed
  <2>3. mem'.addr = mem.addr /\ mem'.ip = mem.ip /\ mem'.pk = mem.pk
    BY <2>1, <2>2, Registered
  <2>. QED BY <1>1, <2>3 DEF Misled
<1>6. Online => Online'
  <2>. SUFFICES ASSUME Online PROVE Online'
    OBVIOUS
  <2>1. Known = mem
    BY <1>3 DEF Online
  <2>2. /\ mem'.addr = mem.addr \/ mem'.addr = m.addr
        /\ mem'.fresh = mem.fresh \/ mem'.fresh = TRUE
    BY <2>1, Registered
  <2>. QED BY <1>1, <2>2 DEF Online
<1>. QED BY <1>4, <1>5, <1>6

\* A heartbeat from elsewhere than the loopback leaves who is online or misled
\* so: the server asks for a registration and keeps the address.
LEMMA BeatFromOutside ==
  ASSUME DeviceInv, NEW m \in beats, HandleBeat(m)
  PROVE  /\ LockedOut => LockedOut'
         /\ Misled => Misled'
         /\ m \notin Loopback /\ Online => Online'
<1>1. /\ UNCHANGED <<row, device>> /\ m \in Ip /\ At(m) \in Addr
      /\ At(m).ip = m /\ device.ip \in Ip /\ device.pk \in Pk
      /\ mem # NoMem => mem \in Peer /\ mem' = UpdateAddr(mem, At(m))
  BY Addresses DEF HandleBeat, Refresh, DeviceInv, TypeOK, Device
<1>2. LockedOut => LockedOut'
  BY <1>1 DEF LockedOut
<1>3. mem # NoMem => mem' \in Peer /\ mem' # NoMem
  BY <1>1, Refreshed, Addresses
<1>4. mem # NoMem /\ mem.addr.ip \in Ip => mem.addr.port # 0
  BY Addresses DEF DeviceInv, Ports, NoAddr
<1>5. Misled => Misled'
  <2>. SUFFICES ASSUME Misled PROVE Misled'
    OBVIOUS
  <2>1. mem # NoMem /\ mem.addr.ip \in Loopback /\ mem.addr.port # 0
    BY <1>4, Addresses DEF Misled
  <2>2. m \in Loopback \/ RequestPk(mem, At(m))
    BY <1>1, <2>1 DEF RequestPk, IpMoved
  <2>3. mem'.addr.ip \in Loopback /\ mem'.ip = mem.ip /\ mem'.pk = mem.pk
    BY <1>1, <2>1, <2>2, Refreshed
  <2>. QED BY <1>1, <1>3, <2>1, <2>3 DEF Misled
<1>6. m \notin Loopback /\ Online => Online'
  <2>. SUFFICES ASSUME m \notin Loopback, Online PROVE Online'
    OBVIOUS
  <2>1. mem # NoMem /\ mem.addr.ip = device.ip /\ mem.addr.port # 0
    BY <1>1, <1>4 DEF Online
  <2>2. m = device.ip \/ RequestPk(mem, At(m))
    BY <1>1, <2>1 DEF RequestPk, IpMoved
  <2>3. mem'.addr.ip = device.ip /\ mem'.fresh = TRUE
    BY <1>1, <2>1, <2>2, Refreshed DEF Online, Peer
  <2>. QED BY <1>1, <1>3, <2>1, <2>3 DEF Online
<1>. QED BY <1>2, <1>5, <1>6

\* A device is online until it is not heard of in time, or a late registration or
\* a heartbeat through the loopback replaces its address; who is locked out or
\* misled is so for as long as the world stays as it is and no late registration
\* arrives.
THEOREM LastsCorrect == Spec => Lasts
<1>1. DeviceInv /\ [Next]_vars
      => [/\ Online /\ ~Online' => \/ Disturbance \/ RegExpires \/ Late
                                   \/ \E m \in beats \cap Loopback : HandleBeat(m)
          /\ LockedOut /\ ~LockedOut' => Disturbance \/ Late
          /\ Misled /\ ~Misled' => Disturbance \/ Late]_vars
  <2>. SUFFICES ASSUME DeviceInv, Next
                PROVE  /\ Online /\ ~Online' => \/ Disturbance \/ RegExpires \/ Late
                                                \/ \E m \in beats \cap Loopback : HandleBeat(m)
                       /\ LockedOut /\ ~LockedOut' => Disturbance \/ Late
                       /\ Misled /\ ~Misled' => Disturbance \/ Late
    OBVIOUS
  <2>1. CASE UNCHANGED <<mem, row, device>>
    BY <2>1 DEF Online, LockedOut, Misled
  <2>2. CASE SendBeat \/ SendPk \/ HearAsk \/ Lose
    BY <2>1, <2>2 DEF SendBeat, SendPk, HearAsk, Lose, serverVars
  <2>3. ASSUME NEW m \in beats, HandleBeat(m)
        PROVE  /\ LockedOut => LockedOut'
               /\ Misled => Misled'
               /\ Online /\ ~Online' => \E b \in beats \cap Loopback : HandleBeat(b)
    BY <2>3, BeatFromOutside
  <2>4. ASSUME NEW m \in pks, HandlePk(m)
        PROVE  Late \/ ((LockedOut => LockedOut') /\ (Misled => Misled') /\ (Online => Online'))
    BY <2>4, CurrentRegistration DEF Late
  <2>5. CASE RegExpires \/ RateExpires
    <3>1. /\ mem \in Peer /\ mem # NoMem /\ 0 \in Rate /\ UNCHANGED <<row, device>>
          /\ mem' = [mem EXCEPT !.fresh = FALSE] \/ mem' = [mem EXCEPT !.rate = 0]
      BY <2>5, RecordAssumption
         DEF RegExpires, RateExpires, netVars, DeviceInv, TypeOK, Rate
    <3>2. /\ mem' \in Peer /\ mem'.addr = mem.addr /\ mem'.pk = mem.pk /\ mem'.ip = mem.ip
          /\ mem' = [mem EXCEPT !.rate = 0] => mem'.fresh = mem.fresh
      BY <3>1 DEF Peer
    <3>3. (LockedOut => LockedOut') /\ (Misled => Misled')
      BY <3>1, <3>2, Addresses DEF LockedOut, Misled
    <3>4. RateExpires => (Online => Online')
      BY <3>1, <3>2, Addresses DEF RateExpires, Online
    <3>. QED BY <2>5, <3>3, <3>4
  <2>6. CASE Disturbance
    BY <2>6
  <2>. QED BY <2>2, <2>3, <2>4, <2>5, <2>6 DEF Next
<1>. QED BY <1>1, DeviceTypes, PTL DEF Spec, Lasts

-----------------------------------------------------------------------------
(* What BackOnline rests on: each datagram of the round from a heartbeat to  *)
(* being online does its part, and no other undoes it.                       *)

\* Memory knows the device as it is now.
Agreed == mem # NoMem /\ mem.pk = device.pk /\ mem.ip = device.ip

\* A registration that is not late and not too frequent makes server and device
\* agree, unless the device is locked out; nothing but a late one undoes that
\* while the world is as it is; and a heartbeat brings a device online that they
\* agree on, unless it is misled, and a request to register to any other.
RoundHelps ==
  [][/\ \A m \in pks :
          m.addr = At(device.ip) /\ m.pk = device.pk /\ HandlePk(m) /\ ~LockedOut
            => Agreed' \/ TooFrequent(Known.rate)
     /\ Agreed /\ ~Agreed' => Disturbance \/ Late
     /\ \A m \in beats :
          m = device.ip /\ HandleBeat(m) => Online' \/ (asked' /\ ~Agreed) \/ Misled]_vars

\* The address is one the device registered or a loopback address; the row has
\* the machine of the device.
OwnAddress ==
  mem # NoMem => \/ mem.addr = NoAddr \/ mem.addr.ip \in Loopback
                 \/ mem.addr.ip = mem.ip
OwnRow == row # NoRow => row.uuid = TheUuid

\* Heartbeats and registrations keep the address and the row the device's own.
LEMMA OwnStep ==
  ASSUME DeviceInv, OwnAddress, OwnRow, [Next]_vars
  PROVE  OwnAddress' /\ OwnRow'
<1>1. CASE UNCHANGED <<mem, row>>
  BY <1>1 DEF OwnAddress, OwnRow
<1>2. CASE SendBeat \/ SendPk \/ HearAsk \/ Lose \/ UNCHANGED vars
  BY <1>1, <1>2 DEF SendBeat, SendPk, HearAsk, Lose, serverVars, vars
<1>3. ASSUME NEW m \in beats, HandleBeat(m) PROVE OwnAddress' /\ OwnRow'
  <2>1. /\ m \in Ip /\ At(m) \in Addr /\ At(m).ip = m /\ row' = row
        /\ mem' = IF mem = NoMem THEN mem ELSE UpdateAddr(mem, At(m))
    BY <1>3, Addresses DEF HandleBeat, Refresh, DeviceInv, TypeOK
  <2>2. CASE mem = NoMem
    BY <1>1, <2>1, <2>2
  <2>3. CASE mem # NoMem /\ RequestPk(mem, At(m))
    BY <1>1, <2>1, <2>3 DEF UpdateAddr
  <2>4. CASE mem # NoMem /\ ~RequestPk(mem, At(m))
    <3>1. mem'.addr = At(m) /\ mem'.ip = mem.ip
      BY <2>1, <2>4, Refreshed DEF DeviceInv, TypeOK
    <3>2. m \in Loopback \/ m = mem.ip
      BY <2>1, <2>4 DEF RequestPk, IpMoved, OwnAddress, NoAddr
    <3>. QED BY <2>1, <3>1, <3>2 DEF OwnAddress, OwnRow
  <2>. QED BY <2>2, <2>3, <2>4
<1>4. ASSUME NEW m \in pks, HandlePk(m) PROVE OwnAddress' /\ OwnRow'
  <2>1. m \in PkMsg /\ m.uuid = TheUuid
    BY <1>4, Registered DEF PkMsg
  <2>2. Known.addr = NoAddr \/ Known.addr.ip \in Loopback \/ Known.addr.ip = Known.ip
    BY MadeRecords DEF Known, OwnAddress, DeviceInv, TypeOK
  <2>3. OwnAddress'
    BY <1>4, <2>2, Registered DEF OwnAddress
  <2>4. Stored(m).uuid = TheUuid
    BY <2>1 DEF Stored, OwnRow
  <2>. QED BY <1>4, <2>3, <2>4, Registered DEF OwnRow
<1>5. CASE RegExpires \/ RateExpires
  <2>1. mem \in Peer /\ mem # NoMem /\ row' = row
    BY <1>5 DEF RegExpires, RateExpires, DeviceInv, TypeOK
  <2>2. mem'.addr = mem.addr /\ mem'.ip = mem.ip
    BY <1>5, <2>1 DEF RegExpires, RateExpires, Peer
  <2>. QED BY <2>1, <2>2 DEF OwnAddress, OwnRow
<1>6. CASE Disturbance
  BY <1>6 DEF Disturbance, Move, NewKey, Restart, serverVars, OwnAddress, OwnRow
<1>. QED BY <1>2, <1>3, <1>4, <1>5, <1>6 DEF Next

\* The address and the row are the device's own.
LEMMA OwnCorrect == Spec => [](OwnAddress /\ OwnRow)
<1>1. Init => OwnAddress /\ OwnRow
  BY DEF Init, OwnAddress, OwnRow
<1>. QED BY <1>1, OwnStep, DeviceTypes, PTL DEF Spec

\* A registration that is not late.
LEMMA RegistrationHelps ==
  ASSUME DeviceInv, OwnRow, NEW m \in pks, HandlePk(m),
         m.addr = At(device.ip), m.pk = device.pk
  PROVE  /\ ~LockedOut => Agreed' \/ TooFrequent(Known.rate)
         /\ Agreed => Agreed'
<1>1. /\ Known \in Peer /\ m.uuid = TheUuid /\ device' = device /\ m.addr.ip = device.ip
      /\ device.pk # NoPk /\ mem' # NoMem
  BY Registered, Addresses DEF DeviceInv, TypeOK, Device, PkMsg
<1>2. /\ row = NoRow => Known.uuid = NoUuid
      /\ row # NoRow => Known.uuid = TheUuid /\ Known.pk = row.pk /\ Known.ip = row.ip
  BY MadeRecords DEF Known, DeviceInv, TypeOK, MemoryIsRow, OwnRow
<1>3. ASSUME ~UuidMismatch(Known, m), ~TooFrequent(Known.rate) PROVE Agreed'
  <2>1. CASE Changed(Known, m)
    <3>1. mem'.pk = m.pk /\ mem'.ip = m.addr.ip
      <4>1. mem' = [UpdatePk(Known, m) EXCEPT !.rate = Known.rate + 1, !.guid = TheGuid]
        BY <1>3, <2>1 DEF HandlePk, Accept
      <4>. QED BY <1>1, <4>1 DEF UpdatePk, Peer
    <3>. QED BY <1>1, <3>1 DEF Agreed
  <2>2. CASE ~Changed(Known, m)
    BY <1>1, <2>2, Registered DEF Agreed, Changed
  <2>. QED BY <2>1, <2>2
<1>4. ~LockedOut => ~UuidMismatch(Known, m)
  BY <1>1, <1>2 DEF LockedOut, UuidMismatch
<1>5. Agreed => Agreed'
  <2>1. mem # NoMem => Known = mem
    BY DEF Known
  <2>. QED BY <1>1, <2>1, Registered DEF Agreed
<1>. QED BY <1>3, <1>4, <1>5

\* A heartbeat.
LEMMA BeatHelps ==
  ASSUME DeviceInv, OwnAddress, NEW m \in beats, HandleBeat(m)
  PROVE  /\ Agreed => Agreed'
         /\ m = device.ip => Online' \/ (asked' /\ ~Agreed) \/ Misled
<1>1. /\ device' = device /\ asked' = (asked \/ Ask(m)) /\ m \in Ip /\ At(m) \in Addr
      /\ At(m).ip = m /\ device.pk # NoPk
      /\ mem # NoMem => mem \in Peer /\ mem' = UpdateAddr(mem, At(m))
  BY Addresses DEF HandleBeat, Refresh, DeviceInv, TypeOK, Device
<1>2. mem # NoMem => mem' \in Peer /\ mem' # NoMem /\ mem'.pk = mem.pk /\ mem'.ip = mem.ip
  BY <1>1, Refreshed, Addresses
<1>3. Agreed => Agreed'
  BY <1>1, <1>2 DEF Agreed
<1>4. ASSUME m = device.ip PROVE Online' \/ (asked' /\ ~Agreed) \/ Misled
  <2>1. CASE mem = NoMem
    BY <1>1, <2>1 DEF Ask, Agreed
  <2>2. CASE mem # NoMem /\ ~RequestPk(mem, At(m))
    BY <1>1, <1>2, <1>4, <2>2, Refreshed DEF Online
  <2>3. CASE mem # NoMem /\ RequestPk(mem, At(m))
    <3>1. asked'
      BY <1>1, <2>3 DEF Ask
    <3>2. Agreed => Misled
      BY <1>1, <1>4, <2>3 DEF Agreed, Misled, RequestPk, IpMoved, OwnAddress, NoAddr
    <3>. QED BY <3>1, <3>2
  <2>. QED BY <2>1, <2>2, <2>3
<1>. QED BY <1>3, <1>4

\* Each datagram of the round does its part, whatever other datagrams arrive in
\* between: what keeps a device offline for good is being locked out or misled.
THEOREM RoundHelpsCorrect == Spec => RoundHelps
<1>1. DeviceInv /\ OwnAddress /\ OwnRow /\ Next
      => /\ \A m \in pks :
              m.addr = At(device.ip) /\ m.pk = device.pk /\ HandlePk(m) /\ ~LockedOut
                => Agreed' \/ TooFrequent(Known.rate)
         /\ Agreed /\ ~Agreed' => Disturbance \/ Late
         /\ \A m \in beats :
              m = device.ip /\ HandleBeat(m)
                => Online' \/ (asked' /\ ~Agreed) \/ Misled
  <2>. SUFFICES ASSUME DeviceInv, OwnAddress, OwnRow, Next, Agreed
                PROVE  Agreed' \/ Disturbance \/ Late
    BY RegistrationHelps, BeatHelps
  <2>1. CASE SendBeat \/ SendPk \/ HearAsk \/ Lose
    BY <2>1 DEF SendBeat, SendPk, HearAsk, Lose, serverVars, Agreed
  <2>2. CASE \E m \in beats : HandleBeat(m)
    BY <2>2, BeatHelps
  <2>3. CASE \E m \in pks : HandlePk(m)
    BY <2>3, RegistrationHelps DEF Late
  <2>4. CASE RegExpires \/ RateExpires
    <3>1. mem \in Peer /\ 0 \in Rate /\ device' = device
      BY <2>4, RecordAssumption DEF RegExpires, RateExpires, netVars, DeviceInv, TypeOK, Rate
    <3>2. mem' \in Peer /\ mem'.pk = mem.pk /\ mem'.ip = mem.ip
      BY <2>4, <3>1 DEF RegExpires, RateExpires, Peer
    <3>. QED BY <3>1, <3>2, Addresses DEF Agreed
  <2>. QED BY <2>1, <2>2, <2>3, <2>4 DEF Next
<1>. QED BY <1>1, DeviceTypes, OwnCorrect, PTL DEF Spec, RoundHelps

-----------------------------------------------------------------------------
(* The row of the one device implements IdentityStore, which PeerRegistry    *)
(* implements for many ids, with the handlers taken apart.                   *)

DeviceStore ==
  INSTANCE IdentityStore WITH
    Id <- {TheGuid},
    owner <- [i \in {TheGuid} |-> IF row = NoRow THEN NoUuid ELSE row.uuid],
    key <- [i \in {TheGuid} |-> IF row = NoRow THEN NoPk ELSE row.pk]

\* A registration binds the id, gives its machine a new key, or changes neither.
LEMMA Rebound ==
  ASSUME DeviceInv, NEW m \in pks, HandlePk(m)
  PROVE  DeviceStore!Next \/ UNCHANGED DeviceStore!vars
<1>1. /\ Known \in Peer /\ m.uuid \in Uuid /\ m.pk \in Pk /\ m.addr.ip \in Ip
      /\ Stored(m) # NoRow
  <2>1. m \in PkMsg /\ Known \in Peer
    BY Registered
  <2>2. m.uuid \in Uuid /\ m.pk \in Pk /\ m.addr.ip \in Ip
    BY <2>1, Addresses DEF PkMsg
  <2>3. Stored(m) \in Row
    BY <2>2, HeartbeatAssumption DEF Stored, Row, DeviceInv, TypeOK
  <2>. QED BY <2>1, <2>2, <2>3, HeartbeatAssumption
<1>2. CASE row' = row
  BY <1>2 DEF DeviceStore!vars
<1>3. CASE row' = Stored(m)
  <2>. DEFINE i == TheGuid
              own == [j \in {i} |-> IF row = NoRow THEN NoUuid ELSE row.uuid]
              has == [j \in {i} |-> IF row = NoRow THEN NoPk ELSE row.pk]
  <2>1. /\ row'.uuid = IF row = NoRow THEN m.uuid ELSE row.uuid
        /\ row'.pk = m.pk /\ row' # NoRow
    BY <1>1, <1>3 DEF Stored
  <2>2. has' = [has EXCEPT ![i] = m.pk]
    BY <2>1
  <2>3. CASE row = NoRow
    <3>1. own[i] = NoUuid /\ own' = [own EXCEPT ![i] = m.uuid]
      BY <2>1, <2>3
    <3>2. DeviceStore!Bind(i, m.uuid, m.pk)
      BY <2>2, <3>1 DEF DeviceStore!Bind
    <3>. QED BY <1>1, <3>2 DEF DeviceStore!Next
  <2>4. CASE row # NoRow
    <3>1. own[i] # NoUuid /\ own' = own
      BY <2>1, <2>4, RecordAssumption DEF DeviceInv, TypeOK, Row
    <3>2. DeviceStore!Rekey(i, m.pk)
      BY <2>2, <3>1 DEF DeviceStore!Rekey
    <3>. QED BY <1>1, <3>2 DEF DeviceStore!Next
  <2>. QED BY <2>3, <2>4
<1>. QED BY <1>2, <1>3, Registered

\* The id belongs to the machine that registered it first, for good, through
\* restarts, moves and late datagrams; only its key is replaced.
THEOREM DeviceStoreCorrect == Spec => DeviceStore!Spec
<1>1. Init => DeviceStore!Init
  BY DEF Init, DeviceStore!Init
<1>2. DeviceInv /\ [Next]_vars => [DeviceStore!Next]_(DeviceStore!vars)
  <2>. SUFFICES ASSUME DeviceInv, [Next]_vars
                PROVE  DeviceStore!Next \/ UNCHANGED DeviceStore!vars
    OBVIOUS
  <2>1. ASSUME NEW m \in pks, HandlePk(m)
        PROVE  DeviceStore!Next \/ UNCHANGED DeviceStore!vars
    BY <2>1, Rebound
  <2>2. ASSUME ~\E m \in pks : HandlePk(m) PROVE row' = row
    BY <2>2 DEF Next, vars, SendBeat, SendPk, HearAsk, HandleBeat, RegExpires, RateExpires,
       Lose, Disturbance, Move, NewKey, Restart, serverVars, netVars
  <2>3. row' = row => UNCHANGED DeviceStore!vars
    BY DEF DeviceStore!vars
  <2>. QED BY <2>1, <2>2, <2>3
<1>. QED BY <1>1, <1>2, DeviceTypes, PTL DEF Spec, DeviceStore!Spec

-----------------------------------------------------------------------------
(* The desktop UI.  The argument follows a file the user has chosen: to the  *)
(* presenter (Chosen), and what the presenter has to the page (Shown).       *)

\* What the view and the watcher send, and what the presenter sends to the view.
ToPresenter == UserEvent \cup {Event("init", Nothing)} \cup [kind : {"change"}, arg : File]
ToView == [kind : {"file"}, arg : File] \cup {Event("state", Nothing), Event("exit", Nothing)}

\* Types of the channels and of the threads; who is in "send" has an event to
\* send, and no channel holds more than its capacity.
UiTypes ==
  /\ toPresenter \in Seq(ToPresenter) /\ toView \in Seq(ToView)
  /\ view \in [at : {"turn", "send", "gone"}, n : Nat, say : ToPresenter \cup {NoEvent}]
  /\ presenter \in [at : {"turn", "send"}, n : Nat, say : ToView \cup {NoEvent}, file : File]
  /\ view.at # "send" => view.say = NoEvent
  /\ view.at = "send" => view.say # NoEvent
  /\ presenter.at = "turn" <=> presenter.say = NoEvent
  /\ changed \in File \cup {Nothing} /\ choice \in File /\ read \in File \cup {Nothing}
  /\ Len(toPresenter) <= Buffer /\ Len(toView) <= Buffer

\* The last event of a kind in a channel.
LastIs(q, kind, arg) ==
  \E i \in 1..Len(q) : q[i] = Event(kind, arg) /\ \A j \in (i + 1)..Len(q) : q[j].kind # kind
Without(q, kind) == \A i \in 1..Len(q) : q[i].kind # kind

\* When all choices have arrived, the presenter has the one made last.
Chosen ==
  IF view.say.kind = "choose" THEN view.say.arg = choice
  ELSE \/ LastIs(toPresenter, "choose", choice)
       \/ Without(toPresenter, "choose") /\ presenter.file = choice

\* An event on which the presenter names its file to the view.
Names(e, f) == e.kind \in {"init", "choose"} \/ e = Event("change", f)
WillName(e) == Names(e, presenter.file)

Coming ==
  \/ changed = presenter.file \/ WillName(view.say)
  \/ \E i \in 1..Len(toPresenter) : WillName(toPresenter[i])

\* When all files named to the view have arrived, the page shows the one the
\* presenter has, as it is or with news of it coming.
Shown ==
  IF presenter.say.kind = "file" THEN presenter.say.arg = presenter.file
  ELSE \/ LastIs(toView, "file", presenter.file)
       \/ /\ Without(toView, "file")
          /\ read = presenter.file \/ (read = Nothing /\ Coming)

-----------------------------------------------------------------------------
\* Kinds and arguments of the events.
LEMMA Events ==
  /\ \A kind, arg : Event(kind, arg).kind = kind /\ Event(kind, arg).arg = arg
  /\ NoEvent.kind = "none" /\ NoEvent \notin ToPresenter /\ NoEvent \notin ToView
  /\ \A e \in ToPresenter : e = Event(e.kind, e.arg)
  /\ \A e \in ToPresenter : e.kind \in {"act", "exit", "choose", "init", "change"}
  /\ \A e \in ToPresenter : e.kind \in {"choose", "change"} => e.arg \in File
  /\ \A e \in ToView : e = Event(e.kind, e.arg) /\ e.kind \in {"file", "state", "exit"}
  /\ \A e \in ToView : e.kind = "file" => e.arg \in File
  /\ Nothing \notin File /\ Buffer \in Nat
BY UiAssumption DEF Event, NoEvent, ToPresenter, ToView, UserEvent

\* What is sent into a channel comes last.
LEMMA Sent ==
  ASSUME NEW S, NEW q \in Seq(S), NEW e \in S
  PROVE  /\ Append(q, e) \in Seq(S) /\ Len(Append(q, e)) = Len(q) + 1
         /\ Len(q) \in Nat
         /\ \A i \in 1..Len(q) : Append(q, e)[i] = q[i]
         /\ Append(q, e)[Len(q) + 1] = e
  OBVIOUS

\* What is received was first.
LEMMA Received ==
  ASSUME NEW S, NEW q \in Seq(S), q # <<>>
  PROVE  /\ Head(q) \in S /\ Head(q) = q[1] /\ Tail(q) \in Seq(S)
         /\ Len(q) \in Nat /\ Len(q) >= 1 /\ Len(Tail(q)) = Len(q) - 1
         /\ \A i \in 1..(Len(q) - 1) : Tail(q)[i] = q[i + 1]
  OBVIOUS

\* The last of a kind stays the last until another one is sent.
LEMMA LastSent ==
  ASSUME NEW S, NEW q \in Seq(S), NEW e \in S, NEW kind, NEW arg
  PROVE  /\ e.kind # kind /\ LastIs(q, kind, arg) => LastIs(Append(q, e), kind, arg)
         /\ e.kind # kind /\ Without(q, kind) => Without(Append(q, e), kind)
         /\ e = Event(kind, arg) => LastIs(Append(q, e), kind, arg)
<1>1. ASSUME e.kind # kind, LastIs(q, kind, arg) PROVE LastIs(Append(q, e), kind, arg)
  <2>1. PICK i \in 1..Len(q) : q[i] = Event(kind, arg) /\ \A j \in (i + 1)..Len(q) : q[j].kind # kind
    BY <1>1 DEF LastIs
  <2>2. i \in 1..Len(Append(q, e)) /\ Append(q, e)[i] = Event(kind, arg)
    BY <2>1, Sent
  <2>3. ASSUME NEW j \in (i + 1)..Len(Append(q, e)) PROVE Append(q, e)[j].kind # kind
    <3>1. j \in (i + 1)..Len(q) \/ j = Len(q) + 1
      BY Sent
    <3>. QED BY <1>1, <2>1, <3>1, Sent
  <2>. QED BY <2>2, <2>3 DEF LastIs
<1>2. ASSUME e.kind # kind, Without(q, kind) PROVE Without(Append(q, e), kind)
  <2>1. ASSUME NEW j \in 1..Len(Append(q, e)) PROVE Append(q, e)[j].kind # kind
    <3>1. j \in 1..Len(q) \/ j = Len(q) + 1
      BY Sent
    <3>. QED BY <1>2, <3>1, Sent DEF Without
  <2>. QED BY <2>1 DEF Without
<1>3. ASSUME e = Event(kind, arg) PROVE LastIs(Append(q, e), kind, arg)
  <2>1. /\ Len(q) + 1 \in 1..Len(Append(q, e)) /\ Append(q, e)[Len(q) + 1] = e
        /\ \A j \in ((Len(q) + 1) + 1)..Len(Append(q, e)) : FALSE
    BY Sent
  <2>. QED BY <1>3, <2>1 DEF LastIs
<1>. QED BY <1>1, <1>2, <1>3

\* The last of a kind stays the last until it is received.
LEMMA LastReceived ==
  ASSUME NEW S, NEW q \in Seq(S), q # <<>>, NEW kind, NEW arg
  PROVE  /\ LastIs(q, kind, arg) =>
              \/ LastIs(Tail(q), kind, arg)
              \/ Head(q) = Event(kind, arg) /\ Without(Tail(q), kind)
         /\ Without(q, kind) => Head(q).kind # kind /\ Without(Tail(q), kind)
<1>1. ASSUME LastIs(q, kind, arg)
      PROVE  \/ LastIs(Tail(q), kind, arg)
             \/ Head(q) = Event(kind, arg) /\ Without(Tail(q), kind)
  <2>1. PICK i \in 1..Len(q) : q[i] = Event(kind, arg) /\ \A j \in (i + 1)..Len(q) : q[j].kind # kind
    BY <1>1 DEF LastIs
  <2>2. \A j \in 1..(Len(q) - 1) : j >= i => Tail(q)[j].kind # kind
    <3>1. ASSUME NEW j \in 1..(Len(q) - 1), j >= i PROVE Tail(q)[j].kind # kind
      <4>1. j + 1 \in (i + 1)..Len(q)
        BY <3>1, Received
      <4>. QED BY <2>1, <4>1, Received
    <3>. QED BY <3>1
  <2>3. CASE i = 1
    <3>1. Head(q) = Event(kind, arg)
      BY <2>1, <2>3, Received
    <3>2. Without(Tail(q), kind)
      BY <2>2, <2>3, Received DEF Without
    <3>. QED BY <3>1, <3>2
  <2>4. CASE i # 1
    <3>1. i - 1 \in 1..(Len(q) - 1) /\ (i - 1) + 1 = i /\ Len(Tail(q)) = Len(q) - 1
      BY <2>4, Received
    <3>2. Tail(q)[i - 1] = Event(kind, arg)
      BY <2>1, <3>1, Received
    <3>3. \A j \in ((i - 1) + 1)..Len(Tail(q)) : Tail(q)[j].kind # kind
      BY <2>2, <3>1
    <3>. QED BY <3>1, <3>2, <3>3 DEF LastIs
  <2>. QED BY <2>3, <2>4
<1>2. ASSUME Without(q, kind) PROVE Head(q).kind # kind /\ Without(Tail(q), kind)
  <2>1. ASSUME NEW j \in 1..Len(Tail(q)) PROVE Tail(q)[j].kind # kind
    <3>1. j \in 1..(Len(q) - 1) /\ j + 1 \in 1..Len(q)
      BY Received
    <3>. QED BY <1>2, <3>1, Received DEF Without
  <2>2. 1 \in 1..Len(q)
    BY Received
  <2>. QED BY <1>2, <2>1, <2>2, Received DEF Without
<1>. QED BY <1>1, <1>2

-----------------------------------------------------------------------------
\* Types; a thread has an event to send exactly while it waits to send, and no
\* channel holds more than it has room for.
THEOREM UiTypesCorrect == UiSpec => []UiTypes
<1>. USE Events, EmptySeq
<1>1. UiInit => UiTypes
  BY DEF UiInit, UiTypes, ToPresenter, ToView, NoEvent, Event
<1>2. UiTypes /\ [UiNext]_uiVars => UiTypes'
  <2>. SUFFICES ASSUME UiTypes, [UiNext]_uiVars PROVE UiTypes'
    OBVIOUS
  <2>. USE DEF UiTypes
  <2>0. /\ view.n \in Nat /\ view.at \in {"turn", "send", "gone"}
        /\ view.say \in ToPresenter \cup {NoEvent}
        /\ view = [at |-> view.at, n |-> view.n, say |-> view.say]
        /\ presenter.n \in Nat /\ presenter.at \in {"turn", "send"}
        /\ presenter.say \in ToView \cup {NoEvent} /\ presenter.file \in File
        /\ presenter = [at |-> presenter.at, n |-> presenter.n, say |-> presenter.say,
                        file |-> presenter.file]
    OBVIOUS
  <2>1. CASE ViewReceive
    <3>1. /\ Head(toView) \in ToView /\ Tail(toView) \in Seq(ToView)
          /\ Len(Tail(toView)) <= Buffer
      BY <2>1, Received DEF ViewReceive, ViewMayReceive
    <3>2. /\ view'.at \in {"turn", "gone"} /\ view'.n \in Nat /\ view'.say = NoEvent
          /\ view' = [at |-> view'.at, n |-> view'.n, say |-> view'.say]
      BY <2>0, <2>1 DEF ViewReceive, ViewMayReceive, Render
    <3>3. read' \in File \cup {Nothing}
      BY <2>1, <3>1 DEF ViewReceive, Render
    <3>. QED BY <2>1, <3>1, <3>2, <3>3 DEF ViewReceive
  <2>2. CASE Iterate
    <3>1. UserEvent \subseteq ToPresenter /\ choice' \in File
      BY <2>2 DEF Iterate, ToPresenter, UserEvent
    <3>. QED BY <2>2, <3>1 DEF Iterate, ViewTurns
  <2>3. CASE ViewSkip
    BY <2>3 DEF ViewSkip, ViewTurns
  <2>4. CASE ViewSend
    <3>1. view.say \in ToPresenter
      BY <2>0, <2>4 DEF ViewSend
    <3>2. toPresenter' \in Seq(ToPresenter) /\ Len(toPresenter') <= Buffer
      BY <2>4, <3>1, Sent DEF ViewSend
    <3>3. view' = [at |-> "turn", n |-> view.n, say |-> NoEvent]
      BY <2>0, <2>4 DEF ViewSend
    <3>. QED BY <2>0, <2>4, <3>2, <3>3 DEF ViewSend
  <2>5. CASE PresenterReceive
    <3>. DEFINE e == Head(toPresenter)
    <3>1. /\ e \in ToPresenter /\ Tail(toPresenter) \in Seq(ToPresenter)
          /\ Len(Tail(toPresenter)) <= Buffer
      BY <2>5, Received DEF PresenterReceive, PresenterMayReceive
    <3>2. Answer(e) \in ToView \cup {NoEvent}
      BY <2>0, <3>1 DEF Answer, ToView, Event
    <3>3. presenter' = [at |-> IF Answer(e) = NoEvent THEN "turn" ELSE "send",
                        n |-> presenter.n + 1, say |-> Answer(e),
                        file |-> IF e.kind = "choose" THEN e.arg ELSE presenter.file]
      BY <2>0, <2>5 DEF PresenterReceive
    <3>4. e.kind = "choose" => e.arg \in File
      BY <3>1
    <3>. HIDE DEF e
    <3>5. /\ presenter' \in [at : {"turn", "send"}, n : Nat, say : ToView \cup {NoEvent}, file : File]
          /\ presenter'.at = "turn" <=> presenter'.say = NoEvent
      BY <2>0, <3>2, <3>3, <3>4
    <3>. QED BY <2>5, <3>1, <3>5 DEF PresenterReceive
  <2>6. CASE PresenterSend
    <3>1. presenter.say \in ToView
      BY <2>0, <2>6 DEF PresenterSend
    <3>2. toView' \in Seq(ToView) /\ Len(toView') <= Buffer
      BY <2>6, <3>1, Sent DEF PresenterSend
    <3>3. presenter' = [at |-> "turn", n |-> presenter.n, say |-> NoEvent,
                        file |-> presenter.file]
      BY <2>0, <2>6 DEF PresenterSend
    <3>. QED BY <2>0, <2>6, <3>2, <3>3 DEF PresenterSend
  <2>7. CASE Check \/ PresenterSkip
    <3>1. Event("state", Nothing) \in ToView
      BY DEF ToView
    <3>2. PICK at \in {"turn", "send"}, say \in ToView \cup {NoEvent} :
            PresenterTurns(at, say) /\ (at = "turn" <=> say = NoEvent)
      BY <2>7, <3>1 DEF Check, PresenterSkip
    <3>3. presenter' = [at |-> at, n |-> 0, say |-> say, file |-> presenter.file]
      BY <2>0, <3>2 DEF PresenterTurns
    <3>. QED BY <2>0, <3>2, <3>3 DEF PresenterTurns
  <2>8. CASE WatcherSend
    <3>1. Event("change", changed) \in ToPresenter
      BY <2>8 DEF WatcherSend, ToPresenter, Event
    <3>2. toPresenter' \in Seq(ToPresenter) /\ Len(toPresenter') <= Buffer
      BY <2>8, <3>1, Sent DEF WatcherSend
    <3>. QED BY <2>8, <3>2 DEF WatcherSend
  <2>9. ASSUME NEW f \in File, Write(f) PROVE UiTypes'
    BY <2>9 DEF Write
  <2>10. CASE UNCHANGED uiVars
    BY <2>10 DEF uiVars
  <2>. QED
    BY <2>1, <2>2, <2>3, <2>4, <2>5, <2>6, <2>7, <2>8, <2>9, <2>10
    DEF UiNext, ViewStep, PresenterStep
<1>. QED BY <1>1, <1>2, PTL DEF UiSpec

\* News of a file stays news until the presenter has it.
LEMMA ComingSent ==
  ASSUME UiTypes, UiTypes', NEW e \in ToPresenter, toPresenter' = Append(toPresenter, e),
         presenter'.file = presenter.file, Coming,
         changed' = changed \/ e = Event("change", changed),
         view'.say = view.say \/ e = view.say
  PROVE  Coming'
<1>1. /\ \A i \in 1..Len(toPresenter) : toPresenter'[i] = toPresenter[i]
      /\ toPresenter'[Len(toPresenter) + 1] = e
      /\ Len(toPresenter') = Len(toPresenter) + 1 /\ Len(toPresenter) \in Nat
  BY Sent DEF UiTypes
<1>2. Len(toPresenter) + 1 \in 1..Len(toPresenter')
      /\ \A i \in 1..Len(toPresenter) : i \in 1..Len(toPresenter')
  BY <1>1
<1>3. CASE WillName(e)
  <2>1. Names(toPresenter'[Len(toPresenter) + 1], presenter'.file)
    BY <1>1, <1>3 DEF WillName, Names
  <2>. QED BY <1>2, <2>1 DEF Coming, WillName, Names
<1>4. CASE changed = presenter.file \/ WillName(view.say)
  BY <1>3, <1>4 DEF Coming, WillName, Names
<1>5. ASSUME NEW i \in 1..Len(toPresenter), WillName(toPresenter[i]) PROVE Coming'
  <2>1. i \in 1..Len(toPresenter') /\ Names(toPresenter'[i], presenter'.file)
    BY <1>1, <1>2, <1>5 DEF WillName, Names
  <2>. QED BY <2>1 DEF Coming, WillName, Names
<1>. QED BY <1>4, <1>5 DEF Coming

\* What the presenter does not answer is not news.
LEMMA ComingReceived ==
  ASSUME UiTypes, toPresenter # <<>>, toPresenter' = Tail(toPresenter),
         ~WillName(Head(toPresenter)), presenter'.file = presenter.file, Coming,
         changed' = changed, view' = view
  PROVE  Coming'
<1>1. CASE changed = presenter.file \/ WillName(view.say)
  BY <1>1 DEF Coming, WillName, Names
<1>2. ASSUME NEW i \in 1..Len(toPresenter), WillName(toPresenter[i]) PROVE Coming'
  <2>1. i # 1
    BY <1>2, Received DEF UiTypes
  <2>2. /\ i - 1 \in 1..(Len(toPresenter) - 1) /\ (i - 1) + 1 = i
        /\ Len(toPresenter') = Len(toPresenter) - 1
    BY <2>1, Received DEF UiTypes
  <2>3. toPresenter'[i - 1] = toPresenter[i]
    BY <2>2, Received DEF UiTypes
  <2>4. i - 1 \in 1..Len(toPresenter') /\ Names(toPresenter'[i - 1], presenter'.file)
    BY <1>2, <2>2, <2>3 DEF WillName, Names
  <2>. QED BY <2>4 DEF Coming, WillName, Names
<1>. QED BY <1>1, <1>2 DEF Coming

\* The file chosen last is on its way to the presenter or there.
LEMMA ChosenStep ==
  ASSUME UiTypes, UiTypes', Chosen, [UiNext]_uiVars
  PROVE  Chosen'
<1>0. /\ toPresenter \in Seq(ToPresenter)
      /\ view.at \in {"turn", "gone"} => view.say = NoEvent
      /\ view = [at |-> view.at, n |-> view.n, say |-> view.say]
      /\ presenter = [at |-> presenter.at, n |-> presenter.n, say |-> presenter.say,
                      file |-> presenter.file]
  BY DEF UiTypes
<1>1. CASE /\ view'.say = view.say /\ toPresenter' = toPresenter
           /\ presenter'.file = presenter.file /\ choice' = choice
  BY <1>1 DEF Chosen, LastIs, Without
<1>2. CASE ViewReceive
  BY <1>0, <1>1, <1>2 DEF ViewReceive, Render
<1>3. CASE Iterate
  <2>1. view.say = NoEvent /\ toPresenter' = toPresenter /\ presenter' = presenter
    BY <1>0, <1>3 DEF Iterate, ViewTurns
  <2>2. CASE view'.say.kind # "choose" /\ choice' = choice
    BY <2>1, <2>2, Events DEF Chosen, LastIs, Without
  <2>3. CASE view'.say.kind = "choose" /\ choice' = view'.say.arg
    BY <2>3 DEF Chosen
  <2>. QED BY <1>3, <2>2, <2>3, Events DEF Iterate, ViewTurns
<1>4. CASE ViewSkip
  BY <1>0, <1>1, <1>4 DEF ViewSkip, ViewTurns
<1>5. CASE ViewSend
  <2>1. /\ view.say \in ToPresenter /\ view'.say = NoEvent /\ NoEvent.kind # "choose"
        /\ toPresenter' = Append(toPresenter, view.say)
        /\ presenter' = presenter /\ choice' = choice
    BY <1>0, <1>5, Events DEF ViewSend, UiTypes
  <2>2. CASE view.say.kind = "choose"
    <3>1. view.say = Event("choose", choice)
      BY <2>1, <2>2, Events DEF Chosen
    <3>2. LastIs(toPresenter', "choose", choice)
      BY <1>0, <2>1, <3>1, LastSent
    <3>. QED BY <2>1, <3>2 DEF Chosen, LastIs
  <2>3. CASE view.say.kind # "choose"
    <3>1. \/ LastIs(toPresenter', "choose", choice)
          \/ Without(toPresenter', "choose") /\ presenter.file = choice
      BY <1>0, <2>1, <2>3, LastSent DEF Chosen
    <3>. QED BY <2>1, <3>1 DEF Chosen, LastIs, Without
  <2>. QED BY <2>2, <2>3
<1>6. CASE PresenterReceive
  <2>1. /\ toPresenter # <<>> /\ toPresenter' = Tail(toPresenter)
        /\ view' = view /\ choice' = choice
        /\ presenter'.file = IF Head(toPresenter).kind = "choose" THEN Head(toPresenter).arg
                             ELSE presenter.file
    BY <1>0, <1>6 DEF PresenterReceive, PresenterMayReceive
  <2>2. CASE view.say.kind = "choose"
    BY <2>1, <2>2 DEF Chosen
  <2>3. CASE view.say.kind # "choose"
    <3>1. \/ LastIs(toPresenter', "choose", choice)
          \/ /\ Head(toPresenter) = Event("choose", choice)
             /\ Without(toPresenter', "choose")
          \/ /\ Head(toPresenter).kind # "choose" /\ Without(toPresenter', "choose")
             /\ presenter.file = choice
      BY <1>0, <2>1, <2>3, LastReceived DEF Chosen
    <3>2. \/ LastIs(toPresenter', "choose", choice)
          \/ Without(toPresenter', "choose") /\ presenter'.file = choice
      BY <2>1, <3>1, Events
    <3>. QED BY <2>1, <2>3, <3>2 DEF Chosen, LastIs, Without
  <2>. QED BY <2>2, <2>3
<1>7. CASE PresenterSend \/ Check \/ PresenterSkip
  BY <1>0, <1>1, <1>7 DEF PresenterSend, Check, PresenterSkip, PresenterTurns
<1>8. CASE WatcherSend
  <2>1. /\ Event("change", changed) \in ToPresenter
        /\ Event("change", changed).kind = "change"
        /\ toPresenter' = Append(toPresenter, Event("change", changed))
        /\ view' = view /\ presenter' = presenter /\ choice' = choice
    BY <1>8, Events DEF WatcherSend, UiTypes, ToPresenter, Event
  <2>2. CASE view.say.kind = "choose"
    BY <2>1, <2>2 DEF Chosen
  <2>3. CASE view.say.kind # "choose"
    <3>1. \/ LastIs(toPresenter', "choose", choice)
          \/ Without(toPresenter', "choose") /\ presenter.file = choice
      BY <1>0, <2>1, <2>3, LastSent DEF Chosen
    <3>. QED BY <2>1, <2>3, <3>1 DEF Chosen, LastIs, Without
  <2>. QED BY <2>2, <2>3
<1>9. ASSUME NEW f \in File, Write(f) PROVE Chosen'
  BY <1>1, <1>9 DEF Write
<1>10. CASE UNCHANGED uiVars
  BY <1>1, <1>10 DEF uiVars
<1>. QED
  BY <1>2, <1>3, <1>4, <1>5, <1>6, <1>7, <1>8, <1>9, <1>10 DEF UiNext, ViewStep, PresenterStep

\* The file the presenter has is on its way to the page or there.
LEMMA ShownStep ==
  ASSUME UiTypes, UiTypes', Shown, [UiNext]_uiVars
  PROVE  Shown'
<1>0. /\ toPresenter \in Seq(ToPresenter) /\ toView \in Seq(ToView)
      /\ view.at \in {"turn", "gone"} => view.say = NoEvent
      /\ view.at = "send" => view.say \in ToPresenter
      /\ presenter.at = "turn" => presenter.say = NoEvent
      /\ presenter.at = "send" => presenter.say \in ToView
      /\ presenter.file \in File
      /\ view = [at |-> view.at, n |-> view.n, say |-> view.say]
      /\ presenter = [at |-> presenter.at, n |-> presenter.n, say |-> presenter.say,
                      file |-> presenter.file]
  BY DEF UiTypes
<1>1. ASSUME presenter'.file = presenter.file, toView' = toView, read' = read,
             \/ presenter'.say = presenter.say
             \/ presenter.say.kind # "file" /\ presenter'.say.kind # "file",
             Coming => Coming'
      PROVE  Shown'
  BY <1>1 DEF Shown, LastIs, Without
<1>2. CASE ViewReceive
  <2>1. /\ toView # <<>> /\ toView' = Tail(toView) /\ presenter' = presenter
        /\ toPresenter' = toPresenter /\ changed' = changed /\ view'.say = view.say
        /\ read' = IF Head(toView).kind = "file" THEN Head(toView).arg ELSE read
    BY <1>0, <1>2 DEF ViewReceive, ViewMayReceive, Render
  <2>2. CASE presenter.say.kind = "file"
    BY <2>1, <2>2 DEF Shown
  <2>3. CASE LastIs(toView', "file", presenter.file)
    BY <2>1, <2>2, <2>3 DEF Shown, LastIs
  <2>4. CASE /\ presenter.say.kind # "file"
             /\ Head(toView) = Event("file", presenter.file) /\ Without(toView', "file")
    <3>1. read' = presenter'.file
      BY <2>1, <2>4, Events
    <3>. QED BY <2>1, <2>4, <3>1 DEF Shown, Without
  <2>5. CASE /\ presenter.say.kind # "file"
             /\ Head(toView).kind # "file" /\ Without(toView', "file")
             /\ read = presenter.file \/ (read = Nothing /\ Coming)
    <3>1. read' = read /\ (Coming => Coming')
      BY <2>1, <2>5 DEF Coming, WillName, Names
    <3>. QED BY <2>1, <2>5, <3>1 DEF Shown, Without
  <2>6. CASE presenter.say.kind # "file"
    BY <1>0, <2>1, <2>3, <2>4, <2>5, <2>6, LastReceived DEF Shown
  <2>. QED BY <2>2, <2>6
<1>3. CASE Iterate \/ ViewSkip
  <2>1. /\ view.say = NoEvent /\ toPresenter' = toPresenter /\ presenter' = presenter
        /\ changed' = changed /\ toView' = toView /\ read' = read
    BY <1>0, <1>3 DEF Iterate, ViewSkip, ViewTurns
  <2>2. ~WillName(view.say)
    BY <2>1, Events DEF WillName, Names
  <2>3. Coming => Coming'
    BY <2>1, <2>2 DEF Coming, WillName, Names
  <2>. QED BY <1>1, <2>1, <2>3
<1>4. CASE ViewSend
  <2>1. /\ view.say \in ToPresenter /\ toPresenter' = Append(toPresenter, view.say)
        /\ presenter' = presenter /\ changed' = changed /\ toView' = toView /\ read' = read
    BY <1>0, <1>4 DEF ViewSend
  <2>2. Coming => Coming'
    BY <2>1, ComingSent
  <2>. QED BY <1>1, <2>1, <2>2
<1>5. CASE PresenterReceive
  <2>. DEFINE e == Head(toPresenter)
  <2>1. /\ toPresenter # <<>> /\ toPresenter' = Tail(toPresenter) /\ e \in ToPresenter
        /\ view' = view /\ toView' = toView /\ changed' = changed /\ read' = read
        /\ presenter.say = NoEvent /\ presenter'.say = Answer(e)
        /\ presenter'.file = IF e.kind = "choose" THEN e.arg ELSE presenter.file
    BY <1>0, <1>5, Received DEF PresenterReceive, PresenterMayReceive
  <2>. HIDE DEF e
  <2>2. CASE WillName(e)
    <3>1. presenter'.say = Event("file", presenter'.file)
      BY <2>1, <2>2, Events DEF WillName, Names, Answer
    <3>. QED BY <3>1, Events DEF Shown
  <2>3. CASE ~WillName(e)
    <3>1. e.kind # "choose" /\ ~(e.kind = "init" \/ (e.kind = "change" /\ e.arg = presenter.file))
      BY <2>1, <2>3, Events DEF WillName, Names
    <3>2. presenter'.say \in {NoEvent, Event("exit", Nothing)} /\ presenter'.file = presenter.file
      BY <2>1, <3>1 DEF Answer
    <3>3. presenter'.say.kind # "file" /\ presenter.say.kind # "file"
      BY <2>1, <3>2, Events
    <3>4. Coming => Coming'
      BY <2>1, <2>3, <3>2, ComingReceived DEF e
    <3>. QED BY <1>1, <2>1, <3>2, <3>3, <3>4
  <2>. QED BY <2>2, <2>3
<1>6. CASE PresenterSend
  <2>1. /\ presenter.say \in ToView /\ toView' = Append(toView, presenter.say)
        /\ presenter'.say = NoEvent /\ presenter'.file = presenter.file
        /\ presenter'.say.kind # "file"
        /\ UNCHANGED <<toPresenter, view, changed, read>>
    BY <1>0, <1>6, Events DEF PresenterSend
  <2>2. CASE presenter.say.kind = "file"
    <3>1. presenter.say = Event("file", presenter.file)
      BY <2>1, <2>2, Events DEF Shown
    <3>2. LastIs(toView', "file", presenter.file)
      BY <1>0, <2>1, <3>1, LastSent
    <3>. QED BY <2>1, <3>2 DEF Shown, LastIs
  <2>3. CASE presenter.say.kind # "file"
    <3>1. \/ LastIs(toView', "file", presenter.file)
          \/ /\ Without(toView', "file")
             /\ read = presenter.file \/ (read = Nothing /\ Coming)
      BY <1>0, <2>1, <2>3, LastSent DEF Shown
    <3>2. Coming => Coming'
      BY <2>1 DEF Coming, WillName, Names
    <3>. QED BY <2>1, <3>1, <3>2 DEF Shown, LastIs, Without
  <2>. QED BY <2>2, <2>3
<1>7. CASE Check \/ PresenterSkip
  <2>1. /\ presenter.say = NoEvent /\ presenter'.file = presenter.file
        /\ presenter'.say \in {NoEvent, Event("state", Nothing)}
        /\ UNCHANGED <<toPresenter, toView, view, changed, read>>
    BY <1>0, <1>7 DEF Check, PresenterSkip, PresenterTurns
  <2>2. presenter.say.kind # "file" /\ presenter'.say.kind # "file"
    BY <2>1, Events
  <2>3. Coming => Coming'
    BY <2>1 DEF Coming, WillName, Names
  <2>. QED BY <1>1, <2>1, <2>2, <2>3
<1>8. CASE WatcherSend
  <2>1. /\ Event("change", changed) \in ToPresenter
        /\ toPresenter' = Append(toPresenter, Event("change", changed))
        /\ view' = view /\ presenter' = presenter /\ toView' = toView /\ read' = read
    BY <1>8 DEF WatcherSend, UiTypes, ToPresenter, Event
  <2>2. Coming => Coming'
    BY <2>1, ComingSent
  <2>. QED BY <1>1, <2>1, <2>2
<1>9. ASSUME NEW f \in File, Write(f) PROVE Shown'
  <2>1. /\ UNCHANGED <<toPresenter, toView, view, presenter>>
        /\ changed \in {Nothing, f} /\ changed' = f /\ f # Nothing
        /\ read' = IF read = f THEN Nothing ELSE read
    BY <1>9, Events DEF Write
  <2>2. Coming => Coming'
    BY <1>0, <2>1, Events DEF Coming, WillName, Names
  <2>3. f = presenter.file => Coming'
    BY <2>1 DEF Coming
  <2>4. read = presenter.file \/ (read = Nothing /\ Coming)
          => read' = presenter.file \/ (read' = Nothing /\ Coming')
    BY <2>1, <2>2, <2>3
  <2>. QED BY <2>1, <2>4 DEF Shown, LastIs, Without
<1>10. CASE UNCHANGED uiVars
  BY <1>1, <1>10 DEF uiVars, Coming, WillName, Names
<1>. QED
  BY <1>2, <1>3, <1>4, <1>5, <1>6, <1>7, <1>8, <1>9, <1>10 DEF UiNext, ViewStep, PresenterStep

\* No choice and no change gets lost: the page has read the file chosen last as
\* it is now, or an event that makes it read that file is on its way, for any
\* files and channels of any size.
THEOREM NothingLostCorrect == UiSpec => []NothingIsLost
<1>1. UiInit => Chosen /\ Shown
  BY Events DEF UiInit, Chosen, Shown, LastIs, Without, Coming, WillName, Names
<1>2. UiTypes /\ Chosen /\ Shown => NothingIsLost
  <2>. SUFFICES ASSUME UiTypes, Chosen, Shown PROVE NothingIsLost
    OBVIOUS
  <2>1. \A q, i : i \in 1..Len(q) => q[i] \in ToSet(q)
    BY DEF ToSet
  <2>2. CASE view.say.kind = "choose"
    BY <2>2 DEF Chosen, NothingIsLost, Tells
  <2>3. CASE LastIs(toPresenter, "choose", choice)
    BY <2>1, <2>3, Events DEF LastIs, NothingIsLost, Tells
  <2>4. CASE /\ view.say.kind # "choose" /\ Without(toPresenter, "choose")
             /\ presenter.file = choice
    <3>1. CASE presenter.say.kind = "file"
      BY <2>4, <3>1 DEF Shown, NothingIsLost, Tells
    <3>2. CASE LastIs(toView, "file", choice)
      BY <2>1, <3>2, Events DEF LastIs, NothingIsLost, Tells
    <3>3. CASE read = choice \/ changed = choice
      BY <3>3 DEF NothingIsLost
    <3>4. CASE WillName(view.say)
      BY <2>4, <3>4, Events DEF WillName, Names, NothingIsLost, Tells
    <3>5. ASSUME NEW i \in 1..Len(toPresenter), WillName(toPresenter[i]) PROVE NothingIsLost
      <4>1. Tells(toPresenter[i])
        BY <2>4, <3>5, Events DEF WillName, Names, Without, Tells
      <4>. QED BY <2>1, <4>1 DEF NothingIsLost
    <3>. QED BY <2>4, <3>1, <3>2, <3>3, <3>4, <3>5 DEF Shown, Coming
  <2>. QED BY <2>2, <2>3, <2>4 DEF Chosen
<1>. QED BY <1>1, <1>2, UiTypesCorrect, ChosenStep, ShownStep, PTL DEF UiSpec

\* Presenter and view that wait for each other do so for ever, whatever the user
\* does and the logs say.
THEOREM JamIsForEver == UiSpec => [](Jam => []Jam)
<1>1. UiTypes /\ Jam /\ [UiNext]_uiVars => Jam'
  BY DEF UiTypes, Jam, UiNext, ViewStep, PresenterStep, ViewReceive, ViewMayReceive, ViewSend,
         Iterate, ViewSkip, PresenterReceive, PresenterMayReceive, PresenterSend, Check,
         PresenterSkip, PresenterTurns, WatcherSend, Write, uiVars
<1>. QED BY <1>1, UiTypesCorrect, PTL DEF UiSpec
=============================================================================
