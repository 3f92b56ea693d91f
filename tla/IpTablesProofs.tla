---------------------------- MODULE IpTablesProofs ----------------------------
(***************************************************************************)
(* IpTables, for any limits and durations: types, that what ip-changes     *)
(* lists has moved, and both limits of check_ip_blocker.                   *)
(***************************************************************************)
EXTENDS IpTables, FiniteSetTheorems, TLAPS

\* To every address of an entry the id has moved since the entry was made, and
\* at most IP_CHANGE_DUR after that, as far as ages are told apart.
EntryMoved ==
  changes # NoEntry =>
    \A p \in changes.ips :
      /\ movedTo[p] <= changes.age
      /\ changes.age <= 2 * ChangeDur => changes.age - movedTo[p] <= ChangeDur

\* An entry is not taken for none.
LEMMA EntriesDiffer == NoEntry \notin Blocker /\ NoEntry \notin Changes
BY IpTablesAssumption DEF IpTablesAssumption, Blocker, Changes, ChangeAge

LEMMA Numbers ==
  /\ MaxCount \in Nat /\ MaxIds \in Nat /\ BlockDur \in Nat /\ Day \in Nat
  /\ ChangeDur \in Nat
BY IpTablesAssumption

\* Ages grow up to their cap.
LEMMA OlderAge ==
  ASSUME NEW cap \in Nat, NEW age \in 0..cap
  PROVE  /\ Older(age, cap) \in 0..cap
         /\ Older(age, cap) = age + 1 \/ (age = cap /\ Older(age, cap) = cap)
BY DEF Older

-----------------------------------------------------------------------------
\* Registrations keep counts and ages within their limits.
LEMMA RegisterTypes ==
  ASSUME TypeOK, NEW id \in Id, Register(id)
  PROVE  TypeOK'
<1>. USE Numbers DEF TypeOK
<1>1. changes' = changes /\ at' = at /\ movedTo' = movedTo
  BY DEF Register, changesVars
<1>2. ASSUME NEW new \in BOOLEAN, NoteAccepted(new)
      PROVE  accepted' \in [0..BlockDur -> Nat] /\ admitted' \in [0..Day -> Nat]
  BY <1>2 DEF NoteAccepted
<1>3. CASE FirstOfAddress(id)
  <2>1. blocker' \in Blocker
    BY <1>3 DEF FirstOfAddress, Blocker
  <2>. QED BY <1>1, <1>2, <1>3, <2>1 DEF FirstOfAddress
<1>4. CASE blocker # NoEntry /\ Count <= MaxCount /\ (FullList(id) \/ OpenList(id))
  <2>1. blocker \in Blocker
    BY <1>4
  <2>2. Count \in 0..MaxCount /\ Ids \subseteq Id
    BY <1>4, <2>1 DEF Count, Ids, Blocker
  <2>3. ASSUME NEW ids \in SUBSET Id, NEW a \in 0..(Day + 1), Pass(ids, a)
        PROVE  blocker' \in Blocker
    BY <2>2, <2>3 DEF Pass, Blocker
  <2>4. blocker.ids \in SUBSET Id /\ blocker.idsAge \in 0..(Day + 1)
    BY <2>1 DEF Blocker
  <2>5. CASE FullList(id)
    BY <1>1, <1>2, <2>3, <2>4, <2>5 DEF FullList
  <2>6. CASE OpenList(id)
    <3>1. Ids \cup (IF Known(id) THEN {} ELSE {id}) \in SUBSET Id
      BY <2>2
    <3>2. accepted' \in [0..BlockDur -> Nat] /\ admitted' \in [0..Day -> Nat]
      BY <2>6 DEF OpenList, NoteAccepted
    <3>3. blocker' \in Blocker
      BY <2>3, <2>6, <3>1 DEF OpenList
    <3>. QED BY <1>1, <3>2, <3>3
  <2>. QED BY <1>4, <2>5, <2>6
<1>5. CASE UNCHANGED blockerVars
  BY <1>1, <1>5 DEF blockerVars
<1>. QED BY <1>3, <1>4, <1>5 DEF Register, CheckIpBlocker

LEMMA TickTypes ==
  ASSUME TypeOK, Tick
  PROVE  TypeOK'
<1>. USE Numbers
<1>1. blocker' \in Blocker \cup {NoEntry}
  <2>1. CASE blocker = NoEntry
    BY <2>1 DEF Tick
  <2>2. CASE blocker # NoEntry
    <3>1. blocker \in Blocker
      BY <2>2 DEF TypeOK
    <3>2. /\ Older(blocker.age, BlockDur + 1) \in 0..(BlockDur + 1)
          /\ Older(blocker.idsAge, Day + 1) \in 0..(Day + 1)
      BY <3>1, OlderAge DEF Blocker
    <3>. QED BY <2>2, <3>1, <3>2 DEF Tick, Blocker
  <2>. QED BY <2>1, <2>2
<1>2. changes' \in Changes \cup {NoEntry}
  <2>1. CASE changes = NoEntry
    BY <2>1 DEF Tick
  <2>2. CASE changes # NoEntry
    <3>1. changes \in Changes
      BY <2>2 DEF TypeOK
    <3>2. Older(changes.age, 2 * ChangeDur + 1) \in ChangeAge
      BY <3>1, OlderAge DEF Changes, ChangeAge
    <3>. QED BY <2>2, <3>1, <3>2 DEF Tick, Changes
  <2>. QED BY <2>1, <2>2
<1>3. movedTo' \in [Ip -> ChangeAge]
  BY DEF Tick, TypeOK, ChangeAge, Older
<1>4. accepted' \in [0..BlockDur -> Nat] /\ admitted' \in [0..Day -> Nat]
  BY DEF Tick, TypeOK, Shift
<1>. QED BY <1>1, <1>2, <1>3, <1>4 DEF Tick, TypeOK

\* The operator's commands, and moves.
LEMMA OtherTypes ==
  ASSUME TypeOK,
         \/ RetainBlocker \/ RemoveBlocker \/ RetainChanges \/ RemoveChanges
         \/ \E ip \in Ip : Move(ip)
         \/ UNCHANGED vars
  PROVE  TypeOK'
<1>. USE Numbers DEF TypeOK
<1>1. CASE RetainBlocker \/ RemoveBlocker
  BY <1>1 DEF RetainBlocker, RemoveBlocker, changesVars
<1>2. CASE RetainChanges \/ RemoveChanges
  BY <1>2 DEF RetainChanges, RemoveChanges, blockerVars
<1>3. ASSUME NEW ip \in Ip, Move(ip) PROVE TypeOK'
  <2>1. changes' \in Changes
    BY <1>3 DEF Move, NoteChange, Changes, ChangeAge
  <2>. QED BY <1>3, <2>1 DEF Move, blockerVars, ChangeAge
<1>4. CASE UNCHANGED vars
  BY <1>4 DEF vars
<1>. QED BY <1>1, <1>2, <1>3, <1>4

\* Types: counts, ages and lists stay within their limits, whatever is
\* registered, listed and removed, and however time passes.
THEOREM TypeCorrect == Spec => []TypeOK
<1>1. Init => TypeOK
  BY Numbers DEF Init, TypeOK, ChangeAge
<1>2. TypeOK /\ [Next]_vars => TypeOK'
  BY RegisterTypes, TickTypes, OtherTypes DEF Next
<1>. QED BY <1>1, <1>2, PTL DEF Spec

-----------------------------------------------------------------------------
\* An id that ip-changes lists has moved to each of the addresses of its entry,
\* and to all of them within IP_CHANGE_DUR of its time.
THEOREM ListedCorrect == Spec => []ListedReallyMoved
<1>. USE Numbers
<1>1. Init => EntryMoved
  BY DEF Init, EntryMoved
<1>2. TypeOK /\ EntryMoved /\ [Next]_vars => EntryMoved'
  <2>. SUFFICES ASSUME TypeOK, EntryMoved, [Next]_vars PROVE EntryMoved'
    OBVIOUS
  <2>1. ASSUME NEW ip \in Ip, Move(ip) PROVE EntryMoved'
    <3>1. CASE changes = NoEntry \/ changes.age > ChangeDur
      <4>1. changes' = [age |-> 0, ips |-> {ip}] /\ movedTo'[ip] = 0
        BY <2>1, <3>1 DEF Move, NoteChange, TypeOK
      <4>. QED BY <4>1 DEF EntryMoved
    <3>2. CASE changes # NoEntry /\ ~(changes.age > ChangeDur)
      <4>1. changes \in Changes
        BY <3>2 DEF TypeOK
      <4>2. changes'.age = changes.age /\ changes'.ips = changes.ips \cup {ip}
        BY <2>1, <3>2, <4>1 DEF Move, NoteChange, Changes
      <4>3. movedTo' = [movedTo EXCEPT ![ip] = 0] /\ movedTo \in [Ip -> ChangeAge]
        BY <2>1 DEF Move, TypeOK
      <4>4. changes.age \in Nat /\ changes.ips \subseteq Ip
        BY <4>1 DEF Changes, ChangeAge
      <4>. QED BY <3>2, <4>2, <4>3, <4>4 DEF EntryMoved, ChangeAge
    <3>. QED BY <3>1, <3>2, EntriesDiffer DEF TypeOK, Changes, ChangeAge
  <2>2. CASE Tick
    <3>1. CASE changes = NoEntry
      BY <2>2, <3>1 DEF Tick, EntryMoved
    <3>2. CASE changes # NoEntry
      <4>. DEFINE cap == 2 * ChangeDur + 1
      <4>1. changes \in Changes /\ movedTo \in [Ip -> ChangeAge]
        BY <3>2 DEF TypeOK
      <4>2. /\ changes'.age = Older(changes.age, cap) /\ changes'.ips = changes.ips
            /\ movedTo' = [p \in Ip |-> Older(movedTo[p], cap)]
        BY <2>2, <3>2, <4>1 DEF Tick, Changes
      <4>3. changes.age \in 0..cap /\ changes.ips \subseteq Ip
        BY <4>1 DEF Changes, ChangeAge
      <4>4. ASSUME NEW p \in changes.ips
            PROVE  /\ Older(movedTo[p], cap) <= Older(changes.age, cap)
                   /\ Older(changes.age, cap) <= 2 * ChangeDur
                        => Older(changes.age, cap) - Older(movedTo[p], cap) <= ChangeDur
        <5>1. movedTo[p] \in 0..cap
          BY <4>1, <4>3 DEF ChangeAge
        <5>2. /\ movedTo[p] <= changes.age
              /\ changes.age <= 2 * ChangeDur => changes.age - movedTo[p] <= ChangeDur
          BY <3>2 DEF EntryMoved
        <5>. QED BY <4>3, <5>1, <5>2 DEF Older
      <4>. QED BY <4>2, <4>3, <4>4 DEF EntryMoved
    <3>. QED BY <3>1, <3>2
  <2>3. CASE RetainChanges \/ RemoveChanges
    BY <2>3 DEF RetainChanges, RemoveChanges, EntryMoved
  <2>4. CASE UNCHANGED changesVars
    BY <2>4 DEF changesVars, EntryMoved
  <2>. QED
    BY <2>1, <2>2, <2>3, <2>4
    DEF Next, Register, RetainBlocker, RemoveBlocker, vars, changesVars
<1>3. TypeOK /\ EntryMoved => ListedReallyMoved
  BY DEF TypeOK, EntryMoved, ListedReallyMoved, Listed, Changes, ChangeAge
<1>. QED BY <1>1, <1>2, <1>3, TypeCorrect, PTL DEF Spec

-----------------------------------------------------------------------------
(* Limits.  An entry's age tells since when nothing was accepted, and its    *)
(* count, once it is set anew, counts what was accepted from then on; only   *)
(* what made the entry is not in the count.  The list of ids is the same,    *)
(* but that ids on it pass without being counted.                            *)

CountInv ==
  /\ blocker = NoEntry => \A a \in 0..BlockDur : accepted[a] = 0
  /\ blocker # NoEntry =>
       \A a \in 0..BlockDur : /\ a < blocker.age => accepted[a] = 0
                              /\ accepted[a] <= blocker.count + 1

IdsInv ==
  /\ blocker = NoEntry => \A a \in 0..Day : admitted[a] = 0
  /\ blocker # NoEntry =>
       /\ IsFiniteSet(blocker.ids) /\ Cardinality(blocker.ids) <= MaxIds + 1
       /\ \A a \in 0..Day : /\ a < blocker.idsAge => admitted[a] = 0
                            /\ admitted[a] <= Cardinality(blocker.ids) + 1

\* What a registration does to the entry and to what is counted: it makes the
\* entry, it is refused, or it passes, with a list that is full or is not.
LEMMA RegisterMeans ==
  ASSUME TypeOK, NEW id \in Id, Register(id)
  PROVE  \/ UNCHANGED blockerVars
         \/ FirstOfAddress(id)
         \/ /\ blocker \in Blocker /\ blocker' \in Blocker
            /\ Count <= MaxCount /\ blocker'.count = Count + 1 /\ blocker'.age = 0
            /\ accepted' \in {accepted, [a \in 0..BlockDur |-> accepted[a] + 1]}
            /\ \/ /\ Cardinality(Ids) > MaxIds
                  /\ blocker'.ids = blocker.ids /\ blocker'.idsAge = blocker.idsAge
                  /\ admitted' = admitted
               \/ /\ Cardinality(Ids) <= MaxIds /\ blocker'.idsAge = 0
                  /\ \/ /\ id \in blocker.ids /\ blocker'.ids = Ids
                        /\ admitted' = admitted
                     \/ /\ id \notin blocker.ids /\ blocker'.ids = Ids \cup {id}
                        /\ admitted' = [a \in 0..Day |-> admitted[a] + 1]
<1>. USE Numbers DEF TypeOK
<1>1. admitted = [a \in 0..Day |-> admitted[a] + 0]
  OBVIOUS
<1>2. CASE blocker # NoEntry /\ Count <= MaxCount /\ (FullList(id) \/ OpenList(id))
  <2>1. blocker \in Blocker
    BY <1>2
  <2>2. Count \in 0..MaxCount /\ Ids \subseteq Id /\ blocker.idsAge \in 0..(Day + 1)
    BY <1>2, <2>1 DEF Count, Ids, Blocker
  <2>3. ASSUME NEW ids \in SUBSET Id, NEW a \in 0..(Day + 1), Pass(ids, a)
        PROVE  /\ blocker' \in Blocker
               /\ blocker'.count = Count + 1 /\ blocker'.age = 0
               /\ blocker'.ids = ids /\ blocker'.idsAge = a
    BY <2>2, <2>3 DEF Pass, Blocker
  <2>4. CASE FullList(id)
    <3>1. blocker.ids \in SUBSET Id /\ Pass(blocker.ids, blocker.idsAge)
      BY <2>1, <2>4 DEF Blocker, FullList
    <3>2. /\ admitted' = admitted
          /\ accepted' \in {accepted, [a \in 0..BlockDur |-> accepted[a] + 1]}
      BY <1>1, <2>4 DEF FullList, NoteAccepted
    <3>. QED BY <1>2, <2>1, <2>2, <2>3, <2>4, <3>1, <3>2 DEF FullList
  <2>5. CASE OpenList(id)
    <3>. DEFINE ids == Ids \cup (IF Known(id) THEN {} ELSE {id})
    <3>1. ids \in SUBSET Id /\ Pass(ids, 0)
      BY <2>2, <2>5 DEF OpenList
    <3>2. /\ Cardinality(Ids) <= MaxIds
          /\ accepted' = [a \in 0..BlockDur |-> accepted[a] + 1]
          /\ admitted' = IF Known(id) THEN admitted ELSE [a \in 0..Day |-> admitted[a] + 1]
      BY <1>1, <2>5 DEF OpenList, NoteAccepted
    <3>3. ids = IF id \in blocker.ids THEN Ids ELSE Ids \cup {id}
      BY DEF Known
    <3>. HIDE DEF ids
    <3>4. 0 \in 0..(Day + 1)
      OBVIOUS
    <3>5. /\ blocker' \in Blocker /\ blocker'.count = Count + 1 /\ blocker'.age = 0
          /\ blocker'.ids = ids /\ blocker'.idsAge = 0
      BY <2>3, <3>1, <3>4
    <3>. QED BY <1>2, <2>1, <3>2, <3>3, <3>5 DEF Known
  <2>. QED BY <1>2, <2>4, <2>5
<1>. QED BY <1>2 DEF Register, CheckIpBlocker

\* The entry that a registration makes.
LEMMA FirstMeans ==
  ASSUME NEW id, FirstOfAddress(id)
  PROVE  /\ blocker = NoEntry /\ blocker' # NoEntry
         /\ blocker'.count = 0 /\ blocker'.age = 0
         /\ blocker'.ids = {} /\ blocker'.idsAge = 0
         /\ accepted' = [a \in 0..BlockDur |-> accepted[a] + 1]
         /\ admitted' = [a \in 0..Day |-> admitted[a] + 1]
<1>1. blocker' \in Blocker
  BY Numbers DEF FirstOfAddress, Blocker
<1>. QED BY <1>1, EntriesDiffer DEF FirstOfAddress, NoteAccepted

\* A unit of time: everything is one older.
LEMMA TickMeans ==
  ASSUME TypeOK, Tick
  PROVE  /\ blocker = NoEntry => blocker' = NoEntry
         /\ blocker # NoEntry =>
              /\ blocker' # NoEntry
              /\ blocker'.count = blocker.count /\ blocker'.ids = blocker.ids
              /\ blocker'.age = Older(blocker.age, BlockDur + 1)
              /\ blocker'.idsAge = Older(blocker.idsAge, Day + 1)
         /\ accepted' = [a \in 0..BlockDur |-> IF a = 0 THEN 0 ELSE accepted[a - 1]]
         /\ admitted' = [a \in 0..Day |-> IF a = 0 THEN 0 ELSE admitted[a - 1]]
<1>1. ASSUME blocker # NoEntry
      PROVE  /\ blocker \in Blocker /\ blocker' \in Blocker
             /\ blocker' = [blocker EXCEPT !.age = Older(@, BlockDur + 1),
                                           !.idsAge = Older(@, Day + 1)]
  <2>1. blocker \in Blocker /\ TypeOK'
    BY <1>1, TickTypes DEF TypeOK
  <2>2. blocker' = [blocker EXCEPT !.age = Older(@, BlockDur + 1),
                                   !.idsAge = Older(@, Day + 1)]
    BY <1>1 DEF Tick
  <2>3. /\ Older(blocker.age, BlockDur + 1) \in 0..(BlockDur + 1)
        /\ Older(blocker.idsAge, Day + 1) \in 0..(Day + 1)
    BY <2>1, OlderAge, Numbers DEF Blocker
  <2>. QED BY <2>1, <2>2, <2>3 DEF Blocker
<1>2. ASSUME blocker # NoEntry
      PROVE  /\ blocker' # NoEntry
             /\ blocker'.count = blocker.count /\ blocker'.ids = blocker.ids
             /\ blocker'.age = Older(blocker.age, BlockDur + 1)
             /\ blocker'.idsAge = Older(blocker.idsAge, Day + 1)
  BY <1>1, <1>2, EntriesDiffer DEF Blocker
<1>3. DOMAIN accepted = 0..BlockDur /\ DOMAIN admitted = 0..Day
  BY DEF TypeOK
<1>. QED BY <1>2, <1>3 DEF Tick, Shift

\* The commands on the entry: it is dropped, with what was counted, or when
\* both windows have passed.
LEMMA DropMeans ==
  ASSUME TypeOK, RetainBlocker \/ RemoveBlocker
  PROVE  /\ blocker' = NoEntry
         /\ \/ /\ accepted' = [a \in 0..BlockDur |-> 0]
               /\ admitted' = [a \in 0..Day |-> 0]
            \/ /\ blocker # NoEntry
               /\ blocker.age > BlockDur /\ blocker.idsAge > Day
               /\ accepted' = accepted /\ admitted' = admitted
BY DEF RetainBlocker, RemoveBlocker

\* What leaves the entry alone.
LEMMA EntryKept ==
  ASSUME [Next]_vars,
         \A id \in Id : ~Register(id), ~RetainBlocker, ~RemoveBlocker, ~Tick
  PROVE  UNCHANGED blockerVars
BY DEF Next, Move, RetainChanges, RemoveChanges, vars, blockerVars

\* Every step keeps the count ahead of what was accepted.
LEMMA CountStep ==
  ASSUME TypeOK, TypeOK', CountInv, [Next]_vars
  PROVE  CountInv'
<1>. USE Numbers
<1>0. accepted \in [0..BlockDur -> Nat] /\ accepted' \in [0..BlockDur -> Nat]
  BY DEF TypeOK
<1>1. CASE UNCHANGED blockerVars
  BY <1>1 DEF blockerVars, CountInv
<1>2. ASSUME NEW id \in Id, Register(id) PROVE CountInv'
  <2>1. CASE FirstOfAddress(id)
    BY <1>0, <2>1, FirstMeans DEF CountInv
  <2>2. CASE /\ blocker \in Blocker /\ blocker' \in Blocker
             /\ blocker'.count = Count + 1 /\ blocker'.age = 0
             /\ accepted' \in {accepted, [a \in 0..BlockDur |-> accepted[a] + 1]}
    <3>1. blocker # NoEntry /\ blocker' # NoEntry
      BY <2>2, EntriesDiffer
    <3>2. blocker.age \in 0..(BlockDur + 1) /\ blocker.count \in Nat
      BY <2>2 DEF Blocker
    <3>3. \A a \in 0..BlockDur : accepted[a] <= Count + 1
      <4>1. CASE blocker.age > BlockDur
        <5>1. \A a \in 0..BlockDur : accepted[a] = 0
          BY <3>1, <3>2, <4>1 DEF CountInv
        <5>. QED BY <4>1, <5>1 DEF Count
      <4>2. CASE ~(blocker.age > BlockDur)
        BY <3>1, <4>2 DEF CountInv, Count
      <4>. QED BY <4>1, <4>2
    <3>4. Count \in Nat
      BY <3>2 DEF Count
    <3>5. \A a \in 0..BlockDur : accepted'[a] <= accepted[a] + 1
      BY <1>0, <2>2
    <3>6. \A a \in 0..BlockDur : accepted'[a] <= (Count + 1) + 1
      BY <1>0, <3>3, <3>4, <3>5
    <3>. QED BY <2>2, <3>1, <3>6 DEF CountInv
  <2>. QED BY <1>1, <1>2, <2>1, <2>2, RegisterMeans
<1>3. CASE Tick
  <2>1. CASE blocker = NoEntry
    BY <1>0, <1>3, <2>1, TickMeans DEF CountInv
  <2>2. CASE blocker # NoEntry
    <3>1. blocker.age \in 0..(BlockDur + 1) /\ blocker.count \in Nat
      BY <2>2 DEF TypeOK, Blocker
    <3>2. /\ blocker' # NoEntry /\ blocker'.count = blocker.count
          /\ blocker'.age \in {blocker.age, blocker.age + 1}
          /\ blocker'.age \in 0..(BlockDur + 1)
          /\ blocker'.age = blocker.age => blocker.age = BlockDur + 1
      BY <1>3, <2>2, <3>1, TickMeans DEF Older
    <3>3. ASSUME NEW a \in 0..BlockDur
          PROVE  /\ a < blocker'.age => accepted'[a] = 0
                 /\ accepted'[a] <= blocker.count + 1
      <4>1. CASE a = 0
        BY <1>3, <3>1, <4>1, TickMeans
      <4>2. CASE a # 0
        <5>1. a - 1 \in 0..BlockDur /\ accepted'[a] = accepted[a - 1]
          BY <1>3, <4>2, TickMeans
        <5>2. a < blocker'.age => a - 1 < blocker.age
          BY <3>1, <3>2
        <5>. QED BY <2>2, <5>1, <5>2 DEF CountInv
      <4>. QED BY <4>1, <4>2
    <3>. QED BY <3>2, <3>3 DEF CountInv
  <2>. QED BY <2>1, <2>2
<1>4. CASE RetainBlocker \/ RemoveBlocker
  <2>1. CASE accepted' = [a \in 0..BlockDur |-> 0]
    BY <1>4, <2>1, DropMeans DEF CountInv
  <2>2. CASE blocker # NoEntry /\ blocker.age > BlockDur /\ accepted' = accepted
    <3>1. blocker.age \in Nat
      BY <2>2 DEF TypeOK, Blocker
    <3>2. \A a \in 0..BlockDur : a < blocker.age
      BY <2>2, <3>1
    <3>. QED BY <1>4, <2>2, <3>2, DropMeans DEF CountInv
  <2>. QED BY <1>4, <2>1, <2>2, DropMeans
<1>. QED BY <1>1, <1>2, <1>3, <1>4, EntryKept

\* Every step keeps the list ahead of the ids that were new.
LEMMA IdsStep ==
  ASSUME TypeOK, TypeOK', IdsInv, [Next]_vars
  PROVE  IdsInv'
<1>. USE Numbers
<1>0. admitted \in [0..Day -> Nat] /\ admitted' \in [0..Day -> Nat]
  BY DEF TypeOK
<1>1. CASE UNCHANGED blockerVars
  BY <1>1 DEF blockerVars, IdsInv
<1>2. ASSUME NEW id \in Id, Register(id) PROVE IdsInv'
  <2>1. CASE FirstOfAddress(id)
    <3>1. /\ blocker' # NoEntry /\ blocker'.ids = {} /\ blocker'.idsAge = 0
          /\ \A a \in 0..Day : admitted'[a] = 1
      BY <1>0, <2>1, FirstMeans DEF IdsInv
    <3>. QED BY <3>1, FS_EmptySet DEF IdsInv
  <2>2. ASSUME blocker \in Blocker, blocker' \in Blocker
        PROVE  /\ blocker # NoEntry /\ blocker' # NoEntry
               /\ IsFiniteSet(blocker.ids) /\ Cardinality(blocker.ids) \in Nat
               /\ Cardinality(blocker.ids) <= MaxIds + 1
               /\ IsFiniteSet(Ids) /\ Cardinality(Ids) \in Nat /\ Ids \subseteq blocker.ids
               /\ \A a \in 0..Day : admitted[a] <= Cardinality(Ids) + 1
    <3>1. blocker # NoEntry /\ blocker' # NoEntry
      BY <2>2, EntriesDiffer
    <3>2. /\ IsFiniteSet(blocker.ids) /\ Cardinality(blocker.ids) \in Nat
          /\ Cardinality(blocker.ids) <= MaxIds + 1
      BY <3>1, FS_CardinalityType DEF IdsInv
    <3>3. IsFiniteSet(Ids) /\ Cardinality(Ids) \in Nat /\ Ids \subseteq blocker.ids
      BY <3>2, FS_EmptySet DEF Ids
    <3>4. \A a \in 0..Day : admitted[a] <= Cardinality(Ids) + 1
      <4>1. blocker.idsAge \in Nat
        BY <2>2 DEF Blocker
      <4>2. CASE blocker.idsAge > Day
        <5>1. \A a \in 0..Day : admitted[a] = 0
          BY <3>1, <4>1, <4>2 DEF IdsInv
        <5>. QED BY <3>3, <5>1
      <4>3. CASE ~(blocker.idsAge > Day)
        BY <3>1, <4>3 DEF IdsInv, Ids
      <4>. QED BY <4>2, <4>3
    <3>. QED BY <3>1, <3>2, <3>3, <3>4
  <2>3. CASE /\ blocker \in Blocker /\ blocker' \in Blocker
             /\ blocker'.ids = blocker.ids /\ blocker'.idsAge = blocker.idsAge
             /\ admitted' = admitted
    BY <2>2, <2>3 DEF IdsInv
  <2>4. CASE /\ blocker \in Blocker /\ blocker' \in Blocker
             /\ Cardinality(Ids) <= MaxIds /\ blocker'.idsAge = 0
             /\ blocker'.ids = Ids /\ admitted' = admitted
    BY <2>2, <2>4 DEF IdsInv
  <2>5. CASE /\ blocker \in Blocker /\ blocker' \in Blocker
             /\ Cardinality(Ids) <= MaxIds /\ blocker'.idsAge = 0
             /\ id \notin blocker.ids /\ blocker'.ids = Ids \cup {id}
             /\ admitted' = [a \in 0..Day |-> admitted[a] + 1]
    <3>1. /\ IsFiniteSet(Ids \cup {id})
          /\ Cardinality(Ids \cup {id}) = Cardinality(Ids) + 1
      BY <2>2, <2>5, FS_AddElement
    <3>2. \A a \in 0..Day : admitted'[a] <= (Cardinality(Ids) + 1) + 1
      BY <1>0, <2>2, <2>5
    <3>3. /\ IsFiniteSet(blocker'.ids) /\ Cardinality(blocker'.ids) = Cardinality(Ids) + 1
          /\ blocker' # NoEntry
      BY <2>2, <2>5, <3>1
    <3>4. \A a \in 0..Day : admitted'[a] <= Cardinality(blocker'.ids) + 1
      BY <3>2, <3>3
    <3>5. Cardinality(blocker'.ids) <= MaxIds + 1
      BY <2>2, <2>5, <3>3
    <3>6. \A a \in 0..Day : ~(a < blocker'.idsAge)
      BY <2>5
    <3>. QED BY <3>3, <3>4, <3>5, <3>6 DEF IdsInv
  <2>. QED BY <1>1, <1>2, <2>1, <2>3, <2>4, <2>5, RegisterMeans
<1>3. CASE Tick
  <2>1. CASE blocker = NoEntry
    BY <1>0, <1>3, <2>1, TickMeans DEF IdsInv
  <2>2. CASE blocker # NoEntry
    <3>1. /\ blocker.idsAge \in 0..(Day + 1)
          /\ IsFiniteSet(blocker.ids) /\ Cardinality(blocker.ids) \in Nat
      BY <2>2, FS_CardinalityType DEF TypeOK, Blocker, IdsInv
    <3>2. /\ blocker' # NoEntry /\ blocker'.ids = blocker.ids
          /\ blocker'.idsAge \in {blocker.idsAge, blocker.idsAge + 1}
          /\ blocker'.idsAge \in 0..(Day + 1)
          /\ blocker'.idsAge = blocker.idsAge => blocker.idsAge = Day + 1
      BY <1>3, <2>2, <3>1, TickMeans DEF Older
    <3>3. ASSUME NEW a \in 0..Day
          PROVE  /\ a < blocker'.idsAge => admitted'[a] = 0
                 /\ admitted'[a] <= Cardinality(blocker.ids) + 1
      <4>1. CASE a = 0
        BY <1>3, <3>1, <4>1, TickMeans
      <4>2. CASE a # 0
        <5>1. a - 1 \in 0..Day /\ admitted'[a] = admitted[a - 1]
          BY <1>3, <4>2, TickMeans
        <5>2. a < blocker'.idsAge => a - 1 < blocker.idsAge
          BY <3>1, <3>2
        <5>. QED BY <2>2, <5>1, <5>2 DEF IdsInv
      <4>. QED BY <4>1, <4>2
    <3>. QED BY <2>2, <3>2, <3>3 DEF IdsInv
  <2>. QED BY <2>1, <2>2
<1>4. CASE RetainBlocker \/ RemoveBlocker
  <2>1. CASE admitted' = [a \in 0..Day |-> 0]
    BY <1>4, <2>1, DropMeans DEF IdsInv
  <2>2. CASE blocker # NoEntry /\ blocker.idsAge > Day /\ admitted' = admitted
    <3>1. blocker.idsAge \in Nat
      BY <2>2 DEF TypeOK, Blocker
    <3>2. \A a \in 0..Day : a < blocker.idsAge
      BY <2>2, <3>1
    <3>. QED BY <1>4, <2>2, <3>2, DropMeans DEF IdsInv
  <2>. QED BY <1>4, <2>1, <2>2, DropMeans
<1>. QED BY <1>1, <1>2, <1>3, <1>4, EntryKept

\* However registrations, commands and time are mixed, in no window of
\* IP_BLOCK_DUR do more pass than the limit, the one that exceeds it and the
\* one that makes the entry.
THEOREM WindowCorrect == Spec => []WindowBound
<1>1. Init => CountInv
  BY Numbers DEF Init, CountInv
<1>2. TypeOK /\ CountInv => WindowBound
  <2>. SUFFICES ASSUME TypeOK, CountInv PROVE WindowBound
    OBVIOUS
  <2>1. BlockDur \in 0..BlockDur /\ accepted[BlockDur] \in Nat
    BY Numbers DEF TypeOK
  <2>2. blocker # NoEntry => blocker.count \in 0..(MaxCount + 1)
    BY DEF TypeOK, Blocker
  <2>. QED BY <2>1, <2>2, Numbers DEF CountInv, WindowBound
<1>. QED BY <1>1, <1>2, CountStep, TypeCorrect, PTL DEF Spec

\* In no window of a day are more ids new than the limit, the one that exceeds
\* it and the one that makes the entry, though the list is cleared, and kept
\* beyond its day by ids that are on it.
THEOREM NewIdsCorrect == Spec => []NewIdsBound
<1>1. Init => IdsInv
  BY Numbers DEF Init, IdsInv
<1>2. TypeOK /\ IdsInv => NewIdsBound
  <2>. SUFFICES ASSUME TypeOK, IdsInv PROVE NewIdsBound
    OBVIOUS
  <2>1. Day \in 0..Day /\ admitted[Day] \in Nat
    BY Numbers DEF TypeOK
  <2>2. blocker # NoEntry => Cardinality(blocker.ids) \in Nat
    BY FS_CardinalityType DEF IdsInv
  <2>. QED BY <2>1, <2>2, Numbers DEF IdsInv, NewIdsBound
<1>. QED BY <1>1, <1>2, IdsStep, TypeCorrect, PTL DEF Spec
=============================================================================
