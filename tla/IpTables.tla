------------------------------ MODULE IpTables ------------------------------
(***************************************************************************)
(* hbbs: what it counts of registrations.  IP_BLOCKER limits how often an  *)
(* address registers and with how many ids (check_ip_blocker, command ib); *)
(* IP_CHANGES lists ids that move between addresses (handle_register_pk,   *)
(* command ic), src/src/rendezvous_server.rs.                              *)
(*                                                                         *)
(* Entries do not depend on each other: there is one address and one id    *)
(* here.  An Instant is its age in units in which the durations below are  *)
(* counted, capped where nobody tells larger ages apart.                   *)
(***************************************************************************)
EXTENDS Naturals, FiniteSets

CONSTANTS Id,        \* ids registered from the one address
          Ip,        \* addresses the one id moves between
          NoEntry,
          MaxCount, MaxIds,      \* 30 and 300: more than that is refused
          BlockDur, Day,         \* IP_BLOCK_DUR, DAY_SECONDS
          ChangeDur              \* IP_CHANGE_DUR

ASSUME IpTablesAssumption ==
  /\ {MaxCount, MaxIds, BlockDur, Day, ChangeDur} \subseteq Nat
  /\ NoEntry \notin [count : Nat, age : Nat, ids : SUBSET Id, idsAge : Nat]
                      \cup [age : Nat, ips : SUBSET Ip]

VARIABLES
  blocker,   \* the address's entry of IP_BLOCKER
  changes,   \* the id's entry of IP_CHANGES
  at,        \* info.ip of the id's record
  accepted,  \* history: registrations that passed, of at most each age,
  admitted,  \* those with an id not on the list
  movedTo    \* history: age of the id's last change to an address

blockerVars == <<blocker, accepted, admitted>>
changesVars == <<changes, at, movedTo>>
vars == <<blocker, accepted, admitted, changes, at, movedTo>>

ChangeAge == 0..(2 * ChangeDur + 1)
Blocker == [count : 0..(MaxCount + 1), age : 0..(BlockDur + 1),
            ids : SUBSET Id, idsAge : 0..(Day + 1)]
Changes == [age : ChangeAge, ips : SUBSET Ip]

Init ==
  /\ blocker = NoEntry /\ changes = NoEntry
  /\ at \in Ip
  /\ accepted = [a \in 0..BlockDur |-> 0]
  /\ admitted = [a \in 0..Day |-> 0]
  /\ movedTo = [p \in Ip |-> 2 * ChangeDur + 1]

-----------------------------------------------------------------------------
(* check_ip_blocker *)

NoteAccepted(new) ==
  /\ accepted' = [a \in 0..BlockDur |-> accepted[a] + 1]
  /\ admitted' = [a \in 0..Day |-> admitted[a] + IF new THEN 1 ELSE 0]

FirstOfAddress(id) ==
  /\ blocker = NoEntry
  /\ blocker' = [count |-> 0, age |-> 0, ids |-> {}, idsAge |-> 0]
  /\ NoteAccepted(TRUE)

\* Mutant: the day ends a unit too early.
IdsSoon == IF blocker.idsAge >= Day THEN {} ELSE blocker.ids

\* What still counts of earlier registrations.
Count == IF blocker.age > BlockDur THEN 0 ELSE blocker.count
Ids == IF blocker.idsAge > Day THEN {} ELSE blocker.ids

Pass(ids, idsAge) ==
  blocker' = [count |-> Count + 1, age |-> 0, ids |-> ids, idsAge |-> idsAge]

Known(id) == id \in blocker.ids

\* The list is full: only its ids pass, and its time is not set anew.
FullList(id) ==
  /\ Cardinality(Ids) > MaxIds
  /\ Pass(blocker.ids, blocker.idsAge)
  /\ IF Known(id) THEN NoteAccepted(FALSE) ELSE UNCHANGED <<accepted, admitted>>

\* An id that was known when the list was cleared is not put on the new one.
OpenList(id) ==
  /\ Cardinality(Ids) <= MaxIds
  /\ Pass(Ids \cup (IF Known(id) THEN {} ELSE {id}), 0)
  /\ NoteAccepted(~Known(id))

CheckIpBlocker(id) ==
  \/ FirstOfAddress(id)
  \/ /\ blocker # NoEntry
     /\ \/ Count > MaxCount /\ UNCHANGED blockerVars
        \/ Count <= MaxCount /\ (FullList(id) \/ OpenList(id))

Register(id) == CheckIpBlocker(id) /\ UNCHANGED changesVars

\* Mutant: one window that has passed is enough.
RetainBoth ==
  /\ blocker # NoEntry
  /\ blocker.age > BlockDur \/ blocker.idsAge > Day
  /\ blocker' = NoEntry
  /\ UNCHANGED <<accepted, admitted, changesVars>>

\* ip-blocker: entries whose windows have both passed are dropped.
RetainBlocker ==
  /\ blocker # NoEntry
  /\ blocker.age > BlockDur /\ blocker.idsAge > Day
  /\ blocker' = NoEntry
  /\ UNCHANGED <<accepted, admitted, changesVars>>

\* ip-blocker <ip> -
RemoveBlocker ==
  /\ blocker # NoEntry
  /\ blocker' = NoEntry
  /\ accepted' = [a \in 0..BlockDur |-> 0]
  /\ admitted' = [a \in 0..Day |-> 0]
  /\ UNCHANGED changesVars

-----------------------------------------------------------------------------
(* handle_register_pk *)

\* Mutant: an old entry is continued.
NoteChangeOn(ip) ==
  changes' = IF changes = NoEntry THEN [age |-> 0, ips |-> {ip}]
                                  ELSE [changes EXCEPT !.ips = @ \cup {ip}]

NoteChange(ip) ==
  changes' = IF changes = NoEntry \/ changes.age > ChangeDur
             THEN [age |-> 0, ips |-> {ip}]
             ELSE [changes EXCEPT !.ips = @ \cup {ip}]

Move(ip) ==
  /\ ip # at
  /\ at' = ip
  /\ NoteChange(ip)
  /\ movedTo' = [movedTo EXCEPT ![ip] = 0]
  /\ UNCHANGED blockerVars

Listed == changes # NoEntry /\ changes.age < 2 * ChangeDur /\ Cardinality(changes.ips) > 1

\* ip-changes: entries that are not listed are dropped.
RetainChanges ==
  /\ changes # NoEntry /\ ~Listed
  /\ changes' = NoEntry
  /\ UNCHANGED <<at, movedTo, blockerVars>>

\* ip-changes <id> -
RemoveChanges ==
  /\ changes # NoEntry
  /\ changes' = NoEntry
  /\ UNCHANGED <<at, movedTo, blockerVars>>

-----------------------------------------------------------------------------
Older(age, cap) == IF age < cap THEN age + 1 ELSE cap
Shift(f) == [a \in DOMAIN f |-> IF a = 0 THEN 0 ELSE f[a - 1]]

Tick ==
  /\ blocker' = IF blocker = NoEntry THEN NoEntry
                ELSE [blocker EXCEPT !.age = Older(@, BlockDur + 1),
                                     !.idsAge = Older(@, Day + 1)]
  /\ changes' = IF changes = NoEntry THEN NoEntry
                ELSE [changes EXCEPT !.age = Older(@, 2 * ChangeDur + 1)]
  /\ accepted' = Shift(accepted) /\ admitted' = Shift(admitted)
  /\ movedTo' = [p \in Ip |-> Older(movedTo[p], 2 * ChangeDur + 1)]
  /\ UNCHANGED at

Next ==
  \/ \E id \in Id : Register(id)
  \/ RetainBlocker \/ RemoveBlocker
  \/ \E ip \in Ip : Move(ip)
  \/ RetainChanges \/ RemoveChanges
  \/ Tick

Spec == Init /\ [][Next]_vars

-----------------------------------------------------------------------------
(* Properties. *)

\* Types; counts and ages stay within their limits.
TypeOK ==
  /\ blocker \in Blocker \cup {NoEntry} /\ changes \in Changes \cup {NoEntry}
  /\ at \in Ip
  /\ accepted \in [0..BlockDur -> Nat] /\ admitted \in [0..Day -> Nat]
  /\ movedTo \in [Ip -> ChangeAge]

\* In no window of IP_BLOCK_DUR, wherever it begins, does an address register
\* more often than the limit, the one that exceeds it and the one that makes
\* its entry; listing the entries changes nothing about that.
WindowBound == accepted[BlockDur] <= MaxCount + 2

\* In no window of a day does an address bring more new ids than the limit,
\* the one that exceeds it, and the one that makes its entry.
NewIdsBound == admitted[Day] <= MaxIds + 2

\* What ip-changes lists has moved: to each of the addresses of the entry, and
\* to all of them within IP_CHANGE_DUR of its time.
ListedReallyMoved ==
  Listed => \A p \in changes.ips :
              movedTo[p] <= changes.age /\ changes.age - movedTo[p] <= ChangeDur
=============================================================================
