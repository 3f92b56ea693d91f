--------------------------- MODULE IdentityStore ---------------------------
(***************************************************************************)
(* What hbbs promises its users about identities: an id belongs to the     *)
(* machine that first registered it, for good; only that machine's key can *)
(* be replaced.  owner[i] is the machine (uuid) of id i, key[i] its public *)
(* key.  Restarts, concurrent registrations and database errors are no     *)
(* excuse: they may lose a step, never undo or misdirect one.              *)
(***************************************************************************)
CONSTANTS Id, Uuid, Pk, NoUuid, NoPk

VARIABLES owner, key

vars == <<owner, key>>

Init ==
  /\ owner = [i \in Id |-> NoUuid]
  /\ key = [i \in Id |-> NoPk]

\* A first registration.
Bind(i, u, k) ==
  /\ owner[i] = NoUuid
  /\ owner' = [owner EXCEPT ![i] = u]
  /\ key' = [key EXCEPT ![i] = k]

\* A later one: the owner stays.
Rekey(i, k) ==
  /\ owner[i] # NoUuid
  /\ key' = [key EXCEPT ![i] = k]
  /\ UNCHANGED owner

Next ==
  \E i \in Id, k \in Pk : Rekey(i, k) \/ \E u \in Uuid : Bind(i, u, k)

Spec == Init /\ [][Next]_vars
=============================================================================
