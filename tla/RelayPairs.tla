----------------------------- MODULE RelayPairs -----------------------------
(***************************************************************************)
(* What hbbr promises: a connection that asked for a uuid is relayed to    *)
(* one other connection that asked for the same uuid, or to none; a pair   *)
(* lasts until it parts, and nobody joins a pair or changes partners.      *)
(***************************************************************************)
CONSTANTS Conn, Uuid, NoUuid

VARIABLES asked,   \* the uuid a connection asked for
          pairs    \* the connections relayed to each other

vars == <<asked, pairs>>

Init ==
  /\ asked = [c \in Conn |-> NoUuid]
  /\ pairs = {}

Paired(c) == \E p \in pairs : c \in p

Ask(c, u) ==
  /\ asked[c] = NoUuid /\ ~Paired(c)
  /\ asked' = [asked EXCEPT ![c] = u]
  /\ UNCHANGED pairs

Leave(c) ==
  /\ ~Paired(c)
  /\ asked' = [asked EXCEPT ![c] = NoUuid]
  /\ UNCHANGED pairs

\* d asks for the uuid c waits under.
Meet(c, d, u) ==
  /\ c # d /\ ~Paired(c) /\ ~Paired(d)
  /\ asked[c] = u /\ asked[d] = NoUuid
  /\ asked' = [asked EXCEPT ![d] = u]
  /\ pairs' = pairs \cup {{c, d}}

\* d leaves its partner c, who may have given up the uuid already.
Part(c, d) ==
  /\ {c, d} \in pairs
  /\ pairs' = pairs \ {{c, d}}
  /\ \E a \in {asked[c], NoUuid} :
       asked' = [asked EXCEPT ![d] = NoUuid, ![c] = a]

Next ==
  \E c \in Conn :
    \/ Leave(c)
    \/ \E u \in Uuid : Ask(c, u)
    \/ \E d \in Conn : Part(c, d) \/ \E u \in Uuid : Meet(c, d, u)

Spec == Init /\ [][Next]_vars
=============================================================================
