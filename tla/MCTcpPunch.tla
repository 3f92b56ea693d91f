----------------------------- MODULE MCTcpPunch -----------------------------
(* TcpPunch on small instances. *)
EXTENDS TcpPunch, TLC

CONSTANTS a1, a2, w1, w2, addrA, addrW

\* a1 and a2 come from one address, one after the other; w1 and w2 come
\* through the same reverse proxy.
MixedAddresses == (a1 :> addrA) @@ (a2 :> addrA) @@ (w1 :> addrW) @@ (w2 :> addrW)

\* Connections of one address are alike.
Symmetry == Permutations({a1, a2}) \cup Permutations({w1, w2})
=============================================================================
