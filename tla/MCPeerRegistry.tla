--------------------------- MODULE MCPeerRegistry ---------------------------
(* PeerRegistry on small instances: values, and the symmetry of safety runs. *)
EXTENDS PeerRegistry, TLC

CONSTANTS ip1, lo, u1, u2, k1, k2

\* A plain address, one a websocket proxy reported (port zero), the loopback.
Direct == [ip |-> ip1, port |-> 1]
Proxied == [ip |-> ip1, port |-> 0]
Local == [ip |-> lo, port |-> 1]
AddrOne == {Direct}
AddrAll == {Direct, Proxied, Local}

\* A machine, its second key, and another machine with that key.
ClaimOne == {[uuid |-> u1, pk |-> k1]}
ClaimAll == {[uuid |-> u1, pk |-> k1], [uuid |-> u1, pk |-> k2],
               [uuid |-> u2, pk |-> k2]}

Symmetry == Permutations(Handle) \cup Permutations(Guid)
              \cup Permutations(Task \ UdpTasks) \cup Permutations(Id)
=============================================================================
