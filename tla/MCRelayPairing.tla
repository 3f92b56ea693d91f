--------------------------- MODULE MCRelayPairing ---------------------------
(* RelayPairing on a small instance. *)
EXTENDS RelayPairing, TLC

CONSTANTS c1, c2, c3, direct, proxied

\* c2 and c3 come through the same reverse proxy.
SharedLabel == (c1 :> direct) @@ (c2 :> proxied) @@ (c3 :> proxied)
=============================================================================
