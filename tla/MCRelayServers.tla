--------------------------- MODULE MCRelayServers ---------------------------
(* RelayServers on small instances. *)
EXTENDS RelayServers

CONSTANTS s1, s2, s3

\* A pair, another pair and a single server.
Lists == {<<s1, s2>>, <<s3, s2>>, <<s3>>}
=============================================================================
