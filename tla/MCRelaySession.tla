--------------------------- MODULE MCRelaySession ---------------------------
(* RelaySession on a small instance. *)
EXTENDS RelaySession

\* A client on a websocket has found one on TCP.
WsStream == {"stream"}

\* Two messages from one end, so that order can go wrong; an answer from the other.
TwoAndOne == [e \in {"stream", "peer"} |-> IF e = "stream" THEN 2 ELSE 1]
=============================================================================
