----------------------------- MODULE MCIpTables -----------------------------
(* IpTables on a small instance. *)
EXTENDS IpTables, TLC

Symmetry == Permutations(Id) \cup Permutations(Ip)
=============================================================================
