------------------------------ MODULE MCPunchHole ------------------------------
(* PunchHole on small instances. *)
EXTENDS PunchHole, TLC

CONSTANTS s1, s2, s3, in1, in2, out1, out2

\* Of three names the first is this machine; three does not divide the range
\* of the counter, two does.
Lists == {<<>>, <<s1>>, <<s2, s1>>, <<s3, s1, s2>>}

\* Addresses on one side of the border are alike.
Symmetry == Permutations({in1, in2}) \cup Permutations({out1, out2})
=============================================================================
