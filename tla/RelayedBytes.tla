---------------------------- MODULE RelayedBytes ----------------------------
(***************************************************************************)
(* What a session of hbbr promises its two clients: each hears what the    *)
(* other said, in order, nothing left out and nothing made up.             *)
(***************************************************************************)
EXTENDS Naturals, Sequences

CONSTANT Data

VARIABLES said, heard   \* per end: the data its client has written, has read

vars == <<said, heard>>

End == {"stream", "peer"}
Other(e) == IF e = "stream" THEN "peer" ELSE "stream"

Init ==
  /\ said = [e \in End |-> <<>>]
  /\ heard = [e \in End |-> <<>>]

Say(e, d) ==
  /\ said' = [said EXCEPT ![e] = Append(@, d)]
  /\ UNCHANGED heard

Hear(e) ==
  /\ Len(heard[e]) < Len(said[Other(e)])
  /\ heard' = [heard EXCEPT ![e] = Append(@, said[Other(e)][Len(@) + 1])]
  /\ UNCHANGED said

Next == \E e \in End : Hear(e) \/ \E d \in Data : Say(e, d)

Spec == Init /\ [][Next]_vars
=============================================================================
