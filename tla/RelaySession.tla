---------------------------- MODULE RelaySession ----------------------------
(***************************************************************************)
(* hbbr: relay (src/src/relay_server.rs), one session between the stream   *)
(* of the connection that found a partner and the partner's, "peer".       *)
(*                                                                         *)
(* One task serves both directions: a select! reads from either stream or  *)
(* takes the tick of a timer, and what was read is written before the next *)
(* select!.  While the write waits for room in a socket the task neither   *)
(* reads nor looks at the clock.                                           *)
(*                                                                         *)
(* Left out: the limiters, which only delay the write, and the figures of  *)
(* USAGE.  Where a message ends is not kept by raw streams, and not here:  *)
(* what counts is the order: a client numbers its messages.  How sessions  *)
(* begin, and what is listed and dropped at their end, is RelayPairing's.  *)
(***************************************************************************)
EXTENDS Integers, Sequences

CONSTANTS Control,    \* a websocket frame without data, a ping for one
          Ws,         \* the ends that are websockets
          Room,       \* how much written data a socket holds unread
          MaxSaid     \* bound, per end: messages its client writes

End == {"stream", "peer"}
Other(e) == IF e = "stream" THEN "peer" ELSE "stream"

\* What clients write: the n-th message of an end.
Data == UNION {{e} \X (1..MaxSaid[e]) : e \in End}

ASSUME SessionAssumption ==
  /\ Control \notin Data
  /\ Ws \subseteq {"stream", "peer"}
  /\ Room \in Nat \ {0}
  /\ MaxSaid \in [{"stream", "peer"} -> Nat]

VARIABLES
  pc,       \* "select", "write", "account", or over, with the reason
  held,     \* the message read last: where from, and what
  inbox,    \* per end: written by its client, not read by relay yet
  outbox,   \* per end: written by relay, not read by the client yet
  client,   \* per end: "here", "closed" or "reset"
  stale,    \* last_recv_time is more than 30 s ago
  blocked,  \* the ip of stream is in BLOCKLIST
  said, heard  \* history: data clients have written and read

vars == <<pc, held, inbox, outbox, client, stale, blocked, said, heard>>

Over == {"closed", "failed", "timeout", "blocked"}
Nothing == [from |-> "stream", msg |-> Control]

Init ==
  /\ pc = "select"
  /\ held = Nothing
  /\ inbox = [e \in End |-> <<>>]
  /\ outbox = [e \in End |-> <<>>]
  /\ client = [e \in End |-> "here"]
  /\ stale = FALSE
  /\ blocked = FALSE
  /\ said = [e \in End |-> <<>>]
  /\ heard = [e \in End |-> <<>>]

-----------------------------------------------------------------------------
(* relay *)

\* peer.recv(), stream.recv(): a message, which may be without data.
Recv(e) ==
  /\ pc = "select" /\ inbox[e] # <<>>
  /\ held' = [from |-> e, msg |-> Head(inbox[e])]
  /\ inbox' = [inbox EXCEPT ![e] = Tail(@)]
  /\ stale' = FALSE
  /\ pc' = IF Head(inbox[e]) = Control THEN "account" ELSE "write"
  /\ UNCHANGED <<outbox, client, blocked, said, heard>>

\* Mutants: a broken connection is not noticed; the end of a stream is seen
\* before what was written ahead of it.
RecvEndOrderly(e) ==
  /\ pc = "select" /\ inbox[e] = <<>> /\ client[e] = "closed"
  /\ pc' = "closed"
  /\ UNCHANGED <<held, inbox, outbox, client, stale, blocked, said, heard>>

RecvEndEarly(e) ==
  /\ pc = "select" /\ client[e] # "here"
  /\ pc' = "closed"
  /\ UNCHANGED <<held, inbox, outbox, client, stale, blocked, said, heard>>

\* The stream has ended, or failed.
RecvEnd(e) ==
  /\ pc = "select" /\ inbox[e] = <<>> /\ client[e] # "here"
  /\ pc' = "closed"
  /\ UNCHANGED <<held, inbox, outbox, client, stale, blocked, said, heard>>

\* Mutant: the data goes back where it came from.
TargetBack == held.from

\* Where held goes.
Target == Other(held.from)

\* Mutant: what finds no room is dropped.
WriteOrDrop ==
  /\ pc = "write" /\ client[Target] = "here"
  /\ outbox' = IF Len(outbox[Target]) = Room THEN outbox
               ELSE [outbox EXCEPT ![Target] = Append(@, held.msg)]
  /\ pc' = "account"
  /\ UNCHANGED <<held, inbox, client, stale, blocked, said, heard>>

\* send_raw(..).await, once the socket has room.
Write ==
  /\ pc = "write" /\ client[Target] = "here" /\ Len(outbox[Target]) < Room
  /\ outbox' = [outbox EXCEPT ![Target] = Append(@, held.msg)]
  /\ pc' = "account"
  /\ UNCHANGED <<held, inbox, client, stale, blocked, said, heard>>

\* Nobody is there to read: the write fails, or nobody will know.
WriteToNobody ==
  /\ pc = "write" /\ client[Target] # "here"
  /\ pc' \in {"failed", "account"}
  /\ UNCHANGED <<held, inbox, outbox, client, stale, blocked, said, heard>>

\* Mutant: the clock is not looked at.
TickOnly ==
  /\ pc = "select"
  /\ pc' = "account"
  /\ UNCHANGED <<held, inbox, outbox, client, stale, blocked, said, heard>>

\* timer.tick()
Tick ==
  /\ pc = "select"
  /\ pc' = IF stale THEN "timeout" ELSE "account"
  /\ UNCHANGED <<held, inbox, outbox, client, stale, blocked, said, heard>>

\* After each select!: a second has not passed since the last look...
Account ==
  /\ pc = "account"
  /\ pc' = "select"
  /\ UNCHANGED <<held, inbox, outbox, client, stale, blocked, said, heard>>

\* Mutant: BLOCKLIST is not read again.
AccountSecondOnly ==
  /\ pc = "account"
  /\ pc' = "select"
  /\ UNCHANGED <<held, inbox, outbox, client, stale, blocked, said, heard>>

\* ... or it has, and the ip is not, or is, blocked.
AccountSecond ==
  /\ pc = "account"
  /\ pc' = IF blocked THEN "blocked" ELSE "select"
  /\ UNCHANGED <<held, inbox, outbox, client, stale, blocked, said, heard>>

-----------------------------------------------------------------------------
(* Clients, operator and time. *)

Say(e) ==
  /\ pc \notin Over /\ client[e] = "here" /\ Len(said[e]) < MaxSaid[e]
  /\ said' = [said EXCEPT ![e] = Append(@, <<e, Len(@) + 1>>)]
  /\ inbox' = [inbox EXCEPT ![e] = Append(@, <<e, Len(said[e]) + 1>>)]
  /\ UNCHANGED <<pc, held, outbox, client, stale, blocked, heard>>

\* At most one such frame at a time.
SayControl(e) ==
  /\ pc \notin Over /\ client[e] = "here" /\ e \in Ws
  /\ Control \notin {inbox[e][i] : i \in DOMAIN inbox[e]}
  /\ inbox' = [inbox EXCEPT ![e] = Append(@, Control)]
  /\ UNCHANGED <<pc, held, outbox, client, stale, blocked, said, heard>>

\* What relay has written can be read when the session is over, too.
Hear(e) ==
  /\ client[e] = "here" /\ outbox[e] # <<>>
  /\ heard' = [heard EXCEPT ![e] = Append(@, Head(outbox[e]))]
  /\ outbox' = [outbox EXCEPT ![e] = Tail(@)]
  /\ UNCHANGED <<pc, held, inbox, client, stale, blocked, said>>

\* Who leaves a session that is over, and who is blocked then, is not followed.
Close(e) ==
  /\ pc \notin Over /\ client[e] = "here"
  /\ client' = [client EXCEPT ![e] = "closed"]
  /\ UNCHANGED <<pc, held, inbox, outbox, stale, blocked, said, heard>>

\* The connection breaks; what was under way is lost.
Reset(e) ==
  /\ pc \notin Over /\ client[e] = "here"
  /\ client' = [client EXCEPT ![e] = "reset"]
  /\ inbox' = [inbox EXCEPT ![e] = <<>>]
  /\ UNCHANGED <<pc, held, outbox, stale, blocked, said, heard>>

\* blocklist-add, blocklist-remove
Blocklist ==
  /\ pc \notin Over
  /\ blocked' = ~blocked
  /\ UNCHANGED <<pc, held, inbox, outbox, client, stale, said, heard>>

\* 30 s pass: nothing arrives and nobody goes, or relay waits in a write.
Silence ==
  /\ ~stale
  /\ \/ pc \in {"select", "account"} /\ \A e \in End : inbox[e] = <<>> /\ client[e] = "here"
     \/ pc = "write"
  /\ stale' = TRUE
  /\ UNCHANGED <<pc, held, inbox, outbox, client, blocked, said, heard>>

-----------------------------------------------------------------------------
Session ==
  \/ \E e \in End : Recv(e) \/ RecvEnd(e)
  \/ Write \/ WriteToNobody
  \/ Tick \/ Account \/ AccountSecond

Environment ==
  \/ \E e \in End : Say(e) \/ SayControl(e) \/ Hear(e) \/ Close(e) \/ Reset(e)
  \/ Blocklist \/ Silence

Next == Session \/ Environment

Spec == Init /\ [][Next]_vars

\* The task runs when it can; select! picks among ready branches at random, the
\* timer ticks every 3 s and finds a second gone since the last look; 30 s pass
\* for a session that is silent for ever.  What clients do is up to them.
Fairness ==
  /\ \A e \in End : SF_vars(Recv(e)) /\ SF_vars(RecvEnd(e))
  /\ WF_vars(Write) /\ WF_vars(WriteToNobody) /\ WF_vars(Account)
  /\ SF_vars(Tick) /\ SF_vars(AccountSecond)
  /\ WF_vars(Silence)

FairSpec == Spec /\ Fairness

-----------------------------------------------------------------------------
(* Properties. *)

Message == Data \cup {Control}

\* Types; a socket holds no more than it has room for.
TypeOK ==
  /\ pc \in {"select", "write", "account"} \cup Over
  /\ held \in [from : End, msg : Message]
  /\ inbox \in [End -> Seq(Message)]
  /\ outbox \in [End -> Seq(Data)]
  /\ client \in [End -> {"here", "closed", "reset"}]
  /\ stale \in BOOLEAN /\ blocked \in BOOLEAN
  /\ said \in [End -> Seq(Data)] /\ heard \in [End -> Seq(Data)]
  /\ \A e \in End : Len(outbox[e]) <= Room

\* What relay has written to a client, which may have read it.
Wrote(e) == heard[e] \o outbox[e]

\* Whatever ends a session because a client closed its stream has first
\* written all that this client said to one that is still there; only a break
\* of the connection may swallow it.
LastWordsAreWritten ==
  pc = "closed" =>
    \E e \in End :
      /\ client[e] # "here"
      /\ client[e] = "closed" /\ client[Other(e)] = "here" => Wrote(Other(e)) = said[e]

\* The write waits for a client that does not read.
Stalled == pc = "write" /\ client[Target] = "here" /\ Len(outbox[Target]) = Room

\* As long as no client stops reading for ever a session ends when a client has
\* gone; the one that stays need not do anything else.
GoneEndsSession ==
  []<>~Stalled => \A e \in End : client[e] # "here" ~> pc \in Over

\* Under the same condition the operator's block ends the session.
BlockEndsSession == []<>~Stalled => (<>[]blocked => <>(pc \in Over))

\* And what a client says is written to the other one unless the session ends,
\* however much the other one has to say.
SaidIsWritten ==
  []<>~Stalled =>
    \A d \in Data :
      Len(said[d[1]]) >= d[2] ~> Len(Wrote(Other(d[1]))) >= d[2] \/ pc \in Over

\* A session in which nothing arrives any more ends.
SilenceEndsSession ==
  []<>~Stalled => (<>[](\A e \in End : inbox[e] = <<>>) => <>(pc \in Over))

Bytes == INSTANCE RelayedBytes

\* The session implements the two queues its clients take it for.
BytesSpec == Bytes!Spec
=============================================================================
