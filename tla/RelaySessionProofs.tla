-------------------------- MODULE RelaySessionProofs --------------------------
(***************************************************************************)
(* RelaySession, for any number of messages and any room in a socket: what *)
(* clients hear is what was said, in order, and the last words of one that *)
(* leaves are written.                                                     *)
(*                                                                         *)
(* The invariant counts.  A client numbers its messages, so each place a   *)
(* message passes through, from inbox to what was heard, says by its       *)
(* length and by the messages without data which numbers it must hold.     *)
(***************************************************************************)
EXTENDS RelaySession, SequenceTheorems, TLAPS

\* How long the places on the way are.
Said(e) == Len(said[e])
Left(e) == Len(inbox[e])
Out(e) == Len(outbox[e])
Heard(e) == Len(heard[e])

\* Data of e that was written to the other client, read by it or not.
Sent(e) == Heard(Other(e)) + Out(Other(e))

\* A message without data, of which there is at most one, is behind the i-th.
ControlAfter(e, i) == \E j \in DOMAIN inbox[e] : j > i /\ inbox[e][j] = Control
Shift(e, i) == IF ControlAfter(e, i) THEN 1 ELSE 0

ClientOrder(e) ==
  /\ \A i \in 1..Said(e) : said[e][i] = <<e, i>>
  /\ \A i \in 1..Heard(Other(e)) : heard[Other(e)][i] = <<e, i>>

OutboxOrder(e) ==
  /\ \A i \in 1..Out(Other(e)) : outbox[Other(e)][i] = <<e, Heard(Other(e)) + i>>
  /\ Sent(e) <= Said(e)

InboxOrder(e) ==
  /\ \A i, j \in 1..Left(e) : inbox[e][i] = Control /\ inbox[e][j] = Control => i = j
  /\ \A i \in 1..Left(e) : inbox[e][i] # Control =>
       inbox[e][i] = <<e, Said(e) - Left(e) + i + Shift(e, i)>>
  /\ client[e] = "reset" => Left(e) = 0

\* The message that is being written is the next one.
HeldOrder ==
  pc = "write" /\ client[Target] = "here" =>
    /\ held.msg = <<held.from, Sent(held.from) + 1>>
    /\ Sent(held.from) < Said(held.from)

\* Nothing is lost while both are there, or one has closed its stream.
Pending(e) == IF pc = "write" /\ held.from = e THEN 1 ELSE 0
InStep(e) ==
  client[Other(e)] = "here" /\ client[e] # "reset" =>
    Sent(e) + Pending(e) + Left(e) - Shift(e, 0) = Said(e)

EndInv(e) == ClientOrder(e) /\ OutboxOrder(e) /\ InboxOrder(e) /\ InStep(e)

OrderInv == HeldOrder /\ \A e \in End : EndInv(e)

\* Only data is written.
HeldData == pc = "write" => held.msg \in Data
TypeInv == TypeOK /\ HeldData

-----------------------------------------------------------------------------
LEMMA Ends ==
  ASSUME NEW e \in End
  PROVE  /\ Other(e) \in End /\ Other(e) # e /\ Other(Other(e)) = e
         /\ \A x \in End : x = e \/ x = Other(e)
BY DEF End, Other

\* Data is not taken for a message without.
LEMMA DataIs ==
  /\ \A e \in End : \A n \in 1..MaxSaid[e] : <<e, n>> \in Data
  /\ Control \notin Data
  /\ \A e \in End : MaxSaid[e] \in Nat
BY SessionAssumption DEF Data, End

-----------------------------------------------------------------------------
\* Types.  A socket holds no more than it has room for; only data is written.
LEMMA TypeInit == Init => TypeInv
<1>1. <<>> \in Seq(Message) /\ <<>> \in Seq(Data) /\ Len(<<>>) = 0
  BY EmptySeq
<1>. SUFFICES ASSUME Init PROVE TypeInv
  OBVIOUS
<1>2. /\ inbox \in [End -> Seq(Message)]
      /\ outbox \in [End -> Seq(Data)]
      /\ said \in [End -> Seq(Data)] /\ heard \in [End -> Seq(Data)]
  BY <1>1 DEF Init
<1>3. \A e \in End : Len(outbox[e]) <= Room
  BY <1>1, SessionAssumption DEF Init
<1>4. held \in [from : End, msg : Message]
  BY DEF Init, Nothing, End, Message
<1>. QED BY <1>2, <1>3, <1>4 DEF Init, TypeInv, TypeOK, HeldData

LEMMA TypeStep ==
  ASSUME TypeInv, [Next]_vars
  PROVE  TypeInv'
<1>. USE SessionAssumption DEF TypeInv, TypeOK, HeldData, Over
<1>1. ASSUME NEW e \in End, Recv(e) PROVE TypeInv'
  <2>1. inbox[e] \in Seq(Message) /\ inbox[e] # <<>>
    BY <1>1 DEF Recv
  <2>2. Head(inbox[e]) \in Message /\ Tail(inbox[e]) \in Seq(Message)
    BY <2>1, HeadTailProperties
  <2>. QED BY <1>1, <2>2 DEF Recv, Message
<1>2. ASSUME NEW e \in End, RecvEnd(e) PROVE TypeInv'
  BY <1>2 DEF RecvEnd
<1>3. CASE Write
  <2>1. Target \in End
    BY Ends DEF Target
  <2>2. outbox[Target] \in Seq(Data) /\ held.msg \in Data /\ Len(outbox[Target]) < Room
    BY <1>3, <2>1 DEF Write
  <2>3. /\ Append(outbox[Target], held.msg) \in Seq(Data)
        /\ Len(Append(outbox[Target], held.msg)) = Len(outbox[Target]) + 1
        /\ Len(outbox[Target]) \in Nat
    BY <2>2, AppendProperties, LenProperties
  <2>4. outbox' \in [End -> Seq(Data)] /\ \A e \in End : Len(outbox'[e]) <= Room
    BY <1>3, <2>1, <2>2, <2>3 DEF Write
  <2>. QED BY <1>3, <2>4 DEF Write
<1>4. CASE WriteToNobody \/ Tick \/ Account \/ AccountSecond \/ Blocklist \/ Silence
  BY <1>4 DEF WriteToNobody, Tick, Account, AccountSecond, Blocklist, Silence
<1>5. ASSUME NEW e \in End, Say(e) PROVE TypeInv'
  <2>1. said[e] \in Seq(Data) /\ Len(said[e]) \in Nat /\ inbox[e] \in Seq(Message)
    BY LenProperties
  <2>2. <<e, Len(said[e]) + 1>> \in Data
    BY <1>5, <2>1, DataIs DEF Say
  <2>3. Append(said[e], <<e, Len(said[e]) + 1>>) \in Seq(Data)
    BY <2>1, <2>2, AppendProperties
  <2>4. Append(inbox[e], <<e, Len(said[e]) + 1>>) \in Seq(Message)
    BY <2>1, <2>2, AppendProperties DEF Message
  <2>. QED BY <1>5, <2>3, <2>4 DEF Say
<1>6. ASSUME NEW e \in End, SayControl(e) PROVE TypeInv'
  <2>1. Append(inbox[e], Control) \in Seq(Message)
    BY AppendProperties DEF Message
  <2>. QED BY <1>6, <2>1 DEF SayControl
<1>7. ASSUME NEW e \in End, Hear(e) PROVE TypeInv'
  <2>1. outbox[e] \in Seq(Data) /\ outbox[e] # <<>> /\ heard[e] \in Seq(Data)
    BY <1>7 DEF Hear
  <2>2. /\ Head(outbox[e]) \in Data /\ Tail(outbox[e]) \in Seq(Data)
        /\ Len(Tail(outbox[e])) = Len(outbox[e]) - 1 /\ Len(outbox[e]) \in Nat
    BY <2>1, HeadTailProperties, LenProperties
  <2>3. Append(heard[e], Head(outbox[e])) \in Seq(Data)
    BY <2>1, <2>2, AppendProperties
  <2>4. outbox' \in [End -> Seq(Data)] /\ \A x \in End : Len(outbox'[x]) <= Room
    BY <1>7, <2>2 DEF Hear
  <2>. QED BY <1>7, <2>3, <2>4 DEF Hear
<1>8. ASSUME NEW e \in End, Close(e) \/ Reset(e) PROVE TypeInv'
  <2>1. <<>> \in Seq(Message)
    BY EmptySeq
  <2>2. client' \in [End -> {"here", "closed", "reset"}]
    BY <1>8 DEF Close, Reset
  <2>3. inbox' \in [End -> Seq(Message)]
    BY <1>8, <2>1 DEF Close, Reset
  <2>. QED BY <1>8, <2>2, <2>3 DEF Close, Reset
<1>9. CASE UNCHANGED vars
  BY <1>9 DEF vars
<1>. QED
  BY <1>1, <1>2, <1>3, <1>4, <1>5, <1>6, <1>7, <1>8, <1>9 DEF Next, Session, Environment

\* Types of the session, its two sockets and its two clients.
THEOREM TypeCorrect == Spec => []TypeOK
<1>1. TypeInv => TypeOK
  BY DEF TypeInv
<1>. QED BY <1>1, TypeInit, TypeStep, PTL DEF Spec

-----------------------------------------------------------------------------
\* Order.  What the types say of lengths and indices.
LEMMA Counts ==
  ASSUME TypeOK, NEW e \in End
  PROVE  /\ Said(e) \in Nat /\ Left(e) \in Nat /\ Out(e) \in Nat /\ Heard(e) \in Nat
         /\ Sent(e) \in Nat /\ Sent(e) = Heard(Other(e)) + Out(Other(e))
         /\ Pending(e) \in {0, 1} /\ \A i : Shift(e, i) \in {0, 1}
         /\ DOMAIN inbox[e] = 1..Left(e)
         /\ (inbox[e] = <<>> <=> Left(e) = 0) /\ (outbox[e] = <<>> <=> Out(e) = 0)
<1>1. ASSUME NEW x \in End
      PROVE  /\ Said(x) \in Nat /\ Left(x) \in Nat /\ Out(x) \in Nat /\ Heard(x) \in Nat
             /\ DOMAIN inbox[x] = 1..Left(x)
             /\ (inbox[x] = <<>> <=> Left(x) = 0) /\ (outbox[x] = <<>> <=> Out(x) = 0)
  <2>1. said[x] \in Seq(Data) /\ heard[x] \in Seq(Data) /\ outbox[x] \in Seq(Data)
    BY DEF TypeOK
  <2>2. inbox[x] \in Seq(Message)
    BY DEF TypeOK
  <2>. QED BY <2>1, <2>2, LenProperties, EmptySeq DEF Said, Left, Out, Heard
<1>2. Sent(e) \in Nat /\ Sent(e) = Heard(Other(e)) + Out(Other(e))
  BY <1>1, Ends DEF Sent
<1>. QED BY <1>1, <1>2 DEF Pending, Shift

\* Steps that move no data and do not begin a write.
LEMMA QuietOrder ==
  ASSUME TypeInv, OrderInv,
         UNCHANGED <<inbox, outbox, client, said, heard>>,
         \/ UNCHANGED <<pc, held>>
         \/ pc' # "write" /\ (pc = "write" => client[Target] # "here")
  PROVE  OrderInv'
<1>. USE DEF Said, Left, Out, Heard
<1>1. HeldOrder'
  BY DEF OrderInv, HeldOrder, Target, Sent
<1>2. ASSUME NEW e \in End PROVE EndInv(e)'
  <2>1. EndInv(e)
    BY DEF OrderInv
  <2>2. ClientOrder(e)' /\ OutboxOrder(e)' /\ InboxOrder(e)'
    BY <2>1 DEF EndInv, ClientOrder, OutboxOrder, InboxOrder, Sent, Shift, ControlAfter
  <2>3. client[Other(e)] = "here" => Pending(e)' = Pending(e)
    BY DEF Pending, Target
  <2>4. InStep(e)'
    BY <2>1, <2>3 DEF EndInv, InStep, Sent, Shift, ControlAfter
  <2>. QED BY <2>2, <2>4 DEF EndInv
<1>. QED BY <1>1, <1>2 DEF OrderInv

LEMMA LeaveOrder ==
  ASSUME TypeInv, OrderInv, NEW e \in End, Close(e) \/ Reset(e)
  PROVE  OrderInv'
<1>1. /\ UNCHANGED <<pc, held, outbox, said, heard>>
      /\ client[e] = "here" /\ client'[e] \in {"closed", "reset"}
      /\ client'[Other(e)] = client[Other(e)]
      /\ inbox'[Other(e)] = inbox[Other(e)]
      /\ \/ inbox'[e] = inbox[e] /\ client'[e] = "closed"
         \/ inbox'[e] = <<>> /\ client'[e] = "reset"
  <2>1. Other(e) \in End /\ Other(e) # e
    BY Ends
  <2>2. CASE Close(e)
    BY <2>1, <2>2 DEF Close, TypeInv, TypeOK
  <2>3. CASE Reset(e)
    BY <2>1, <2>3 DEF Reset, TypeInv, TypeOK
  <2>. QED BY <2>2, <2>3
<1>2. \A x \in End : Said(x)' = Said(x) /\ Out(x)' = Out(x) /\ Heard(x)' = Heard(x)
                     /\ Sent(x)' = Sent(x) /\ Pending(x)' = Pending(x)
  BY <1>1 DEF Said, Out, Heard, Sent, Pending
<1>3. HeldOrder'
  <2>1. Target \in End /\ held.from \in End
    BY Ends DEF Target, TypeInv, TypeOK
  <2>2. client'[Target] = "here" => client[Target] = "here"
    BY <1>1, <2>1, Ends
  <2>. QED BY <1>1, <1>2, <2>1, <2>2 DEF OrderInv, HeldOrder, Target
<1>4. ASSUME NEW x \in End PROVE EndInv(x)'
  <2>1. EndInv(x) /\ Other(x) \in End
    BY Ends DEF OrderInv
  <2>2. ClientOrder(x)' /\ OutboxOrder(x)'
    BY <1>1, <1>2, <2>1 DEF EndInv, ClientOrder, OutboxOrder
  <2>3. CASE inbox'[x] = inbox[x] /\ (client'[x] = "reset" => client[x] = "reset")
    <3>1. Left(x)' = Left(x) /\ \A i : Shift(x, i)' = Shift(x, i)
      BY <2>3 DEF Left, Shift, ControlAfter
    <3>2. InboxOrder(x)'
      BY <1>2, <2>1, <2>3, <3>1 DEF EndInv, InboxOrder
    <3>3. client'[Other(x)] = "here" /\ client'[x] # "reset" =>
            client[Other(x)] = "here" /\ client[x] # "reset"
      BY <1>1, <2>3, Ends
    <3>4. InStep(x)'
      BY <1>2, <2>1, <3>1, <3>3 DEF EndInv, InStep
    <3>. QED BY <2>2, <3>2, <3>4 DEF EndInv
  <2>4. CASE inbox'[x] = <<>> /\ client'[x] = "reset"
    <3>1. Left(x)' = 0
      BY <2>4, EmptySeq DEF Left
    <3>. QED BY <2>2, <2>4, <3>1 DEF EndInv, InboxOrder, InStep
  <2>. QED BY <1>1, <2>3, <2>4, Ends
<1>. QED BY <1>3, <1>4 DEF OrderInv

\* The way from an end that a step leaves alone.
LEMMA Frame ==
  ASSUME TypeInv, OrderInv, NEW x \in End,
         said'[x] = said[x], inbox'[x] = inbox[x], client' = client,
         heard'[Other(x)] = heard[Other(x)], outbox'[Other(x)] = outbox[Other(x)],
         Pending(x)' = Pending(x)
  PROVE  EndInv(x)' /\ Sent(x)' = Sent(x)
<1>1. /\ Said(x)' = Said(x) /\ Left(x)' = Left(x) /\ \A i : Shift(x, i)' = Shift(x, i)
      /\ Heard(Other(x))' = Heard(Other(x)) /\ Out(Other(x))' = Out(Other(x))
  BY DEF Said, Left, Heard, Out, Shift, ControlAfter
<1>2. Sent(x)' = Sent(x)
  BY <1>1 DEF Sent
<1>3. EndInv(x)
  BY DEF OrderInv
<1>. QED
  BY <1>1, <1>2, <1>3 DEF EndInv, ClientOrder, OutboxOrder, InboxOrder, InStep

\* relay takes the oldest message of e.
LEMMA RecvOrder ==
  ASSUME TypeInv, OrderInv, NEW e \in End, Recv(e)
  PROVE  OrderInv'
<1>. DEFINE o == Other(e)
<1>1. /\ o \in End /\ o # e /\ Other(o) = e /\ \A x \in End : x = e \/ x = o
  BY Ends
<1>2. /\ inbox[e] \in Seq(Message) /\ inbox[e] # <<>>
      /\ inbox'[e] = Tail(inbox[e]) /\ inbox'[o] = inbox[o]
      /\ UNCHANGED <<outbox, client, said, heard>>
      /\ held' = [from |-> e, msg |-> Head(inbox[e])]
      /\ pc = "select" /\ pc' = IF Head(inbox[e]) = Control THEN "account" ELSE "write"
  BY <1>1 DEF Recv, TypeInv, TypeOK
<1>3. /\ Left(e) \in Nat \ {0} /\ DOMAIN inbox[e] = 1..Left(e)
      /\ Left(e)' = Left(e) - 1 /\ DOMAIN inbox'[e] = 1..(Left(e) - 1)
      /\ \A i \in 1..(Left(e) - 1) : inbox'[e][i] = inbox[e][i + 1]
      /\ Head(inbox[e]) = inbox[e][1]
  BY <1>2, HeadTailProperties, LenProperties, EmptySeq DEF Left
<1>4. /\ Said(e) \in Nat /\ Sent(e) \in Nat /\ Pending(e) = 0 /\ Pending(o) = 0
      /\ \A i : Shift(e, i) \in {0, 1}
  BY <1>1, <1>2, Counts DEF TypeInv, Pending
<1>5. /\ Said(e)' = Said(e) /\ Sent(e)' = Sent(e) /\ Heard(o)' = Heard(o) /\ Out(o)' = Out(o)
  BY <1>2 DEF Said, Sent, Heard, Out
<1>6. EndInv(e) /\ EndInv(o) /\ client[e] # "reset"
  <2>1. EndInv(e) /\ EndInv(o)
    BY <1>1 DEF OrderInv
  <2>. QED BY <1>3, <2>1 DEF EndInv, InboxOrder
<1>7. ASSUME NEW i \in Nat PROVE Shift(e, i)' = Shift(e, i + 1)
  <2>1. ASSUME ControlAfter(e, i)' PROVE ControlAfter(e, i + 1)
    <3>1. PICK j \in DOMAIN inbox'[e] : j > i /\ inbox'[e][j] = Control
      BY <2>1 DEF ControlAfter
    <3>2. j + 1 \in DOMAIN inbox[e] /\ j + 1 > i + 1 /\ inbox[e][j + 1] = Control
      BY <1>3, <3>1
    <3>. QED BY <3>2 DEF ControlAfter
  <2>2. ASSUME ControlAfter(e, i + 1) PROVE ControlAfter(e, i)'
    <3>1. PICK j \in DOMAIN inbox[e] : j > i + 1 /\ inbox[e][j] = Control
      BY <2>2 DEF ControlAfter
    <3>2. j - 1 \in DOMAIN inbox'[e] /\ j - 1 > i /\ inbox'[e][j - 1] = Control
      BY <1>3, <3>1
    <3>. QED BY <3>2 DEF ControlAfter
  <2>. QED BY <2>1, <2>2 DEF Shift
\* The first number is the one after those that were written.
<1>8. /\ Shift(e, 0) = IF inbox[e][1] = Control THEN 1 ELSE Shift(e, 1)
      /\ inbox[e][1] = Control => Shift(e, 1) = 0
      /\ Shift(e, 0)' = Shift(e, 1)
      /\ Shift(e, 1) = 1 => Left(e) > 1
  <2>1. ControlAfter(e, 0) <=> inbox[e][1] = Control \/ ControlAfter(e, 1)
    BY <1>3 DEF ControlAfter
  <2>2. inbox[e][1] = Control => ~ControlAfter(e, 1)
    BY <1>3, <1>6 DEF ControlAfter, EndInv, InboxOrder
  <2>3. ControlAfter(e, 1) => Left(e) > 1
    BY <1>3 DEF ControlAfter
  <2>4. Shift(e, 0)' = Shift(e, 0 + 1)
    BY <1>7
  <2>. QED BY <2>1, <2>2, <2>3, <2>4 DEF Shift
<1>9. InboxOrder(e)'
  <2>1. ASSUME NEW i \in 1..Left(e)', NEW j \in 1..Left(e)',
               inbox'[e][i] = Control, inbox'[e][j] = Control
        PROVE  i = j
    <3>1. /\ i + 1 \in 1..Left(e) /\ inbox[e][i + 1] = Control
          /\ j + 1 \in 1..Left(e) /\ inbox[e][j + 1] = Control
      BY <1>3, <2>1
    <3>2. i + 1 = j + 1
      BY <1>6, <3>1 DEF EndInv, InboxOrder
    <3>. QED BY <1>3, <3>2
  <2>2. ASSUME NEW i \in 1..Left(e)', inbox'[e][i] # Control
        PROVE  inbox'[e][i] = <<e, Said(e)' - Left(e)' + i + Shift(e, i)'>>
    <3>1. i \in Nat /\ i + 1 \in 1..Left(e) /\ inbox'[e][i] = inbox[e][i + 1]
      BY <1>3, <2>2
    <3>2. inbox[e][i + 1] = <<e, Said(e) - Left(e) + (i + 1) + Shift(e, i + 1)>>
      BY <1>6, <2>2, <3>1 DEF EndInv, InboxOrder
    <3>3. Said(e) - Left(e) + (i + 1) + Shift(e, i + 1)
            = Said(e)' - Left(e)' + i + Shift(e, i)'
      BY <1>3, <1>4, <1>5, <1>7, <3>1
    <3>. QED BY <3>1, <3>2, <3>3
  <2>. QED BY <1>2, <1>6, <2>1, <2>2 DEF InboxOrder
<1>10. HeldOrder'
  <2>1. SUFFICES ASSUME pc' = "write", client[o] = "here"
                 PROVE  held'.msg = <<e, Sent(e) + 1>> /\ Sent(e) < Said(e)
    BY <1>2, <1>5 DEF HeldOrder, Target
  <2>2. held'.msg = inbox[e][1] /\ inbox[e][1] # Control /\ 1 \in 1..Left(e)
    BY <1>2, <1>3, <2>1
  <2>3. inbox[e][1] = <<e, Said(e) - Left(e) + 1 + Shift(e, 1)>>
    BY <1>6, <2>2 DEF EndInv, InboxOrder
  <2>4. Sent(e) + Left(e) - Shift(e, 1) = Said(e)
    <3>1. Sent(e) + 0 + Left(e) - Shift(e, 0) = Said(e)
      BY <1>4, <1>6, <2>1 DEF EndInv, InStep
    <3>. QED BY <1>3, <1>4, <1>8, <2>2, <3>1
  <2>5. Said(e) - Left(e) + 1 + Shift(e, 1) = Sent(e) + 1 /\ Sent(e) < Said(e)
    BY <1>3, <1>4, <1>8, <2>4
  <2>. QED BY <2>2, <2>3, <2>5
<1>11. InStep(e)'
  <2>1. SUFFICES ASSUME client[o] = "here"
                 PROVE  Sent(e) + Pending(e)' + (Left(e) - 1) - Shift(e, 1) = Said(e)
    BY <1>2, <1>3, <1>5, <1>8 DEF InStep
  <2>2. Pending(e)' = IF inbox[e][1] = Control THEN 0 ELSE 1
    BY <1>2, <1>3 DEF Pending
  <2>3. Sent(e) + 0 + Left(e) - Shift(e, 0) = Said(e)
    BY <1>4, <1>6, <2>1 DEF EndInv, InStep
  <2>. QED BY <1>3, <1>4, <1>8, <2>2, <2>3
<1>12. EndInv(e)'
  BY <1>2, <1>5, <1>6, <1>9, <1>11 DEF EndInv, ClientOrder, OutboxOrder
<1>13. EndInv(o)'
  <2>1. Pending(o)' = 0
    BY <1>1, <1>2 DEF Pending
  <2>. QED BY <1>1, <1>2, <1>4, <2>1, Frame
<1>. QED BY <1>1, <1>10, <1>12, <1>13 DEF OrderInv

\* relay writes the message it holds.
LEMMA WriteOrder ==
  ASSUME TypeInv, OrderInv, Write, NEW e \in End, held.from = e
  PROVE  OrderInv'
<1>. DEFINE o == Other(e)
<1>1. /\ o \in End /\ o # e /\ Other(o) = e /\ \A x \in End : x = e \/ x = o
      /\ Target = o
  BY Ends DEF Target
<1>2. /\ outbox[o] \in Seq(Data) /\ held.msg \in Data
      /\ pc = "write" /\ pc' = "account" /\ client[o] = "here"
      /\ outbox'[o] = Append(outbox[o], held.msg) /\ outbox'[e] = outbox[e]
      /\ UNCHANGED <<held, inbox, client, said, heard>>
  BY <1>1 DEF Write, TypeInv, TypeOK, HeldData
<1>3. /\ Out(o) \in Nat /\ Out(o)' = Out(o) + 1
      /\ \A i \in 1..Out(o) : outbox'[o][i] = outbox[o][i]
      /\ outbox'[o][Out(o) + 1] = held.msg
  BY <1>2, AppendProperties, LenProperties DEF Out
<1>4. /\ Said(e)' = Said(e) /\ Left(e)' = Left(e) /\ Heard(o)' = Heard(o)
      /\ \A i : Shift(e, i)' = Shift(e, i)
      /\ Pending(e) = 1 /\ Pending(e)' = 0 /\ Pending(o) = 0 /\ Pending(o)' = 0
  BY <1>1, <1>2 DEF Said, Left, Heard, Shift, ControlAfter, Pending
<1>5. /\ Said(e) \in Nat /\ Left(e) \in Nat /\ Heard(o) \in Nat /\ Shift(e, 0) \in {0, 1}
      /\ Sent(e) \in Nat /\ Sent(e) = Heard(o) + Out(o)
  BY <1>1, Counts DEF TypeInv
<1>6. Sent(e)' = Sent(e) + 1
  <2>1. Sent(e)' = Heard(o)' + Out(o)'
    BY <1>1, <1>2 DEF Sent
  <2>. QED BY <1>3, <1>4, <1>5, <2>1
<1>7. EndInv(e) /\ held.msg = <<e, Sent(e) + 1>> /\ Sent(e) < Said(e)
  BY <1>1, <1>2 DEF OrderInv, HeldOrder
<1>8. ClientOrder(e)' /\ InboxOrder(e)'
  BY <1>1, <1>2, <1>4, <1>7 DEF EndInv, ClientOrder, InboxOrder
<1>9. OutboxOrder(e)'
  <2>1. ASSUME NEW i \in 1..Out(o)' PROVE outbox'[o][i] = <<e, Heard(o)' + i>>
    <3>1. CASE i \in 1..Out(o)
      BY <1>1, <1>3, <1>4, <1>7, <3>1 DEF EndInv, OutboxOrder
    <3>2. CASE i = Out(o) + 1
      <4>1. Sent(e) + 1 = Heard(o)' + i
        BY <1>3, <1>4, <1>5, <3>2
      <4>. QED BY <1>3, <1>7, <3>2, <4>1
    <3>. QED BY <1>3, <3>1, <3>2
  <2>2. Sent(e)' <= Said(e)'
    BY <1>4, <1>5, <1>6, <1>7
  <2>. QED BY <2>1, <2>2 DEF OutboxOrder
<1>10. InStep(e)'
  <2>1. SUFFICES ASSUME client[e] # "reset"
                 PROVE  (Sent(e) + 1) + 0 + Left(e) - Shift(e, 0) = Said(e)
    BY <1>2, <1>4, <1>6 DEF InStep
  <2>2. Sent(e) + 1 + Left(e) - Shift(e, 0) = Said(e)
    BY <1>1, <1>2, <1>4, <1>7, <2>1 DEF EndInv, InStep
  <2>. QED BY <1>5, <2>2
<1>11. EndInv(e)'
  BY <1>8, <1>9, <1>10 DEF EndInv
<1>12. EndInv(o)'
  BY <1>1, <1>2, <1>4, Frame
<1>13. HeldOrder'
  BY <1>2 DEF HeldOrder
<1>. QED BY <1>1, <1>11, <1>12, <1>13 DEF OrderInv

\* The client of e writes its next message.
LEMMA SayOrder ==
  ASSUME TypeInv, OrderInv, NEW e \in End, Say(e)
  PROVE  OrderInv'
<1>. DEFINE o == Other(e)
            d == <<e, Said(e) + 1>>
<1>1. /\ o \in End /\ o # e /\ Other(o) = e /\ \A x \in End : x = e \/ x = o
  BY Ends
<1>2. /\ said[e] \in Seq(Data) /\ inbox[e] \in Seq(Message) /\ Said(e) \in Nat
      /\ d \in Data /\ d \in Message /\ d # Control
      /\ said'[e] = Append(said[e], d) /\ said'[o] = said[o]
      /\ inbox'[e] = Append(inbox[e], d) /\ inbox'[o] = inbox[o]
      /\ client[e] = "here" /\ UNCHANGED <<pc, held, outbox, client, heard>>
  <2>1. Said(e) \in Nat /\ Said(e) < MaxSaid[e]
    BY Counts DEF Say, TypeInv, Said
  <2>2. d \in Data /\ d \in Message /\ d # Control
    BY <2>1, DataIs DEF Message
  <2>. QED BY <1>1, <2>1, <2>2 DEF Say, Said, TypeInv, TypeOK
<1>3. /\ Said(e)' = Said(e) + 1 /\ said'[e][Said(e) + 1] = d
      /\ \A i \in 1..Said(e) : said'[e][i] = said[e][i]
  BY <1>2, AppendProperties DEF Said
<1>4. /\ Left(e) \in Nat /\ Left(e)' = Left(e) + 1 /\ inbox'[e][Left(e) + 1] = d
      /\ \A i \in 1..Left(e) : inbox'[e][i] = inbox[e][i]
      /\ DOMAIN inbox[e] = 1..Left(e) /\ DOMAIN inbox'[e] = 1..(Left(e) + 1)
  BY <1>2, AppendProperties, LenProperties DEF Left
<1>5. ASSUME NEW i \in Nat PROVE Shift(e, i)' = Shift(e, i)
  BY <1>2, <1>4 DEF Shift, ControlAfter
<1>6. /\ Heard(o)' = Heard(o) /\ Out(o)' = Out(o) /\ Sent(e)' = Sent(e)
      /\ Pending(e)' = Pending(e) /\ Pending(o)' = Pending(o)
  BY <1>2 DEF Heard, Out, Sent, Pending
<1>7. /\ Said(e) \in Nat /\ Heard(o) \in Nat /\ Sent(e) \in Nat /\ Pending(e) \in {0, 1}
      /\ Shift(e, 0) \in {0, 1} /\ \A i : Shift(e, i) \in {0, 1}
  BY <1>1, Counts DEF TypeInv
<1>8. EndInv(e)
  BY DEF OrderInv
<1>9. ClientOrder(e)'
  <2>1. ASSUME NEW i \in 1..Said(e)' PROVE said'[e][i] = <<e, i>>
    <3>1. CASE i \in 1..Said(e)
      BY <1>3, <1>8, <3>1 DEF EndInv, ClientOrder
    <3>2. CASE i = Said(e) + 1
      BY <1>3, <3>2
    <3>. QED BY <1>3, <1>7, <3>1, <3>2
  <2>. QED BY <1>2, <1>6, <1>8, <2>1 DEF EndInv, ClientOrder
<1>10. OutboxOrder(e)'
  <2>1. Sent(e)' <= Said(e)'
    BY <1>2, <1>3, <1>6, <1>7, <1>8 DEF EndInv, OutboxOrder
  <2>. QED BY <1>2, <1>6, <1>8, <2>1 DEF EndInv, OutboxOrder
<1>11. InboxOrder(e)'
  <2>1. ASSUME NEW i \in 1..Left(e)', NEW j \in 1..Left(e)',
               inbox'[e][i] = Control, inbox'[e][j] = Control
        PROVE  i = j
    <3>1. i # Left(e) + 1 /\ j # Left(e) + 1
      BY <1>2, <1>4, <2>1
    <3>2. i \in 1..Left(e) /\ j \in 1..Left(e)
      BY <1>4, <3>1
    <3>. QED BY <1>4, <1>8, <2>1, <3>2 DEF EndInv, InboxOrder
  <2>2. ASSUME NEW i \in 1..Left(e)', inbox'[e][i] # Control
        PROVE  inbox'[e][i] = <<e, Said(e)' - Left(e)' + i + Shift(e, i)'>>
    <3>1. i \in Nat /\ Shift(e, i)' = Shift(e, i)
      BY <1>4, <1>5
    <3>2. CASE i \in 1..Left(e)
      <4>1. inbox[e][i] = <<e, Said(e) - Left(e) + i + Shift(e, i)>>
        BY <1>4, <1>8, <2>2, <3>2 DEF EndInv, InboxOrder
      <4>2. Said(e) - Left(e) + i + Shift(e, i) = Said(e)' - Left(e)' + i + Shift(e, i)'
        BY <1>2, <1>3, <1>4, <1>7, <3>1
      <4>. QED BY <1>4, <3>2, <4>1, <4>2
    <3>3. CASE i = Left(e) + 1
      <4>1. Shift(e, i) = 0
        BY <1>4, <3>3 DEF Shift, ControlAfter
      <4>2. Said(e) + 1 = Said(e)' - Left(e)' + i + Shift(e, i)'
        BY <1>2, <1>3, <1>4, <3>1, <3>3, <4>1
      <4>. QED BY <1>4, <3>3, <4>2
    <3>. QED BY <1>4, <3>2, <3>3
  <2>. QED BY <1>2, <2>1, <2>2 DEF InboxOrder
<1>12. InStep(e)'
  <2>1. SUFFICES ASSUME client[o] = "here"
                 PROVE  Sent(e) + Pending(e) + (Left(e) + 1) - Shift(e, 0) = Said(e) + 1
    BY <1>2, <1>3, <1>4, <1>5, <1>6 DEF InStep
  <2>2. Sent(e) + Pending(e) + Left(e) - Shift(e, 0) = Said(e)
    BY <1>2, <1>8, <2>1 DEF EndInv, InStep
  <2>3. Left(e) \in Nat
    BY <1>4
  <2>. QED BY <1>7, <2>2, <2>3
<1>13. EndInv(e)'
  BY <1>9, <1>10, <1>11, <1>12 DEF EndInv
<1>14. EndInv(o)' /\ Said(o)' = Said(o) /\ Sent(o)' = Sent(o)
  BY <1>1, <1>2, <1>6, Frame DEF Said
<1>15. HeldOrder'
  <2>1. ASSUME NEW x \in End, Sent(x) < Said(x)
        PROVE  Sent(x)' = Sent(x) /\ Sent(x)' < Said(x)'
    <3>1. CASE x = e
      BY <1>3, <1>6, <1>7, <2>1, <3>1
    <3>2. CASE x = o
      BY <1>14, <2>1, <3>2
    <3>. QED BY <1>1, <3>1, <3>2
  <2>2. held.from \in End /\ held' = held /\ pc' = pc /\ client' = client
    BY <1>2 DEF TypeInv, TypeOK
  <2>. QED BY <2>1, <2>2 DEF OrderInv, HeldOrder, Target
<1>. QED BY <1>1, <1>13, <1>14, <1>15 DEF OrderInv

\* The client of e, a websocket, sends a message without data.
LEMMA SayControlOrder ==
  ASSUME TypeInv, OrderInv, NEW e \in End, SayControl(e)
  PROVE  OrderInv'
<1>. DEFINE o == Other(e)
<1>1. /\ o \in End /\ o # e /\ Other(o) = e /\ \A x \in End : x = e \/ x = o
  BY Ends
<1>2. /\ inbox[e] \in Seq(Message) /\ \A i \in DOMAIN inbox[e] : inbox[e][i] # Control
      /\ inbox'[e] = Append(inbox[e], Control) /\ inbox'[o] = inbox[o]
      /\ client[e] = "here" /\ UNCHANGED <<pc, held, outbox, client, said, heard>>
  <2>1. inbox[e] \in Seq(Message)
    BY DEF TypeInv, TypeOK
  <2>2. \A i \in DOMAIN inbox[e] : inbox[e][i] # Control
    BY DEF SayControl
  <2>3. inbox'[e] = Append(inbox[e], Control) /\ inbox'[o] = inbox[o]
    BY <1>1 DEF SayControl, TypeInv, TypeOK
  <2>. QED BY <2>1, <2>2, <2>3 DEF SayControl
<1>3. /\ Left(e) \in Nat /\ Left(e)' = Left(e) + 1 /\ inbox'[e][Left(e) + 1] = Control
      /\ \A i \in 1..Left(e) : inbox'[e][i] = inbox[e][i] /\ inbox[e][i] # Control
      /\ DOMAIN inbox[e] = 1..Left(e) /\ DOMAIN inbox'[e] = 1..(Left(e) + 1)
  <2>1. Control \in Message
    BY DEF Message
  <2>. QED BY <1>2, <2>1, AppendProperties, LenProperties DEF Left
<1>4. ASSUME NEW i \in 0..Left(e) PROVE Shift(e, i) = 0 /\ Shift(e, i)' = 1
  <2>1. ~ControlAfter(e, i)
    BY <1>3 DEF ControlAfter
  <2>2. Left(e) + 1 \in DOMAIN inbox'[e] /\ Left(e) + 1 > i
    BY <1>3
  <2>3. ControlAfter(e, i)'
    BY <1>3, <2>2 DEF ControlAfter
  <2>. QED BY <2>1, <2>3 DEF Shift
<1>5. /\ Said(e)' = Said(e) /\ Heard(o)' = Heard(o) /\ Out(o)' = Out(o)
      /\ Sent(e)' = Sent(e) /\ Pending(e)' = Pending(e) /\ Pending(o)' = Pending(o)
  BY <1>2 DEF Said, Heard, Out, Sent, Pending
<1>6. Said(e) \in Nat /\ Sent(e) \in Nat /\ Pending(e) \in {0, 1}
  BY Counts DEF TypeInv
<1>7. EndInv(e)
  BY DEF OrderInv
<1>8. ClientOrder(e)' /\ OutboxOrder(e)'
  BY <1>2, <1>5, <1>7 DEF EndInv, ClientOrder, OutboxOrder
<1>9. InboxOrder(e)'
  <2>1. ASSUME NEW i \in 1..Left(e)', inbox'[e][i] = Control
        PROVE  i = Left(e) + 1
    BY <1>3, <2>1
  <2>2. ASSUME NEW i \in 1..Left(e)', inbox'[e][i] # Control
        PROVE  inbox'[e][i] = <<e, Said(e)' - Left(e)' + i + Shift(e, i)'>>
    <3>1. i \in 1..Left(e) /\ i \in 0..Left(e)
      BY <1>3, <2>2
    <3>2. inbox[e][i] = <<e, Said(e) - Left(e) + i + Shift(e, i)>>
      BY <1>3, <1>7, <3>1 DEF EndInv, InboxOrder
    <3>3. Said(e) - Left(e) + i + Shift(e, i) = Said(e)' - Left(e)' + i + Shift(e, i)'
      BY <1>3, <1>4, <1>5, <1>6, <3>1
    <3>. QED BY <1>3, <3>1, <3>2, <3>3
  <2>. QED BY <1>2, <2>1, <2>2 DEF InboxOrder
<1>10. InStep(e)'
  <2>1. SUFFICES ASSUME client[o] = "here"
                 PROVE  Sent(e) + Pending(e) + (Left(e) + 1) - Shift(e, 0)' = Said(e)
    BY <1>2, <1>3, <1>5 DEF InStep
  <2>2. Sent(e) + Pending(e) + Left(e) - Shift(e, 0) = Said(e)
    BY <1>2, <1>7, <2>1 DEF EndInv, InStep
  <2>3. Left(e) \in Nat /\ Shift(e, 0) = 0 /\ Shift(e, 0)' = 1
    BY <1>3, <1>4
  <2>. QED BY <1>6, <2>2, <2>3
<1>11. EndInv(e)'
  BY <1>8, <1>9, <1>10 DEF EndInv
<1>12. EndInv(o)' /\ Said(o)' = Said(o) /\ Sent(o)' = Sent(o)
  BY <1>1, <1>2, <1>5, Frame DEF Said
<1>13. HeldOrder'
  <2>1. held.from \in End /\ held' = held /\ pc' = pc /\ client' = client
    BY <1>2 DEF TypeInv, TypeOK
  <2>2. \A x \in End : Sent(x)' = Sent(x) /\ Said(x)' = Said(x)
    BY <1>1, <1>5, <1>12
  <2>. QED BY <2>1, <2>2 DEF OrderInv, HeldOrder, Target
<1>. QED BY <1>1, <1>11, <1>12, <1>13 DEF OrderInv

\* The client of e reads the oldest message written to it, which the other said.
LEMMA HearOrder ==
  ASSUME TypeInv, OrderInv, NEW e \in End, Hear(e)
  PROVE  /\ OrderInv'
         /\ Head(outbox[e]) = <<Other(e), Heard(e) + 1>>
         /\ Heard(e) < Said(Other(e))
         /\ \A x \in End : Sent(x)' = Sent(x)
<1>. DEFINE o == Other(e)
<1>1. /\ o \in End /\ o # e /\ Other(o) = e /\ \A x \in End : x = e \/ x = o
  BY Ends
<1>2. /\ outbox[e] \in Seq(Data) /\ outbox[e] # <<>> /\ heard[e] \in Seq(Data)
      /\ outbox'[e] = Tail(outbox[e]) /\ outbox'[o] = outbox[o]
      /\ heard'[e] = Append(heard[e], Head(outbox[e])) /\ heard'[o] = heard[o]
      /\ UNCHANGED <<pc, held, inbox, client, said>>
  BY <1>1 DEF Hear, TypeInv, TypeOK
<1>3. /\ Out(e) \in Nat \ {0} /\ Out(e)' = Out(e) - 1 /\ Head(outbox[e]) = outbox[e][1]
      /\ \A i \in 1..(Out(e) - 1) : outbox'[e][i] = outbox[e][i + 1]
      /\ Head(outbox[e]) \in Data
  BY <1>2, HeadTailProperties, LenProperties, EmptySeq DEF Out
<1>4. /\ Heard(e) \in Nat /\ Heard(e)' = Heard(e) + 1
      /\ heard'[e][Heard(e) + 1] = Head(outbox[e])
      /\ \A i \in 1..Heard(e) : heard'[e][i] = heard[e][i]
  BY <1>2, <1>3, AppendProperties, LenProperties DEF Heard
<1>5. /\ Said(o)' = Said(o) /\ Left(o)' = Left(o) /\ \A i : Shift(o, i)' = Shift(o, i)
      /\ Pending(o)' = Pending(o) /\ Pending(e)' = Pending(e)
  BY <1>2 DEF Said, Left, Shift, ControlAfter, Pending
<1>6. Sent(o) = Heard(e) + Out(e) /\ Said(o) \in Nat
  BY <1>1, Counts DEF TypeInv
<1>7. Sent(o)' = Sent(o)
  <2>1. Sent(o)' = Heard(e)' + Out(e)'
    BY <1>1 DEF Sent
  <2>. QED BY <1>3, <1>4, <1>6, <2>1
<1>8. EndInv(o)
  BY <1>1 DEF OrderInv
<1>9. Head(outbox[e]) = <<o, Heard(e) + 1>> /\ Heard(e) < Said(o)
  <2>1. outbox[e][1] = <<o, Heard(e) + 1>> /\ Sent(o) <= Said(o)
    BY <1>1, <1>3, <1>8 DEF EndInv, OutboxOrder
  <2>. QED BY <1>3, <1>4, <1>6, <2>1
<1>10. ClientOrder(o)'
  <2>1. ASSUME NEW i \in 1..Heard(e)' PROVE heard'[e][i] = <<o, i>>
    <3>1. CASE i \in 1..Heard(e)
      BY <1>1, <1>4, <1>8, <3>1 DEF EndInv, ClientOrder
    <3>2. CASE i = Heard(e) + 1
      BY <1>4, <1>9, <3>2
    <3>. QED BY <1>4, <3>1, <3>2
  <2>. QED BY <1>1, <1>2, <1>5, <1>8, <2>1 DEF EndInv, ClientOrder
<1>11. OutboxOrder(o)'
  <2>1. ASSUME NEW i \in 1..Out(e)' PROVE outbox'[e][i] = <<o, Heard(e)' + i>>
    <3>1. i + 1 \in 1..Out(e) /\ outbox'[e][i] = outbox[e][i + 1]
      BY <1>3
    <3>2. outbox[e][i + 1] = <<o, Heard(e) + (i + 1)>>
      BY <1>1, <1>8, <3>1 DEF EndInv, OutboxOrder
    <3>3. Heard(e) + (i + 1) = Heard(e)' + i
      BY <1>3, <1>4
    <3>. QED BY <3>1, <3>2, <3>3
  <2>. QED BY <1>1, <1>5, <1>7, <1>8, <2>1 DEF EndInv, OutboxOrder
<1>12. InboxOrder(o)' /\ InStep(o)'
  BY <1>1, <1>2, <1>5, <1>7, <1>8 DEF EndInv, InboxOrder, InStep
<1>13. EndInv(o)'
  BY <1>10, <1>11, <1>12 DEF EndInv
<1>14. EndInv(e)' /\ Said(e)' = Said(e) /\ Sent(e)' = Sent(e)
  BY <1>1, <1>2, <1>5, Frame DEF Said
<1>15. HeldOrder'
  <2>1. held.from \in End /\ held' = held /\ pc' = pc /\ client' = client
    BY <1>2 DEF TypeInv, TypeOK
  <2>2. \A x \in End : Sent(x)' = Sent(x) /\ Said(x)' = Said(x)
    BY <1>1, <1>5, <1>7, <1>14
  <2>. QED BY <2>1, <2>2 DEF OrderInv, HeldOrder, Target
<1>16. OrderInv'
  BY <1>1, <1>13, <1>14, <1>15 DEF OrderInv
<1>. QED BY <1>1, <1>7, <1>9, <1>14, <1>16

LEMMA OrderInit == Init => OrderInv
<1>. SUFFICES ASSUME Init PROVE OrderInv
  OBVIOUS
<1>1. \A e \in End : Said(e) = 0 /\ Left(e) = 0 /\ Out(e) = 0 /\ Heard(e) = 0
  BY EmptySeq DEF Init, Said, Left, Out, Heard
<1>2. \A e \in End : Sent(e) = 0 /\ Pending(e) = 0
  BY <1>1, Ends DEF Sent, Pending, Init
<1>3. \A e \in End : Shift(e, 0) = 0
  BY DEF Init, Shift, ControlAfter
<1>4. ASSUME NEW e \in End PROVE EndInv(e)
  BY <1>1, <1>2, <1>3, Ends
     DEF EndInv, ClientOrder, OutboxOrder, InboxOrder, InStep
<1>5. HeldOrder
  BY DEF Init, HeldOrder
<1>. QED BY <1>4, <1>5 DEF OrderInv

LEMMA OrderStep ==
  ASSUME TypeInv, OrderInv, [Next]_vars
  PROVE  OrderInv'
<1>1. ASSUME NEW e \in End, Recv(e) PROVE OrderInv'
  BY <1>1, RecvOrder
<1>2. ASSUME NEW e \in End, RecvEnd(e) PROVE OrderInv'
  BY <1>2, QuietOrder DEF RecvEnd
<1>3. CASE Write
  <2>1. held.from \in End
    BY DEF TypeInv, TypeOK
  <2>. QED BY <1>3, <2>1, WriteOrder
<1>4. CASE WriteToNobody
  <2>1. pc' # "write"
    BY <1>4 DEF WriteToNobody
  <2>. QED BY <1>4, <2>1, QuietOrder DEF WriteToNobody
<1>5. CASE Tick
  BY <1>5, QuietOrder DEF Tick
<1>6. CASE Account \/ AccountSecond
  BY <1>6, QuietOrder DEF Account, AccountSecond
<1>7. ASSUME NEW e \in End, Say(e) PROVE OrderInv'
  BY <1>7, SayOrder
<1>8. ASSUME NEW e \in End, SayControl(e) PROVE OrderInv'
  BY <1>8, SayControlOrder
<1>9. ASSUME NEW e \in End, Hear(e) PROVE OrderInv'
  BY <1>9, HearOrder
<1>10. ASSUME NEW e \in End, Close(e) \/ Reset(e) PROVE OrderInv'
  BY <1>10, LeaveOrder
<1>11. CASE Blocklist \/ Silence \/ UNCHANGED vars
  BY <1>11, QuietOrder DEF Blocklist, Silence, vars
<1>. QED
  BY <1>1, <1>2, <1>3, <1>4, <1>5, <1>6, <1>7, <1>8, <1>9, <1>10, <1>11
     DEF Next, Session, Environment

LEMMA OrderCorrect == Spec => [](TypeInv /\ OrderInv)
BY TypeInit, TypeStep, OrderInit, OrderStep, PTL DEF Spec

-----------------------------------------------------------------------------
\* Whatever the session does looks to its clients like the two queues of
\* RelayedBytes: each hears what the other said, in order and without gaps.
THEOREM BytesCorrect == Spec => BytesSpec
<1>1. Init => Bytes!Init
  BY DEF Init, Bytes!Init, End, Bytes!End
<1>2. ASSUME TypeInv, OrderInv, [Next]_vars
      PROVE  [Bytes!Next]_(Bytes!vars)
  <2>. USE DEF Bytes!vars
  <2>1. ASSUME NEW e \in End, Say(e) PROVE Bytes!Next
    <3>1. Said(e) \in Nat /\ Said(e) + 1 \in 1..MaxSaid[e]
      BY <1>2, <2>1, Counts, DataIs DEF Say, Said, TypeInv
    <3>2. <<e, Said(e) + 1>> \in Data
      BY <3>1, DataIs
    <3>3. Bytes!Say(e, <<e, Said(e) + 1>>)
      BY <2>1 DEF Say, Bytes!Say, Said
    <3>. QED BY <3>2, <3>3 DEF Bytes!Next, End, Bytes!End
  <2>2. ASSUME NEW e \in End, Hear(e) PROVE Bytes!Next
    <3>1. Heard(e) \in Nat /\ Said(Other(e)) \in Nat
      BY <1>2, Counts, Ends DEF TypeInv
    <3>2. Head(outbox[e]) = <<Other(e), Heard(e) + 1>> /\ Heard(e) < Said(Other(e))
      BY <1>2, <2>2, HearOrder
    <3>3. said[Other(e)][Heard(e) + 1] = <<Other(e), Heard(e) + 1>>
      BY <1>2, <3>1, <3>2, Ends DEF OrderInv, EndInv, ClientOrder
    <3>4. Bytes!Other(e) = Other(e)
      BY DEF Other, Bytes!Other
    <3>5. Bytes!Hear(e)
      BY <2>2, <3>2, <3>3, <3>4 DEF Hear, Bytes!Hear, Heard, Said
    <3>. QED BY <3>5 DEF Bytes!Next, End, Bytes!End
  <2>3. ASSUME NEW e \in End,
               Recv(e) \/ RecvEnd(e) \/ SayControl(e) \/ Close(e) \/ Reset(e)
        PROVE  UNCHANGED Bytes!vars
    BY <2>3 DEF Recv, RecvEnd, SayControl, Close, Reset
  <2>4. CASE \/ Write \/ WriteToNobody \/ Tick \/ Account \/ AccountSecond
             \/ Blocklist \/ Silence \/ UNCHANGED vars
    BY <2>4 DEF Write, WriteToNobody, Tick, Account, AccountSecond, Blocklist, Silence, vars
  <2>. QED BY <1>2, <2>1, <2>2, <2>3, <2>4 DEF Next, Session, Environment
<1>. QED BY <1>1, <1>2, OrderCorrect, PTL DEF Spec, BytesSpec, Bytes!Spec

-----------------------------------------------------------------------------
\* Who ended the session, and that all this client said had been written then.
Closed ==
  pc = "closed" =>
    \E e \in End :
      /\ client[e] # "here"
      /\ client[e] = "closed" /\ client[Other(e)] = "here" => Sent(e) = Said(e)

LEMMA ClosedStep ==
  ASSUME TypeInv, OrderInv, Closed, [Next]_vars
  PROVE  Closed'
<1>1. ASSUME NEW e \in End, RecvEnd(e) PROVE Closed'
  <2>1. UNCHANGED <<inbox, outbox, client, said, heard>> /\ client[e] # "here"
    BY <1>1 DEF RecvEnd
  <2>2. /\ Left(e) = 0 /\ Shift(e, 0) = 0 /\ Pending(e) = 0
        /\ Sent(e) \in Nat /\ Said(e) \in Nat
    BY <1>1, Counts, EmptySeq DEF RecvEnd, TypeInv, Shift, ControlAfter, Pending
  <2>3. client[e] = "closed" /\ client[Other(e)] = "here" => Sent(e) = Said(e)
    <3>1. SUFFICES ASSUME client[e] = "closed", client[Other(e)] = "here"
                   PROVE  Sent(e) = Said(e)
      OBVIOUS
    <3>2. Sent(e) + 0 + 0 - 0 = Said(e)
      BY <2>2, <3>1 DEF OrderInv, EndInv, InStep
    <3>. QED BY <2>2, <3>2
  <2>4. Sent(e)' = Sent(e) /\ Said(e)' = Said(e)
    BY <2>1 DEF Sent, Said, Heard, Out
  <2>. QED BY <2>1, <2>3, <2>4 DEF Closed
<1>2. ASSUME NEW e \in End, Hear(e) PROVE Closed'
  <2>1. UNCHANGED <<pc, client, said>>
    BY <1>2 DEF Hear
  <2>2. ASSUME NEW x \in End PROVE Sent(x)' = Sent(x) /\ Said(x)' = Said(x)
    BY <1>2, <2>1, HearOrder DEF Said
  <2>. QED BY <2>1, <2>2 DEF Closed
<1>3. CASE UNCHANGED vars
  BY <1>3 DEF vars, Closed, Sent, Said, Heard, Out
<1>4. ASSUME pc' # "closed" PROVE Closed'
  BY <1>4 DEF Closed
<1>5. ASSUME NEW e \in End, Recv(e) \/ Say(e) \/ SayControl(e) \/ Close(e) \/ Reset(e)
      PROVE  pc' # "closed"
  BY <1>5 DEF Recv, Say, SayControl, Close, Reset, Over
<1>6. CASE Write \/ WriteToNobody \/ Tick \/ Account \/ AccountSecond \/ Blocklist \/ Silence
  <2>1. pc' # "closed"
    BY <1>6 DEF Write, WriteToNobody, Tick, Account, AccountSecond, Blocklist, Silence, Over
  <2>. QED BY <1>4, <2>1
<1>. QED BY <1>1, <1>2, <1>3, <1>4, <1>5, <1>6 DEF Next, Session, Environment

\* Both are sequences that count up from 1.
LEMMA AllWritten ==
  ASSUME TypeInv, OrderInv, NEW e \in End, Sent(e) = Said(e)
  PROVE  Wrote(Other(e)) = said[e]
<1>. DEFINE o == Other(e)
            w == heard[o] \o outbox[o]
<1>1. heard[o] \in Seq(Data) /\ outbox[o] \in Seq(Data) /\ said[e] \in Seq(Data)
  BY Ends DEF TypeInv, TypeOK
<1>2. /\ Heard(o) \in Nat /\ Out(o) \in Nat /\ Said(e) \in Nat
      /\ Heard(o) + Out(o) = Said(e)
  BY Ends, Counts DEF TypeInv
<1>3. /\ w \in Seq(Data) /\ Len(w) = Said(e)
      /\ \A i \in 1..Said(e) : w[i] = IF i <= Heard(o) THEN heard[o][i] ELSE outbox[o][i - Heard(o)]
  BY <1>1, <1>2, ConcatProperties DEF Heard, Out
<1>4. ASSUME NEW i \in 1..Said(e) PROVE w[i] = said[e][i]
  <2>1. said[e][i] = <<e, i>>
    BY DEF OrderInv, EndInv, ClientOrder
  <2>2. CASE i <= Heard(o)
    <3>1. i \in 1..Heard(o)
      BY <1>2, <2>2
    <3>2. heard[o][i] = <<e, i>>
      BY <3>1 DEF OrderInv, EndInv, ClientOrder
    <3>. QED BY <1>3, <2>1, <2>2, <3>2
  <2>3. CASE ~(i <= Heard(o))
    <3>1. i - Heard(o) \in 1..Out(o) /\ Heard(o) + (i - Heard(o)) = i
      BY <1>2, <2>3
    <3>2. outbox[o][i - Heard(o)] = <<e, i>>
      BY <3>1 DEF OrderInv, EndInv, OutboxOrder
    <3>. QED BY <1>3, <2>1, <2>3, <3>2
  <2>. QED BY <2>2, <2>3
<1>5. Len(said[e]) = Said(e)
  BY DEF Said
<1>6. w = said[e]
  BY <1>1, <1>3, <1>4, <1>5, SeqEqual
<1>. QED BY <1>6 DEF Wrote

\* A session that ends because a client closed its stream has written all that
\* this client said, however much it was, to a client that is still there.
THEOREM LastWordsCorrect == Spec => []LastWordsAreWritten
<1>1. Init => Closed
  BY DEF Init, Closed
<1>2. TypeInv /\ OrderInv /\ Closed => LastWordsAreWritten
  BY AllWritten DEF Closed, LastWordsAreWritten
<1>. QED BY <1>1, <1>2, ClosedStep, OrderCorrect, PTL DEF Spec
=============================================================================
