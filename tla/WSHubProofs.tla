---------------------------- MODULE WSHubProofs ----------------------------
(***************************************************************************)
(* Proofs about WSHub, for any clients, any number of messages and any     *)
(* capacities of the channels.                                             *)
(***************************************************************************)
EXTENDS WSHub, TLAPS, SequenceTheorems

-----------------------------------------------------------------------------
(* Sequences: moving the head of one to the end of the one before it.       *)

LEMMA MoveHead ==
  ASSUME NEW S, NEW s \in Seq(S), NEW t \in Seq(S), t # <<>>
  PROVE  Append(s, Head(t)) \o Tail(t) = s \o t
<1>1. Len(t) \in Nat \ {0} /\ Head(t) \in S /\ Tail(t) \in Seq(S)
      /\ Len(Tail(t)) = Len(t) - 1
  OBVIOUS
<1>2. /\ Append(s, Head(t)) \in Seq(S) /\ Len(Append(s, Head(t))) = Len(s) + 1
  BY <1>1
<1>3. Len(Append(s, Head(t)) \o Tail(t)) = Len(s \o t)
  BY <1>1, <1>2
<1>4. ASSUME NEW i \in 1..Len(s \o t)
      PROVE  (Append(s, Head(t)) \o Tail(t))[i] = (s \o t)[i]
  BY <1>1, <1>2
<1>5. Append(s, Head(t)) \o Tail(t) \in Seq(S) /\ s \o t \in Seq(S)
  BY <1>1, <1>2
<1> QED BY <1>3, <1>4, <1>5, SeqEqual

LEMMA ConcatAppend ==
  ASSUME NEW S, NEW s \in Seq(S), NEW t \in Seq(S), NEW x \in S
  PROVE  s \o Append(t, x) = Append(s \o t, x)
<1>1. /\ s \o Append(t, x) \in Seq(S) /\ Append(s \o t, x) \in Seq(S)
      /\ Len(s \o Append(t, x)) = Len(Append(s \o t, x))
  OBVIOUS
<1>2. ASSUME NEW i \in 1..Len(Append(s \o t, x))
      PROVE  (s \o Append(t, x))[i] = Append(s \o t, x)[i]
  OBVIOUS
<1> QED BY <1>1, <1>2, SeqEqual

-----------------------------------------------------------------------------
(* The inductive invariant.                                                 *)

\* What the write pump took and what is still in the channel.
Passed(c) == got[c] \o send[c]

Consecutive(s) == \A i \in 1..Len(s) - 1 : s[i + 1] = s[i] + 1

\* A client that is not registered yet has an open and empty channel.
FreshInv ==
  \A c \in Clients :
    reader[c] \in {"new", "registering"} =>
      /\ c \notin clients /\ ~closed[c] /\ writer[c] = "new"
      /\ got[c] = <<>> /\ send[c] = <<>>

\* hub.broadcast holds the messages after the current one.
QueueInv == /\ Len(broadcast) = sent - current
            /\ \A i \in 1..Len(broadcast) : broadcast[i] = current + i

\* A client that the current message was not sent to yet has the one before.
StreamInv ==
  \A c \in Clients :
    /\ Consecutive(Passed(c))
    /\ c \in clients /\ Passed(c) # <<>> /\ panic = "no" =>
         Last(Passed(c)) = IF c \in todo THEN current - 1 ELSE current

\* Only while a message is being sent are there clients to send it to.
SendingInv == IF run = "sending" THEN current > 0 ELSE todo = {}

\* The bound on the messages is checked before hub.broadcast is used.
SenderInv == sender = "checked" => sent < MaxMessages

IInv == /\ TypeOK
        /\ FreshInv
        /\ QueueInv
        /\ StreamInv
        /\ SendingInv
        /\ SenderInv
        /\ NoDoubleClose
        /\ OpenWhileServing

\* What the invariant says of the numbers and of the messages.
LEMMA Numbers ==
  ASSUME IInv
  PROVE  /\ current \in Nat /\ sent \in Nat /\ current <= sent /\ sent <= MaxMessages
         /\ broadcast # <<>> =>
              /\ Head(broadcast) = current + 1 /\ current + 1 \in 1..sent
              /\ Tail(broadcast) \in Seq(Messages)
              /\ Len(Tail(broadcast)) = Len(broadcast) - 1
              /\ \A i \in 1..Len(Tail(broadcast)) :
                   Tail(broadcast)[i] = (current + 1) + i
         /\ run = "sending" => current \in Messages
<1>1. current \in Nat /\ sent \in Nat /\ current <= sent /\ sent <= MaxMessages
  <2>1. current \in 0..sent /\ sent \in 0..MaxMessages
    BY DEF IInv, TypeOK
  <2> QED BY <2>1, MaxMessagesAssumption
<1>2. ASSUME broadcast # <<>>
      PROVE  /\ Head(broadcast) = current + 1 /\ current + 1 \in 1..sent
             /\ Tail(broadcast) \in Seq(Messages)
             /\ Len(Tail(broadcast)) = Len(broadcast) - 1
             /\ \A i \in 1..Len(Tail(broadcast)) :
                  Tail(broadcast)[i] = (current + 1) + i
  <2>1. broadcast \in Seq(Messages)
    BY DEF IInv, TypeOK
  <2>2. Len(broadcast) = sent - current /\ \A i \in 1..Len(broadcast) : broadcast[i] = current + i
    BY DEF IInv, QueueInv
  <2>3. /\ Len(broadcast) \in Nat \ {0} /\ Head(broadcast) = broadcast[1]
        /\ Tail(broadcast) \in Seq(Messages)
        /\ Len(Tail(broadcast)) = Len(broadcast) - 1
        /\ \A i \in 1..Len(Tail(broadcast)) : Tail(broadcast)[i] = broadcast[i + 1]
    BY <1>2, <2>1, HeadTailProperties
  <2>4. Head(broadcast) = current + 1 /\ current + 1 \in 1..sent
    BY <1>1, <2>2, <2>3
  <2>5. ASSUME NEW i \in 1..Len(Tail(broadcast))
        PROVE  Tail(broadcast)[i] = (current + 1) + i
    BY <1>1, <2>2, <2>3
  <2> QED BY <2>3, <2>4, <2>5
<1>3. run = "sending" => current > 0
  BY DEF IInv, SendingInv
<1> QED BY <1>1, <1>2, <1>3, MaxMessagesAssumption DEF Messages

LEMMA InvInit == Init => IInv
<1> SUFFICES ASSUME Init PROVE IInv
  OBVIOUS
<1> USE DEF Init
<1>1. TypeOK
  BY MaxMessagesAssumption, BroadcastCapAssumption, SendCapAssumption
     DEF TypeOK, Messages
<1>2. \A c \in Clients : Passed(c) = <<>>
  <2>1. <<>> \in Seq(Messages) /\ <<>> \o <<>> = <<>>
    BY ConcatEmptySeq, EmptySeq
  <2> QED BY <2>1 DEF Passed
<1>3. Consecutive(<<>>)
  BY DEF Consecutive
<1>4. StreamInv
  BY <1>2, <1>3 DEF StreamInv
<1>5. FreshInv /\ QueueInv /\ SendingInv /\ SenderInv /\ NoDoubleClose /\ OpenWhileServing
  BY DEF FreshInv, QueueInv, SendingInv, SenderInv, NoDoubleClose, OpenWhileServing, stopped
<1> QED BY <1>1, <1>4, <1>5 DEF IInv

-----------------------------------------------------------------------------
(* Type correctness.                                                        *)

LEMMA TypeStep == IInv /\ [Next]_vars => TypeOK'
<1> SUFFICES ASSUME IInv, [Next]_vars PROVE TypeOK'
  OBVIOUS
<1> TypeOK BY DEF IInv
<1> USE DEF socket
<1>1. ASSUME NEW c \in Clients, RunRegister(c) PROVE TypeOK'
  BY <1>1 DEF RunRegister, TypeOK
<1>2. ASSUME NEW c \in Clients, RunUnregister(c) PROVE TypeOK'
  <2>1. todo = {} BY <1>2 DEF RunUnregister, IInv, SendingInv
  <2> QED BY <1>2, <2>1 DEF RunUnregister, CloseSend, TypeOK
<1>3. ASSUME NEW c \in Clients, RunSend(c) PROVE TypeOK'
  <2>1. /\ todo' = todo \ {c} /\ clients' \in {clients, clients \ {c}}
        /\ UNCHANGED <<run, current, broadcast, sender, sent, shutdown, socket>>
    BY <1>3 DEF RunSend
  <2>2. todo' \subseteq clients' /\ clients' \subseteq Clients
    BY <2>1 DEF TypeOK
  <2>3. current \in Messages
    BY <1>3, Numbers DEF RunSend
  <2>4. /\ send' \in [Clients -> Seq(Messages)]
        /\ \A d \in Clients : Len(send'[d]) <= SendCap
    <3>0. /\ send \in [Clients -> Seq(Messages)]
          /\ \A d \in Clients : Len(send[d]) <= SendCap
      BY DEF TypeOK
    <3>1. CASE send' = send BY <3>0, <3>1
    <3>2. CASE /\ Len(send[c]) < SendCap
               /\ send' = [send EXCEPT ![c] = Append(@, current)]
      <4>1. /\ Append(send[c], current) \in Seq(Messages)
            /\ Len(Append(send[c], current)) = Len(send[c]) + 1
            /\ Len(send[c]) \in Nat
        BY <2>3, <3>0
      <4>2. Len(Append(send[c], current)) <= SendCap
        BY <3>2, <4>1, SendCapAssumption
      <4> QED BY <3>0, <3>2, <4>1, <4>2
    <3> QED BY <1>3, <3>1, <3>2 DEF RunSend
  <2>5. /\ closed' \in [Clients -> BOOLEAN]
        /\ panic' \in {"no", "send on closed channel", "close of closed channel"}
    BY <1>3 DEF RunSend, CloseSend, TypeOK
  <2> QED BY <2>1, <2>2, <2>4, <2>5 DEF TypeOK
<1>4. ASSUME RunBroadcast PROVE TypeOK'
  <2>1. /\ current' \in 0..sent' /\ broadcast' \in Seq(Messages)
        /\ Len(broadcast') = Len(broadcast) - 1
    BY <1>4, Numbers DEF RunBroadcast
  <2>2. Len(broadcast) <= BroadcastCap /\ Len(broadcast) \in Nat
    <3>1. broadcast \in Seq(Messages) /\ Len(broadcast) <= BroadcastCap
      BY DEF TypeOK
    <3> QED BY <3>1, LenProperties
  <2>3. Len(broadcast') <= BroadcastCap
    BY <2>1, <2>2, BroadcastCapAssumption
  <2> QED BY <1>4, <2>1, <2>3 DEF RunBroadcast, TypeOK
<1>5. ASSUME RunSent \/ RunDone PROVE TypeOK'
  BY <1>5 DEF RunSent, RunDone, CloseSend, TypeOK, IInv, SendingInv
<1>6. ASSUME BroadcastCheck PROVE TypeOK'
  BY <1>6 DEF BroadcastCheck, TypeOK
<1>7. ASSUME BroadcastSend PROVE TypeOK'
  <2>1. CASE UNCHANGED <<sent, broadcast>>
    BY <1>7, <2>1 DEF BroadcastSend, TypeOK
  <2>2. CASE /\ Len(broadcast) < BroadcastCap /\ sent' = sent + 1
             /\ broadcast' = Append(broadcast, sent')
    <3>1. sent < MaxMessages
      BY <1>7 DEF BroadcastSend, IInv, SenderInv
    <3>2. sent' \in Messages /\ sent' \in 0..MaxMessages /\ current \in 0..sent'
      BY <2>2, <3>1, Numbers, MaxMessagesAssumption DEF Messages
    <3> broadcast \in Seq(Messages)
      BY DEF TypeOK
    <3>3. broadcast' \in Seq(Messages) /\ Len(broadcast') = Len(broadcast) + 1
          /\ Len(broadcast) \in Nat
      BY <2>2, <3>2
    <3>4. Len(broadcast') <= BroadcastCap
      BY <2>2, <3>3, BroadcastCapAssumption
    <3> QED BY <1>7, <3>2, <3>3, <3>4 DEF BroadcastSend, TypeOK
  <2> QED BY <1>7, <2>1, <2>2 DEF BroadcastSend
<1>8. ASSUME ShutdownStop \/ ShutdownDone PROVE TypeOK'
  BY <1>8 DEF ShutdownStop, ShutdownDone, TypeOK
<1>9. ASSUME NEW c \in Clients, RegisterCheck(c) \/ RegisterDone(c) PROVE TypeOK'
  BY <1>9 DEF RegisterCheck, RegisterDone, StartPumps, TypeOK
<1>10. ASSUME NEW c \in Clients, UnregisterCheck(c) \/ UnregisterDone(c) PROVE TypeOK'
  BY <1>10 DEF UnregisterCheck, UnregisterDone, CloseSend, TypeOK
<1>11. ASSUME NEW c \in Clients, WritePumpTake(c) PROVE TypeOK'
  <2>0. send[c] # <<>>
    BY <1>11 DEF WritePumpTake
  <2>1. /\ send[c] \in Seq(Messages)
        /\ Len(send[c]) \in Nat /\ Len(send[c]) <= SendCap
    <3>1. send[c] \in Seq(Messages) /\ Len(send[c]) <= SendCap
      BY DEF TypeOK
    <3> QED BY <3>1, LenProperties
  <2>2. /\ Head(send[c]) \in Messages /\ Tail(send[c]) \in Seq(Messages)
        /\ Len(Tail(send[c])) = Len(send[c]) - 1
    BY <2>0, <2>1, HeadTailProperties
  <2>3. Len(Tail(send[c])) <= SendCap
    BY <2>1, <2>2, SendCapAssumption
  <2>4. got' \in [Clients -> Seq(Messages)]
    <3>1. /\ got \in [Clients -> Seq(Messages)]
          /\ got' = [got EXCEPT ![c] = Append(@, Head(send[c]))]
      BY <1>11 DEF WritePumpTake, TypeOK
    <3>2. Append(got[c], Head(send[c])) \in Seq(Messages)
      BY <2>2, <3>1
    <3> QED BY <3>1, <3>2
  <2>5. /\ send' \in [Clients -> Seq(Messages)]
        /\ \A d \in Clients : Len(send'[d]) <= SendCap
    BY <1>11, <2>2, <2>3 DEF WritePumpTake, TypeOK
  <2> QED BY <1>11, <2>4, <2>5 DEF WritePumpTake, TypeOK
<1>12. ASSUME NEW c \in Clients, WritePumpEnds(c) PROVE TypeOK'
  BY <1>12 DEF WritePumpEnds, TypeOK
<1>13. ASSUME UNCHANGED vars PROVE TypeOK'
  BY <1>13 DEF vars, TypeOK
<1> QED
  BY <1>1, <1>2, <1>3, <1>4, <1>5, <1>6, <1>7, <1>8, <1>9, <1>10, <1>11, <1>12, <1>13
     DEF Next, Run, Client

-----------------------------------------------------------------------------
(* The smaller parts of the invariant.                                      *)

LEMMA QueueStep == IInv /\ [Next]_vars => QueueInv' /\ SendingInv' /\ SenderInv'
<1> SUFFICES ASSUME IInv, [Next]_vars PROVE QueueInv' /\ SendingInv' /\ SenderInv'
  OBVIOUS
<1>0. QueueInv /\ SendingInv /\ SenderInv
  BY DEF IInv
<1>1. CASE RunBroadcast
  <2>1. /\ QueueInv'
    BY <1>0, <1>1, Numbers DEF RunBroadcast, QueueInv
  <2>2. SendingInv' /\ SenderInv'
    BY <1>0, <1>1, Numbers DEF RunBroadcast, SendingInv, SenderInv
  <2> QED BY <2>1, <2>2
<1>2. CASE BroadcastSend
  <2>1. CASE UNCHANGED <<sent, broadcast>>
    BY <1>0, <1>2, <2>1 DEF BroadcastSend, QueueInv, SendingInv, SenderInv
  <2>2. CASE sent' = sent + 1 /\ broadcast' = Append(broadcast, sent')
    <3>1. broadcast \in Seq(Messages) /\ Len(broadcast) = sent - current
      BY <1>0 DEF IInv, TypeOK, QueueInv
    <3>2. sent' \in Nat /\ sent \in Nat /\ current \in Nat /\ current' = current
      BY <1>2, <2>2, Numbers DEF BroadcastSend
    <3>3. /\ Len(broadcast') = Len(broadcast) + 1
          /\ \A i \in 1..Len(broadcast) : broadcast'[i] = broadcast[i]
          /\ broadcast'[Len(broadcast) + 1] = sent'
      BY <2>2, <3>1
    <3>4. \A i \in 1..Len(broadcast') :
            i \in 1..Len(broadcast) \/ i = Len(broadcast) + 1
      BY <3>1, <3>2, <3>3
    <3>5. Len(broadcast') = sent' - current'
      BY <2>2, <3>1, <3>2, <3>3
    <3>6. ASSUME NEW i \in 1..Len(broadcast') PROVE broadcast'[i] = current' + i
      <4>1. CASE i \in 1..Len(broadcast)
        BY <1>0, <3>2, <3>3, <4>1 DEF QueueInv
      <4>2. CASE i = Len(broadcast) + 1
        BY <2>2, <3>1, <3>2, <3>3, <4>2
      <4> QED BY <3>4, <4>1, <4>2
    <3>7. QueueInv'
      BY <3>5, <3>6 DEF QueueInv
    <3> QED BY <1>0, <1>2, <3>7 DEF BroadcastSend, SendingInv, SenderInv
  <2> QED BY <1>2, <2>1, <2>2 DEF BroadcastSend
<1>3. CASE ~RunBroadcast /\ ~BroadcastSend
  <2>1. UNCHANGED <<sent, current, broadcast>>
    BY <1>3 DEF Next, vars, Run, Client, RunRegister, RunUnregister, RunSend, RunSent,
       RunDone, BroadcastCheck, ShutdownStop, ShutdownDone, RegisterCheck,
       RegisterDone, UnregisterCheck, UnregisterDone, WritePumpTake, WritePumpEnds
  <2>2. QueueInv'
    BY <1>0, <2>1 DEF QueueInv
  <2>3. SendingInv'
    BY <1>0, <1>3, <2>1 DEF SendingInv, Next, vars, Run, Client, RunRegister,
       RunUnregister, RunSend, RunSent, RunDone, BroadcastCheck, ShutdownStop,
       ShutdownDone, RegisterCheck, RegisterDone, UnregisterCheck, UnregisterDone,
       WritePumpTake, WritePumpEnds
  <2>4. SenderInv'
    BY <1>0, <1>3, <2>1 DEF SenderInv, Next, vars, Run, Client, RunRegister,
       RunUnregister, RunSend, RunSent, RunDone, BroadcastCheck, ShutdownStop,
       ShutdownDone, RegisterCheck, RegisterDone, UnregisterCheck, UnregisterDone,
       WritePumpTake, WritePumpEnds
  <2> QED BY <2>2, <2>3, <2>4
<1> QED BY <1>1, <1>2, <1>3

\* A channel in the map is closed only by the hub itself, which takes the client
\* out of the map, or by a read pump that has seen hub.stopped.
LEMMA OpenStep == IInv /\ [Next]_vars => OpenWhileServing' /\ NoDoubleClose' /\ FreshInv'
<1> SUFFICES ASSUME IInv, [Next]_vars
             PROVE  OpenWhileServing' /\ NoDoubleClose' /\ FreshInv'
  OBVIOUS
<1>0. /\ OpenWhileServing /\ NoDoubleClose /\ FreshInv
      /\ todo \subseteq clients /\ clients \subseteq Clients
      /\ closed \in [Clients -> BOOLEAN]
      /\ DOMAIN reader = Clients /\ DOMAIN writer = Clients
      /\ DOMAIN send = Clients /\ DOMAIN got = Clients
  BY DEF IInv, TypeOK
<1> USE <1>0 DEF OpenWhileServing, NoDoubleClose, FreshInv, stopped, done, CloseSend
<1>1. ASSUME NEW c \in Clients, RunRegister(c) \/ RunUnregister(c)
      PROVE  OpenWhileServing' /\ NoDoubleClose' /\ FreshInv'
  <2>1. CASE RunRegister(c)
    BY <2>1 DEF RunRegister
  <2>2. CASE RunUnregister(c)
    BY <2>2 DEF RunUnregister
  <2> QED BY <1>1, <2>1, <2>2
<1>2. ASSUME NEW c \in Clients, RunSend(c)
      PROVE  OpenWhileServing' /\ NoDoubleClose' /\ FreshInv'
  BY <1>2 DEF RunSend, socket
<1>3. ASSUME RunBroadcast \/ RunSent \/ RunDone
      PROVE  OpenWhileServing' /\ NoDoubleClose' /\ FreshInv'
  BY <1>3 DEF RunBroadcast, RunSent, RunDone, socket
<1>4. ASSUME BroadcastCheck \/ BroadcastSend \/ ShutdownStop \/ ShutdownDone
      PROVE  OpenWhileServing' /\ NoDoubleClose' /\ FreshInv'
  BY <1>4 DEF BroadcastCheck, BroadcastSend, ShutdownStop, ShutdownDone, socket
<1>5. ASSUME NEW c \in Clients, RegisterCheck(c) \/ RegisterDone(c)
      PROVE  OpenWhileServing' /\ NoDoubleClose' /\ FreshInv'
  BY <1>5 DEF RegisterCheck, RegisterDone, StartPumps
<1>6. ASSUME NEW c \in Clients, UnregisterCheck(c) \/ UnregisterDone(c)
      PROVE  OpenWhileServing' /\ NoDoubleClose' /\ FreshInv'
  BY <1>6 DEF UnregisterCheck, UnregisterDone
<1>7. ASSUME NEW c \in Clients, WritePumpTake(c) \/ WritePumpEnds(c)
      PROVE  OpenWhileServing' /\ NoDoubleClose' /\ FreshInv'
  BY <1>7 DEF WritePumpTake, WritePumpEnds
<1>8. CASE UNCHANGED vars
  BY <1>8 DEF vars
<1> QED BY <1>1, <1>2, <1>3, <1>4, <1>5, <1>6, <1>7, <1>8 DEF Next, Run, Client

-----------------------------------------------------------------------------
(* The streams.                                                             *)

\* Run has put the current message into the channel of c.
Delivered(c) == /\ run = "sending" /\ c \in todo
                /\ todo' = todo \ {c}
                /\ Passed(c)' = Append(Passed(c), current)
                /\ UNCHANGED <<run, clients, current, panic>>

\* Or it has found the channel closed, or full and dropped the client.
Refused(c) == /\ RunSend(c)
              /\ Passed(c)' = Passed(c)
              /\ panic' # "no" \/ c \notin clients'

\* No other step changes what has been sent to a client.
LEMMA StreamChange ==
  ASSUME IInv, [Next]_vars, NEW c \in Clients
  PROVE  Delivered(c) \/ Refused(c) \/ (Passed(c)' = Passed(c) /\ ~RunSend(c))
<1>0. /\ got \in [Clients -> Seq(Messages)] /\ send \in [Clients -> Seq(Messages)]
  BY DEF IInv, TypeOK
<1>1. CASE RunSend(c)
  <2>1. CASE UNCHANGED send /\ (panic' # "no" \/ c \notin clients')
    BY <1>1, <2>1 DEF RunSend, socket, Passed, Refused
  <2>2. CASE /\ send' = [send EXCEPT ![c] = Append(@, current)]
             /\ UNCHANGED <<clients, closed, panic>>
    <3>1. current \in Messages
      BY <1>1, Numbers DEF RunSend
    <3>2. got[c] \o Append(send[c], current) = Append(Passed(c), current)
      BY <1>0, <3>1, ConcatAppend DEF Passed
    <3>3. Passed(c)' = Append(Passed(c), current)
      BY <1>0, <1>1, <2>2, <3>2 DEF RunSend, socket, Passed
    <3> QED BY <1>1, <2>2, <3>3 DEF RunSend, Delivered
  <2> QED BY <1>1, <2>1, <2>2 DEF RunSend, CloseSend
<1>2. CASE ~RunSend(c)
  <2>1. CASE UNCHANGED <<got, send>>
    BY <1>2, <2>1 DEF Passed
  <2>2. ASSUME NEW d \in Clients, RunSend(d) PROVE Passed(c)' = Passed(c)
    BY <1>0, <1>2, <2>2 DEF RunSend, socket, Passed
  <2>3. ASSUME NEW d \in Clients, WritePumpTake(d) PROVE Passed(c)' = Passed(c)
    <3>1. /\ send[d] # <<>>
          /\ got' = [got EXCEPT ![d] = Append(@, Head(send[d]))]
          /\ send' = [send EXCEPT ![d] = Tail(@)]
      BY <2>3 DEF WritePumpTake
    <3>2. Append(got[d], Head(send[d])) \o Tail(send[d]) = got[d] \o send[d]
      BY <1>0, <3>1, MoveHead
    <3>3. CASE c = d BY <1>0, <3>1, <3>2, <3>3 DEF Passed
    <3>4. CASE c # d BY <1>0, <3>1, <3>4 DEF Passed
    <3> QED BY <3>3, <3>4
  <2> QED
    BY <1>2, <2>1, <2>2, <2>3 DEF Next, vars, socket, Run, Client, RunRegister,
       RunUnregister, RunBroadcast, RunSent, RunDone, BroadcastCheck, BroadcastSend,
       ShutdownStop, ShutdownDone, RegisterCheck, RegisterDone, StartPumps,
       UnregisterCheck, UnregisterDone, WritePumpEnds
<1> QED BY <1>1, <1>2

\* A stream that ends with x stays consecutive when x + 1 is appended.
LEMMA ConsecutiveAppend ==
  ASSUME NEW s \in Seq(Messages), Consecutive(s), NEW x \in Messages,
         s # <<>> => Last(s) = x - 1
  PROVE  /\ Consecutive(Append(s, x))
         /\ Append(s, x) # <<>> /\ Last(Append(s, x)) = x
<1>1. /\ Len(s) \in Nat /\ Len(Append(s, x)) = Len(s) + 1
      /\ \A i \in 1..Len(s) : Append(s, x)[i] = s[i]
      /\ Append(s, x)[Len(s) + 1] = x
  OBVIOUS
<1>2. x \in Nat
  BY MaxMessagesAssumption DEF Messages
<1>3. ASSUME NEW i \in 1..Len(Append(s, x)) - 1
      PROVE  Append(s, x)[i + 1] = Append(s, x)[i] + 1
  <2>1. CASE i < Len(s)
    <3>1. i \in 1..Len(s) - 1 /\ i \in 1..Len(s) /\ i + 1 \in 1..Len(s)
      BY <1>1, <2>1
    <3> QED BY <1>1, <3>1 DEF Consecutive
  <2>2. CASE i = Len(s)
    <3>1. s # <<>> /\ i \in 1..Len(s) /\ s[Len(s)] = x - 1
      BY <1>1, <2>2 DEF Last
    <3> QED BY <1>1, <1>2, <2>2, <3>1
  <2> QED BY <1>1, <2>1, <2>2
<1>4. Consecutive(Append(s, x))
  BY <1>3 DEF Consecutive
<1>5. Append(s, x) # <<>> /\ Last(Append(s, x)) = x
  BY <1>1 DEF Last
<1> QED BY <1>4, <1>5

LEMMA StreamStep == IInv /\ [Next]_vars => StreamInv'
<1> SUFFICES ASSUME IInv, [Next]_vars, NEW c \in Clients
             PROVE  /\ Consecutive(Passed(c)')
                    /\ c \in clients' /\ Passed(c)' # <<>> /\ panic' = "no" =>
                         Last(Passed(c)') = IF c \in todo' THEN current' - 1
                                                          ELSE current'
  BY DEF StreamInv, Consecutive, Last, Passed
<1>1. /\ Consecutive(Passed(c))
      /\ c \in clients /\ Passed(c) # <<>> /\ panic = "no" =>
           Last(Passed(c)) = IF c \in todo THEN current - 1 ELSE current
      /\ Passed(c) \in Seq(Messages)
      /\ todo \subseteq clients /\ current \in Nat
  <2>1. got[c] \in Seq(Messages) /\ send[c] \in Seq(Messages) /\ todo \subseteq clients
    BY DEF IInv, TypeOK
  <2>2. Passed(c) \in Seq(Messages)
    BY <2>1 DEF Passed
  <2>3. /\ Consecutive(Passed(c))
        /\ c \in clients /\ Passed(c) # <<>> /\ panic = "no" =>
             Last(Passed(c)) = IF c \in todo THEN current - 1 ELSE current
    BY DEF IInv, StreamInv
  <2> QED BY <2>1, <2>2, <2>3, Numbers
<1>2. CASE Delivered(c)
  <2>1. current \in Messages
    BY <1>2, Numbers DEF Delivered
  <2>2. CASE panic = "no"
    <3>1. Passed(c) # <<>> => Last(Passed(c)) = current - 1
      BY <1>1, <1>2, <2>2 DEF Delivered
    <3> QED BY <1>1, <1>2, <2>1, <3>1, ConsecutiveAppend DEF Delivered
  <2>3. CASE panic # "no"
    BY <2>3, <1>2 DEF Next, vars, Delivered
  <2> QED BY <2>2, <2>3
<1>3. CASE Refused(c)
  BY <1>1, <1>3 DEF Refused
<1>4. CASE Passed(c)' = Passed(c) /\ ~RunSend(c)
  <2>1. Consecutive(Passed(c)')
    BY <1>1, <1>4
  <2>2. ASSUME c \in clients', Passed(c)' # <<>>, panic' = "no"
        PROVE  Last(Passed(c)') = IF c \in todo' THEN current' - 1 ELSE current'
    <3> USE <1>1, <1>4, <2>2
    <3>1. CASE RunBroadcast
      <4>1. current' = current + 1 /\ todo' = clients /\ clients' = clients /\ panic = "no"
        BY <3>1, Numbers DEF RunBroadcast
      <4>2. c \notin todo
        BY <3>1 DEF RunBroadcast, IInv, SendingInv
      <4> QED BY <4>1, <4>2
    <3>2. ASSUME NEW d \in Clients, RunRegister(d)
          PROVE  Last(Passed(c)') = IF c \in todo' THEN current' - 1 ELSE current'
      <4>1. c = d => Passed(c) = <<>>
        BY <3>2, ConcatEmptySeq, EmptySeq DEF RunRegister, IInv, FreshInv, Passed
      <4> QED BY <3>2, <4>1 DEF RunRegister
    <3>3. ASSUME NEW d \in Clients, RunSend(d)
          PROVE  Last(Passed(c)') = IF c \in todo' THEN current' - 1 ELSE current'
      <4>1. /\ c # d /\ c \in clients /\ panic = "no"
            /\ todo' = todo \ {d} /\ current' = current
        BY <3>3 DEF RunSend, CloseSend
      <4> QED BY <4>1
    <3>4. CASE UNCHANGED vars
      BY <3>4 DEF vars
    <3>5. CASE UNCHANGED <<todo, current, panic>> /\ clients' \subseteq clients
      BY <3>5
    <3> QED
      BY <3>1, <3>2, <3>3, <3>4, <3>5 DEF Next, socket, Run, Client, RunUnregister,
         RunSent, RunDone, CloseSend, BroadcastCheck, BroadcastSend, ShutdownStop,
         ShutdownDone, RegisterCheck, RegisterDone, StartPumps, UnregisterCheck,
         UnregisterDone, WritePumpTake, WritePumpEnds
  <2> QED BY <2>1, <2>2
<1> QED BY <1>2, <1>3, <1>4, StreamChange

-----------------------------------------------------------------------------
(* The hub is a stream of messages.                                         *)

\* Nothing that the stream shows has changed.
Still == UNCHANGED <<clients, todo, current, send, got, panic>>

LEMMA StillIsStutter == Still => UNCHANGED Stream!streamVars
BY DEF Still, Stream!streamVars

\* A channel that is sent to grows by the current message.
LEMMA SendIsPass ==
  ASSUME IInv, panic = "no", NEW c \in Clients, RunSend(c)
  PROVE  Stream!StreamNext
<1>1. /\ c \in todo /\ todo' = todo \ {c} /\ todo \subseteq clients
      /\ UNCHANGED <<current, got>>
  BY DEF RunSend, socket, IInv, TypeOK
<1>2. CASE panic' = "send on closed channel" /\ UNCHANGED send
  <2>1. Stream!Leave(clients)
    BY <1>1, <1>2 DEF Stream!Leave
  <2> QED BY <2>1 DEF Stream!StreamNext
<1>3. CASE /\ send' = [send EXCEPT ![c] = Append(send[c], current)]
           /\ UNCHANGED <<clients, panic>>
  <2>1. Stream!Pass(c)
    BY <1>1, <1>3 DEF Stream!Pass
  <2> QED BY <2>1 DEF Stream!StreamNext
<1>4. CASE clients' = clients \ {c} /\ UNCHANGED <<send, panic>>
  <2>1. Stream!Leave({c}) /\ {c} \in SUBSET clients
    BY <1>1, <1>4 DEF Stream!Leave
  <2> QED BY <2>1 DEF Stream!StreamNext
<1> QED BY <1>2, <1>3, <1>4, Zenon DEF RunSend, CloseSend

\* The other cases of Run's select.
LEMMA SelectIsStream ==
  ASSUME IInv, panic = "no", Run, ~(\E c \in Clients : RunSend(c))
  PROVE  [Stream!StreamNext]_(Stream!streamVars)
<1>0. run = "select" => todo = {}
  BY DEF IInv, SendingInv
<1>1. ASSUME NEW c \in Clients, RunRegister(c) PROVE Stream!StreamNext
  <2>1. c \notin clients /\ got[c] = <<>> /\ send[c] = <<>>
    BY <1>1 DEF RunRegister, IInv, FreshInv
  <2>2. Stream!Join(c)
    BY <1>1, <2>1 DEF RunRegister, Stream!Join
  <2> QED BY <2>2 DEF Stream!StreamNext
<1>2. ASSUME NEW c \in Clients, RunUnregister(c) PROVE [Stream!StreamNext]_(Stream!streamVars)
  <2>1. /\ clients' = clients \ {c} /\ UNCHANGED <<todo, current, send, got, panic>> /\ todo = {}
    BY <1>0, <1>2 DEF RunUnregister, CloseSend
  <2>2. CASE c \in clients
    <3>1. Stream!Leave({c}) /\ {c} \in SUBSET clients
      BY <2>1, <2>2 DEF Stream!Leave
    <3> QED BY <3>1 DEF Stream!StreamNext
  <2>3. CASE c \notin clients
    <3>1. Still
      BY <2>1, <2>3 DEF Still
    <3> QED BY <3>1, StillIsStutter
  <2> QED BY <2>2, <2>3
<1>3. ASSUME RunBroadcast PROVE Stream!StreamNext
  <2>1. current' = current + 1 /\ todo = {} /\ todo' = clients
    BY <1>0, <1>3, Numbers DEF RunBroadcast
  <2>2. Stream!Make
    BY <1>3, <2>1 DEF RunBroadcast, socket, Stream!Make
  <2> QED BY <2>2 DEF Stream!StreamNext
<1>4. ASSUME RunSent PROVE Still
  BY <1>4 DEF RunSent, socket, Still
<1>5. ASSUME RunDone PROVE Stream!StreamNext
  <2>1. Stream!Leave(clients)
    BY <1>0, <1>5 DEF RunDone, CloseSend, socket, Stream!Leave
  <2> QED BY <2>1 DEF Stream!StreamNext
<1> QED BY <1>1, <1>2, <1>3, <1>4, <1>5, StillIsStutter DEF Run

\* Nobody else touches the map, and a write pump receives what was passed to it.
LEMMA StepIsStream ==
  ASSUME IInv, [Next]_vars
  PROVE  [Stream!StreamNext]_(Stream!streamVars)
<1>1. CASE panic = "no" /\ Run
  BY <1>1, SendIsPass, SelectIsStream
<1>2. CASE BroadcastCheck \/ BroadcastSend \/ ShutdownStop \/ ShutdownDone
  <2>1. Still
    BY <1>2 DEF BroadcastCheck, BroadcastSend, ShutdownStop, ShutdownDone, socket, Still
  <2> QED BY <2>1, StillIsStutter
<1>3. ASSUME NEW c \in Clients, Client(c), ~WritePumpTake(c)
      PROVE  Still
  BY <1>3 DEF Client, RegisterCheck, RegisterDone, StartPumps, UnregisterCheck,
     UnregisterDone, CloseSend, WritePumpEnds, Still
<1>4. ASSUME NEW c \in Clients, WritePumpTake(c) PROVE Stream!StreamNext
  <2>1. Stream!Receive(c)
    BY <1>4 DEF WritePumpTake, Stream!Receive
  <2> QED BY <2>1 DEF Stream!StreamNext
<1>5. CASE UNCHANGED vars
  <2>1. Still
    BY <1>5 DEF vars, socket, Still
  <2> QED BY <2>1, StillIsStutter
<1> QED BY <1>1, <1>2, <1>3, <1>4, <1>5, StillIsStutter DEF Next

-----------------------------------------------------------------------------
(* Theorems.                                                                *)

LEMMA Invariance == Spec => []IInv
<1>1. IInv /\ [Next]_vars => IInv'
  BY TypeStep, QueueStep, OpenStep, StreamStep DEF IInv
<1> QED BY InvInit, <1>1, PTL DEF Spec

\* Type correctness of the hub, its channels within their capacities included.
THEOREM TypeCorrect == Spec => []TypeOK
<1>1. IInv => TypeOK BY DEF IInv
<1> QED BY Invariance, <1>1, PTL

\* Until somebody calls Shutdown no broadcast meets a closed channel, whichever
\* clients come, go or are dropped: Run cannot panic.
THEOREM OpenUntilShutdown == Spec => []OpenWhileServing
<1>1. IInv => OpenWhileServing BY DEF IInv
<1> QED BY Invariance, <1>1, PTL

\* What a client receives has no gaps, and a client in the map is up to date.
THEOREM NoGaps == Spec => []GapFree
<1>1. IInv => GapFree
  <2> SUFFICES ASSUME IInv, NEW c \in Clients
               PROVE  /\ \A i \in 1..Len(Passed(c)) - 1 : Passed(c)[i + 1] = Passed(c)[i] + 1
                      /\ c \in clients \ todo /\ Passed(c) # <<>> /\ panic = "no" =>
                           Last(Passed(c)) = current
    BY DEF GapFree, Passed
  <2> QED BY DEF IInv, StreamInv, Consecutive
<1> QED BY Invariance, <1>1, PTL

\* The hub implements the stream of messages it stands for, through registrations,
\* drops, the shutdown and the death of the process.
THEOREM IsAStream == Spec => ImplementsStream
<1>1. Init => Stream!StreamInit
  BY DEF Init, Stream!StreamInit
<1> QED BY <1>1, Invariance, StepIsStream, PTL DEF Spec, ImplementsStream, Stream!StreamSpec
=============================================================================
