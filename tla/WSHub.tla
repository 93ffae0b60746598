------------------------------- MODULE WSHub -------------------------------
(***************************************************************************)
(* The WebSocket hub (service/monitor/ws_hub.go): the goroutine of Run, a  *)
(* handler with a read pump and a write pump per client, goroutines that   *)
(* call BroadcastMessage, and Shutdown.  A send on a closed channel and a  *)
(* second close of a channel panic, and nothing recovers in Run.           *)
(***************************************************************************)
EXTENDS Naturals, Sequences

CONSTANTS Clients,        \* connections, over the lifetime of the hub
          MaxMessages,    \* bound: messages that are broadcast
          BroadcastCap,   \* capacity of hub.broadcast (1024 in the code)
          SendCap         \* capacity of client.send (256 in the code)

ASSUME MaxMessagesAssumption == MaxMessages \in Nat
ASSUME BroadcastCapAssumption == BroadcastCap \in Nat \ {0}
ASSUME SendCapAssumption == SendCap \in Nat \ {0}

VARIABLES run,        \* Run: selecting, sending a message to the clients, exited
          clients,    \* hub.clients
          todo,       \* the clients that the message still has to be sent to
          current,    \* number of the last message taken from hub.broadcast
          broadcast,  \* hub.broadcast
          sender,     \* a caller of BroadcastMessage: idle or past its check
          sent,       \* messages put on hub.broadcast so far
          shutdown,   \* Shutdown: not called, hub.stopped set, hub.done closed
          reader,     \* per client: the handler until it starts the pumps, then
                      \* the read pump
          writer,     \* per client: the write pump
          send,       \* per client: client.send
          closed,     \* per client: client.send is closed
          got,        \* per client: what the write pump took from client.send
          panic       \* why the process died, if it did

socket == <<reader, writer, got>>
vars == <<run, clients, todo, current, broadcast, sender, sent, shutdown, reader,
          writer, send, closed, got, panic>>

Messages == 1..MaxMessages

stopped == shutdown # "no"
done == shutdown = "done"

TypeOK == /\ run \in {"select", "sending", "exited"}
          /\ clients \subseteq Clients
          /\ todo \subseteq clients
          /\ current \in 0..sent
          /\ broadcast \in Seq(Messages) /\ Len(broadcast) <= BroadcastCap
          /\ sender \in {"idle", "checked"}
          /\ sent \in 0..MaxMessages
          /\ shutdown \in {"no", "stopped", "done"}
          /\ reader \in [Clients -> {"new", "registering", "reading",
                                     "unregistering", "done"}]
          /\ writer \in [Clients -> {"new", "writing", "done"}]
          /\ send \in [Clients -> Seq(Messages)]
          /\ \A c \in Clients : Len(send[c]) <= SendCap
          /\ closed \in [Clients -> BOOLEAN]
          /\ got \in [Clients -> Seq(Messages)]
          /\ panic \in {"no", "send on closed channel", "close of closed channel"}

Init == /\ run = "select"
        /\ clients = {} /\ todo = {}
        /\ current = 0 /\ sent = 0
        /\ broadcast = <<>>
        /\ sender = "idle"
        /\ shutdown = "no"
        /\ reader = [c \in Clients |-> "new"]
        /\ writer = [c \in Clients |-> "new"]
        /\ send = [c \in Clients |-> <<>>]
        /\ closed = [c \in Clients |-> FALSE]
        /\ got = [c \in Clients |-> <<>>]
        /\ panic = "no"

-----------------------------------------------------------------------------
(* closeSend, for a set of clients: sync.Once makes a second close a no-op. *)

CloseSend(S) == /\ closed' = [c \in Clients |-> closed[c] \/ c \in S]
                /\ UNCHANGED panic

-----------------------------------------------------------------------------
(* Run: one action for each case of its select.  The order in which a range *)
(* over a map visits the clients is arbitrary.                              *)

RunRegister(c) ==
  /\ run = "select" /\ reader[c] = "registering"
  /\ clients' = clients \cup {c}
  /\ reader' = [reader EXCEPT ![c] = "reading"]
  /\ writer' = [writer EXCEPT ![c] = "writing"]
  /\ UNCHANGED <<run, todo, current, broadcast, sender, sent, shutdown, send,
                 closed, got, panic>>

RunUnregister_WithoutDelete(c) ==
  /\ run = "select" /\ reader[c] = "unregistering"
  /\ UNCHANGED clients
  /\ CloseSend(clients \cap {c})
  /\ reader' = [reader EXCEPT ![c] = "done"]
  /\ UNCHANGED <<run, todo, current, broadcast, sender, sent, shutdown, writer,
                 send, got>>

\* A client that a broadcast has dropped is not in the map any more.
RunUnregister(c) ==
  /\ run = "select" /\ reader[c] = "unregistering"
  /\ clients' = clients \ {c}
  /\ CloseSend(clients \cap {c})
  /\ reader' = [reader EXCEPT ![c] = "done"]
  /\ UNCHANGED <<run, todo, current, broadcast, sender, sent, shutdown, writer,
                 send, got>>

RunBroadcast ==
  /\ run = "select" /\ broadcast # <<>>
  /\ run' = "sending"
  /\ current' = Head(broadcast)
  /\ broadcast' = Tail(broadcast)
  /\ todo' = clients
  /\ UNCHANGED <<clients, sender, sent, shutdown, socket, send, closed, panic>>

RunSend_SkipsSlowClient(c) ==
  /\ run = "sending" /\ c \in todo
  /\ todo' = todo \ {c}
  /\ IF closed[c]
     THEN panic' = "send on closed channel" /\ UNCHANGED <<clients, send, closed>>
     ELSE /\ send' = IF Len(send[c]) < SendCap
                     THEN [send EXCEPT ![c] = Append(@, current)] ELSE send
          /\ UNCHANGED <<clients, closed, panic>>
  /\ UNCHANGED <<run, current, broadcast, sender, sent, shutdown, socket>>

\* A client with a full channel is dropped.
RunSend(c) ==
  /\ run = "sending" /\ c \in todo
  /\ todo' = todo \ {c}
  /\ \/ /\ closed[c]
        /\ panic' = "send on closed channel"
        /\ UNCHANGED <<clients, send, closed>>
     \/ /\ ~closed[c] /\ Len(send[c]) < SendCap
        /\ send' = [send EXCEPT ![c] = Append(@, current)]
        /\ UNCHANGED <<clients, closed, panic>>
     \/ /\ ~closed[c] /\ Len(send[c]) = SendCap
        /\ clients' = clients \ {c}
        /\ CloseSend({c})
        /\ UNCHANGED send
  /\ UNCHANGED <<run, current, broadcast, sender, sent, shutdown, socket>>

RunSent ==
  /\ run = "sending" /\ todo = {}
  /\ run' = "select"
  /\ UNCHANGED <<clients, todo, current, broadcast, sender, sent, shutdown,
                 socket, send, closed, panic>>

\* drainOnShutdown.
RunDone ==
  /\ run = "select" /\ done
  /\ run' = "exited"
  /\ CloseSend(clients)
  /\ clients' = {}
  /\ UNCHANGED <<todo, current, broadcast, sender, sent, shutdown, socket, send>>

-----------------------------------------------------------------------------
(* BroadcastMessage: the check of hub.stopped, then a non-blocking send.    *)

BroadcastCheck ==
  /\ sender = "idle" /\ ~stopped /\ sent < MaxMessages
  /\ sender' = "checked"
  /\ UNCHANGED <<run, clients, todo, current, broadcast, sent, shutdown, socket,
                 send, closed, panic>>

BroadcastSend ==
  /\ sender = "checked"
  /\ sender' = "idle"
  /\ \/ /\ Len(broadcast) < BroadcastCap
        /\ sent' = sent + 1
        /\ broadcast' = Append(broadcast, sent')
     \/ Len(broadcast) = BroadcastCap /\ UNCHANGED <<sent, broadcast>>
  /\ UNCHANGED <<run, clients, todo, current, shutdown, socket, send, closed, panic>>

-----------------------------------------------------------------------------
(* Shutdown.  Later calls find hub.stopped set and return.                  *)

ShutdownStop ==
  /\ shutdown = "no"
  /\ shutdown' = "stopped"
  /\ UNCHANGED <<run, clients, todo, current, broadcast, sender, sent, socket,
                 send, closed, panic>>

ShutdownDone ==
  /\ shutdown = "stopped"
  /\ shutdown' = "done"
  /\ UNCHANGED <<run, clients, todo, current, broadcast, sender, sent, socket,
                 send, closed, panic>>

-----------------------------------------------------------------------------
(* A client: its handler calls Register and then starts the two pumps.      *)

\* Register returns without registering when the hub has been stopped.
StartPumps(c) == /\ reader' = [reader EXCEPT ![c] = "reading"]
                 /\ writer' = [writer EXCEPT ![c] = "writing"]

RegisterCheck(c) ==
  /\ reader[c] = "new"
  /\ \/ stopped /\ StartPumps(c)
     \/ ~stopped /\ reader' = [reader EXCEPT ![c] = "registering"] /\ UNCHANGED writer
  /\ UNCHANGED <<run, clients, todo, current, broadcast, sender, sent, shutdown,
                 send, closed, got, panic>>

RegisterDone(c) ==
  /\ reader[c] = "registering" /\ done
  /\ StartPumps(c)
  /\ UNCHANGED <<run, clients, todo, current, broadcast, sender, sent, shutdown,
                 send, closed, got, panic>>

UnregisterCheck_ClosesItself(c) ==
  /\ reader[c] = "reading"
  /\ CloseSend({c})
  /\ reader' = [reader EXCEPT ![c] = IF stopped THEN "done" ELSE "unregistering"]
  /\ UNCHANGED <<run, clients, todo, current, broadcast, sender, sent, shutdown,
                 writer, send, got>>

\* A read fails: the browser has gone, or the write pump has closed the
\* connection.  The read pump calls Unregister.
UnregisterCheck(c) ==
  /\ reader[c] = "reading"
  /\ \/ /\ stopped
        /\ CloseSend({c})
        /\ reader' = [reader EXCEPT ![c] = "done"]
     \/ /\ ~stopped
        /\ reader' = [reader EXCEPT ![c] = "unregistering"]
        /\ UNCHANGED <<closed, panic>>
  /\ UNCHANGED <<run, clients, todo, current, broadcast, sender, sent, shutdown,
                 writer, send, got>>

UnregisterDone_Missing(c) == FALSE

UnregisterDone(c) ==
  /\ reader[c] = "unregistering" /\ done
  /\ CloseSend({c})
  /\ reader' = [reader EXCEPT ![c] = "done"]
  /\ UNCHANGED <<run, clients, todo, current, broadcast, sender, sent, shutdown,
                 writer, send, got>>

\* The write pump takes a message; one that it cannot write is its last.
WritePumpTake(c) ==
  /\ writer[c] = "writing" /\ send[c] # <<>>
  /\ got' = [got EXCEPT ![c] = Append(@, Head(send[c]))]
  /\ send' = [send EXCEPT ![c] = Tail(@)]
  /\ writer' \in {writer, [writer EXCEPT ![c] = "done"]}
  /\ UNCHANGED <<run, clients, todo, current, broadcast, sender, sent, shutdown,
                 reader, closed, panic>>

\* The channel is closed and empty, or a ping fails.
WritePumpEnds(c) ==
  /\ writer[c] = "writing"
  /\ writer' = [writer EXCEPT ![c] = "done"]
  /\ UNCHANGED <<run, clients, todo, current, broadcast, sender, sent, shutdown,
                 reader, send, closed, got, panic>>

-----------------------------------------------------------------------------

Run == \/ \E c \in Clients : RunRegister(c) \/ RunUnregister(c) \/ RunSend(c)
       \/ RunBroadcast \/ RunSent \/ RunDone

Client(c) == \/ RegisterCheck(c) \/ RegisterDone(c)
             \/ UnregisterCheck(c) \/ UnregisterDone(c)
             \/ WritePumpTake(c) \/ WritePumpEnds(c)

Next == /\ panic = "no"
        /\ \/ Run
           \/ BroadcastCheck \/ BroadcastSend
           \/ ShutdownStop \/ ShutdownDone
           \/ \E c \in Clients : Client(c)

Spec == Init /\ [][Next]_vars

\* The goroutines run when they can; a select that is reached again and again
\* takes each ready case in the end (it chooses at random), so that a caller
\* waiting for the hub is served.  Nobody has to leave, broadcast or shut down,
\* but a shutdown that has begun goes on.
Fairness == /\ WF_vars(panic = "no" /\ Run)
            /\ WF_vars(panic = "no" /\ ShutdownDone)
            /\ \A c \in Clients :
                 /\ SF_vars(panic = "no" /\ RunRegister(c))
                 /\ SF_vars(panic = "no" /\ RunUnregister(c))
                 /\ WF_vars(panic = "no" /\ (RegisterDone(c) \/ UnregisterDone(c)))

FairSpec == Spec /\ Fairness

-----------------------------------------------------------------------------
(* Properties.                                                              *)

Last(s) == s[Len(s)]

\* What a client receives is a gap-free run of the broadcasts, in order and
\* without repetitions, and one that is still in the map is up to date: a slow
\* client is dropped as a whole and never misses a message in between.
GapFree ==
  \A c \in Clients :
    LET s == got[c] \o send[c]
    IN  /\ \A i \in 1..Len(s) - 1 : s[i + 1] = s[i] + 1
        /\ c \in clients \ todo /\ s # <<>> /\ panic = "no" => Last(s) = current

\* The hub is that kind of stream for the clients in its map, whoever comes, goes, is slow or
\* is dropped: nobody misses a message in between, gets one twice or out of order, or gets
\* one after it was dropped; and the next broadcast waits until the last one has been passed
\* to everybody.  When the process dies, all are given up.
Stream == INSTANCE MessageStream
            WITH made <- current,
                 live <- IF panic = "no" THEN clients ELSE {},
                 behind <- IF panic = "no" THEN todo ELSE {},
                 waiting <- send, seen <- got
ImplementsStream == Stream!StreamSpec

\* Each send channel is closed at most once, although a drop, an unregister and
\* the shutdown may all close it ("Without this guard a stale client could be
\* closed twice and panic").
NoDoubleClose == panic # "close of closed channel"

\* No channel is closed twice, and as long as nobody calls Shutdown the channels
\* of the clients in the map are open, so that a broadcast cannot panic.
OpenWhileServing ==
  /\ NoDoubleClose
  /\ ~stopped => panic = "no" /\ \A c \in clients : ~closed[c]

\* Neither a handler nor a read pump waits for ever for a hub that is busy or
\* has gone.
NobodyHangs ==
  \A c \in Clients :
    reader[c] \in {"registering", "unregistering"} /\ panic = "no"
      ~> reader[c] \in {"reading", "done"} \/ panic # "no"

\* A client whose read pump has ended does not stay in the map.
HubForgets ==
  \A c \in Clients :
    reader[c] \in {"unregistering", "done"} ~> c \notin clients \/ panic # "no"

-----------------------------------------------------------------------------
(* What the comments promise, and the code does not keep in every case.     *)

\* "Hub is gone; close the client's send channel directly so its write pump
\* can exit" -- a broadcast that is under way does not meet a closed channel.
NoSendOnClosed == panic # "send on closed channel"
=============================================================================
