--------------------------- MODULE MessageStream ---------------------------
(***************************************************************************)
(* What a hub promises the clients that listen to it: messages are made    *)
(* one after the other, each is passed to every client that listens before *)
(* the next one is made, a client receives what it was passed in that      *)
(* order, and one that cannot be served is given up as a whole: it gets    *)
(* nothing more, and what it was passed before stays its own.  WSHub       *)
(* implements this.                                                        *)
(***************************************************************************)
EXTENDS Naturals, Sequences

CONSTANT Clients

VARIABLES made,      \* number of the newest message
          live,      \* who listens
          behind,    \* who has still to be passed the newest message
          waiting,   \* per client: what it was passed and has not received
          seen       \* per client: what it has received

streamVars == <<made, live, behind, waiting, seen>>

StreamInit == /\ made = 0
              /\ live = {} /\ behind = {}
              /\ waiting = [c \in Clients |-> <<>>]
              /\ seen = [c \in Clients |-> <<>>]

\* Nobody comes back once something was passed to him: there would be a gap.
Join(c) == /\ c \notin live /\ waiting[c] = <<>> /\ seen[c] = <<>>
           /\ live' = live \cup {c}
           /\ UNCHANGED <<made, behind, waiting, seen>>

Leave(S) == /\ live' = live \ S
            /\ behind' = behind \ S
            /\ UNCHANGED <<made, waiting, seen>>

Make == /\ behind = {}
        /\ made' = made + 1
        /\ behind' = live
        /\ UNCHANGED <<live, waiting, seen>>

Pass(c) == /\ c \in behind
           /\ behind' = behind \ {c}
           /\ waiting' = [waiting EXCEPT ![c] = Append(@, made)]
           /\ UNCHANGED <<made, live, seen>>

Receive(c) == /\ waiting[c] # <<>>
              /\ seen' = [seen EXCEPT ![c] = Append(@, Head(waiting[c]))]
              /\ waiting' = [waiting EXCEPT ![c] = Tail(@)]
              /\ UNCHANGED <<made, live, behind>>

StreamNext == \/ Make
              \/ \E S \in SUBSET live : Leave(S)
              \/ \E c \in Clients : Join(c) \/ Pass(c) \/ Receive(c)

StreamSpec == StreamInit /\ [][StreamNext]_streamVars
=============================================================================
