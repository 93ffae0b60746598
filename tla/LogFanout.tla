----------------------------- MODULE LogFanout -----------------------------
(***************************************************************************)
(* The live log stream of one node: the fan-out of service/logstream       *)
(* (Subscribe, Unsubscribe, notifySubscribers) and, per browser, the       *)
(* handler HandleWS with its fan-in goroutine and its write loop.          *)
(*                                                                         *)
(* subscribers[nodeID] is a Go slice: a length and a backing array.        *)
(* notifySubscribers copies the slice under the lock and reads the array   *)
(* after it has released it, while Subscribe appends to and Unsubscribe    *)
(* compacts the same array; so arrays are modelled as arrays, and each     *)
(* element is written and read in a step of its own.                       *)
(***************************************************************************)
EXTENDS Naturals, Sequences, FiniteSets

CONSTANTS Subscribers,   \* channels; a handler makes one and uses it once
          Nil,           \* no channel
          MaxLines,      \* bound: log lines that the worker reads
          ChanCap,       \* capacity of a subscriber's channel (100 in the code)
          MergedCap      \* capacity of merged in the handler (256 in the code)

ASSUME NilAssumption == Nil \notin Subscribers
ASSUME CapAssumption == ChanCap \in Nat \ {0} /\ MergedCap \in Nat \ {0}
ASSUME MaxLinesAssumption == MaxLines \in Nat

VARIABLES heap,       \* backing arrays in the order in which they were made
          subs,       \* subscribers[nodeID]: its array (0 for nil) and length
          mu,         \* who is in Unsubscribe and holds the lock, or Nil
          moves,      \* elements that Unsubscribe has still to write
          fan,        \* notifySubscribers: its copy of the slice, the next
                      \* index, and the element it has read
          line,       \* number of the line that is or was fanned out last
          dropped,    \* droppedEntries
          closed,     \* channels that were closed
          chan,       \* per subscriber: its channel
          handler,    \* per subscriber: HandleWS
          fanin,      \* per subscriber: the fan-in goroutine of HandleWS
          merged,     \* per subscriber: merged
          shown,      \* per subscriber: the last line written to the browser
          panic,      \* a send on a closed channel has killed the process
          due, sentTo, base, disturbed   \* what happened since the last copy:
                      \* who was subscribed, how often each was sent the line,
                      \* droppedEntries before, and whether anybody has left

slices == <<heap, subs, mu, moves>>
browsers == <<handler, fanin, merged, shown>>
history == <<due, sentTo, base, disturbed>>
vars == <<slices, fan, line, dropped, closed, chan, browsers, panic, history>>

Elements == Subscribers \cup {Nil}

\* The elements of the slice.
Held == {heap[subs.arr][i] : i \in 1..subs.len}

TypeOK ==
  /\ heap \in Seq(Seq(Elements))
  /\ subs \in [arr : 0..Len(heap), len : Nat]
  /\ subs.arr # 0 => subs.len <= Len(heap[subs.arr])
  /\ mu \in Elements
  /\ moves \subseteq (1..subs.len) \X Subscribers
  /\ fan \in [pc : {"idle", "sending"}, arr : 0..Len(heap), len : Nat, next : Nat,
              ch : Elements]
  /\ line \in 0..MaxLines
  /\ dropped \in Nat
  /\ closed \subseteq Subscribers
  /\ chan \in [Subscribers -> Seq(1..MaxLines)]
  /\ handler \in [Subscribers -> {"new", "serving", "leaving", "unsubscribing", "gone"}]
  /\ fanin \in [Subscribers -> {"new", "running", "ended"}]
  /\ merged \in [Subscribers -> Seq(1..MaxLines)]
  /\ \A c \in Subscribers : Len(chan[c]) <= ChanCap /\ Len(merged[c]) <= MergedCap
  /\ shown \in [Subscribers -> 0..MaxLines]
  /\ panic \in BOOLEAN
  /\ due \subseteq Subscribers
  /\ sentTo \in [Subscribers -> Nat]
  /\ base \in 0..dropped
  /\ disturbed \in BOOLEAN

Init ==
  /\ heap = <<>>
  /\ subs = [arr |-> 0, len |-> 0]
  /\ mu = Nil /\ moves = {}
  /\ fan = [pc |-> "idle", arr |-> 0, len |-> 0, next |-> 1, ch |-> Nil]
  /\ line = 0 /\ dropped = 0
  /\ closed = {}
  /\ chan = [c \in Subscribers |-> <<>>]
  /\ handler = [c \in Subscribers |-> "new"]
  /\ fanin = [c \in Subscribers |-> "new"]
  /\ merged = [c \in Subscribers |-> <<>>]
  /\ shown = [c \in Subscribers |-> 0]
  /\ panic = FALSE
  /\ due = {} /\ sentTo = [c \in Subscribers |-> 0] /\ base = 0 /\ disturbed = FALSE

-----------------------------------------------------------------------------
(* Subscribe and Unsubscribe.                                               *)

Capacity == IF subs.arr = 0 THEN 0 ELSE Len(heap[subs.arr])

\* What append does when the array is full: twice the capacity, or 1.
Grown(c) ==
  [i \in 1..(IF Capacity = 0 THEN 1 ELSE 2 * Capacity) |->
     IF i <= Capacity THEN heap[subs.arr][i] ELSE IF i = Capacity + 1 THEN c ELSE Nil]

\* The handler subscribes and starts its fan-in goroutine.
Subscribe(c) ==
  /\ mu = Nil /\ handler[c] = "new"
  /\ IF subs.len < Capacity
     THEN /\ heap' = [heap EXCEPT ![subs.arr][subs.len + 1] = c]
          /\ subs' = [subs EXCEPT !.len = @ + 1]
     ELSE /\ heap' = Append(heap, Grown(c))
          /\ subs' = [arr |-> Len(heap) + 1, len |-> subs.len + 1]
  /\ handler' = [handler EXCEPT ![c] = "serving"]
  /\ fanin' = [fanin EXCEPT ![c] = "running"]
  /\ UNCHANGED <<mu, moves, fan, line, dropped, closed, chan, merged, shown, panic,
                 history>>

Position(c) == CHOOSE i \in 1..subs.len : heap[subs.arr][i] = c

UnsubscribeBegin_RemovesNext(c) ==
  /\ mu = Nil /\ handler[c] = "leaving"
  /\ mu' = c
  /\ moves' = {<<i, heap[subs.arr][i + 1]>> : i \in Position(c) + 1..subs.len - 1}
  /\ handler' = [handler EXCEPT ![c] = "unsubscribing"]
  /\ disturbed' = TRUE
  /\ UNCHANGED <<heap, subs, fan, line, dropped, closed, chan, fanin, merged, shown,
                 panic, due, sentTo, base>>

\* append(subs[:i], subs[i+1:]...) moves the elements after i down by one, in
\* an order of its own; the last element stays where it was.
UnsubscribeBegin(c) ==
  /\ mu = Nil /\ handler[c] = "leaving"
  /\ mu' = c
  /\ moves' = {<<i, heap[subs.arr][i + 1]>> : i \in Position(c)..subs.len - 1}
  /\ handler' = [handler EXCEPT ![c] = "unsubscribing"]
  /\ disturbed' = TRUE
  /\ UNCHANGED <<heap, subs, fan, line, dropped, closed, chan, fanin, merged, shown,
                 panic, due, sentTo, base>>

UnsubscribeMove ==
  /\ \E m \in moves :
       /\ heap' = [heap EXCEPT ![subs.arr][m[1]] = m[2]]
       /\ moves' = moves \ {m}
  /\ UNCHANGED <<subs, mu, fan, line, dropped, closed, chan, browsers, panic, history>>

UnsubscribeEnd ==
  /\ mu # Nil /\ moves = {}
  /\ subs' = [subs EXCEPT !.len = @ - 1]
  /\ closed' = closed \cup {mu}
  /\ handler' = [handler EXCEPT ![mu] = "gone"]
  /\ mu' = Nil
  /\ UNCHANGED <<heap, moves, fan, line, dropped, chan, fanin, merged, shown, panic,
                 history>>

-----------------------------------------------------------------------------
(* notifySubscribers, called by the worker of the node for each line.       *)

Notify ==
  /\ fan.pc = "idle" /\ mu = Nil /\ line < MaxLines
  /\ line' = line + 1
  /\ fan' = [pc |-> "sending", arr |-> subs.arr, len |-> subs.len, next |-> 1, ch |-> Nil]
  /\ due' = Held
  /\ sentTo' = [c \in Subscribers |-> 0]
  /\ base' = dropped
  /\ disturbed' = FALSE
  /\ UNCHANGED <<slices, dropped, closed, chan, browsers, panic>>

NotifyRead ==
  /\ fan.pc = "sending" /\ fan.ch = Nil /\ fan.next <= fan.len
  /\ fan' = [fan EXCEPT !.ch = heap[fan.arr][fan.next], !.next = @ + 1]
  /\ UNCHANGED <<slices, line, dropped, closed, chan, browsers, panic, history>>

\* A non-blocking send.
NotifySend ==
  /\ fan.ch # Nil
  /\ fan' = [fan EXCEPT !.ch = Nil]
  /\ LET c == fan.ch
     IN  \/ /\ c \in closed
            /\ panic' = TRUE
            /\ UNCHANGED <<chan, sentTo, dropped>>
         \/ /\ c \notin closed /\ Len(chan[c]) < ChanCap
            /\ chan' = [chan EXCEPT ![c] = Append(@, line)]
            /\ sentTo' = [sentTo EXCEPT ![c] = @ + 1]
            /\ UNCHANGED <<panic, dropped>>
         \/ /\ c \notin closed /\ Len(chan[c]) = ChanCap
            /\ dropped' = dropped + 1
            /\ UNCHANGED <<panic, chan, sentTo>>
  /\ UNCHANGED <<slices, line, closed, browsers, due, base, disturbed>>

NotifyEnd ==
  /\ fan.pc = "sending" /\ fan.ch = Nil /\ fan.next > fan.len
  /\ fan' = [fan EXCEPT !.pc = "idle"]
  /\ UNCHANGED <<slices, line, dropped, closed, chan, browsers, panic, history>>

-----------------------------------------------------------------------------
(* HandleWS.                                                                *)

FanIn_LatestFirst(c) ==
  /\ fanin[c] = "running" /\ chan[c] # <<>>
  /\ chan' = [chan EXCEPT ![c] = Tail(@)]
  /\ merged' = IF Len(merged[c]) < MergedCap
               THEN [merged EXCEPT ![c] = <<Head(chan[c])>> \o @] ELSE merged
  /\ UNCHANGED <<slices, fan, line, dropped, closed, handler, fanin, shown, panic,
                 history>>

\* The fan-in goroutine drops what does not fit into merged, uncounted.
FanIn(c) ==
  /\ fanin[c] = "running" /\ chan[c] # <<>>
  /\ chan' = [chan EXCEPT ![c] = Tail(@)]
  /\ merged' = IF Len(merged[c]) < MergedCap
               THEN [merged EXCEPT ![c] = Append(@, Head(chan[c]))] ELSE merged
  /\ UNCHANGED <<slices, fan, line, dropped, closed, handler, fanin, shown, panic,
                 history>>

\* done is closed, or the channel is closed and empty.
FanInEnds(c) ==
  /\ fanin[c] = "running"
  /\ \/ handler[c] \in {"leaving", "unsubscribing", "gone"}
     \/ c \in closed /\ chan[c] = <<>>
  /\ fanin' = [fanin EXCEPT ![c] = "ended"]
  /\ UNCHANGED <<slices, fan, line, dropped, closed, chan, handler, merged, shown,
                 panic, history>>

\* The write loop takes an entry and skips it, writes it, or fails to write it
\* and leaves.  (It would also end when merged is closed, but merged is closed
\* only after the fan-in goroutine has ended, and that outlives the loop.)
WriteLoop(c) ==
  /\ handler[c] = "serving" /\ merged[c] # <<>>
  /\ merged' = [merged EXCEPT ![c] = Tail(@)]
  /\ \/ UNCHANGED <<handler, shown>>
     \/ shown' = [shown EXCEPT ![c] = Head(merged[c])] /\ UNCHANGED handler
     \/ handler' = [handler EXCEPT ![c] = "leaving"] /\ UNCHANGED shown
  /\ UNCHANGED <<slices, fan, line, dropped, closed, chan, fanin, panic, history>>

-----------------------------------------------------------------------------

Worker == Notify \/ NotifyRead \/ NotifySend \/ NotifyEnd

Browser(c) == \/ Subscribe(c) \/ UnsubscribeBegin(c)
              \/ FanIn(c) \/ FanInEnds(c) \/ WriteLoop(c)

Next == /\ ~panic
        /\ \/ Worker
           \/ UnsubscribeMove \/ UnsubscribeEnd
           \/ \E c \in Subscribers : Browser(c)

Spec == Init /\ [][Next]_vars

-----------------------------------------------------------------------------
(* Properties.                                                              *)

\* Whenever the lock is free, the slice holds exactly the handlers that have
\* subscribed and not unsubscribed, each once, and their channels are open --
\* although arrays are shared, grown and compacted in place.
SliceIsExact ==
  mu = Nil =>
    /\ Held = {c \in Subscribers : handler[c] \in {"serving", "leaving"}}
    /\ Cardinality(Held) = subs.len
    /\ Held \cap closed = {}

\* As long as nobody unsubscribes meanwhile, a line reaches everybody who was
\* subscribed when its fan-out began exactly once, or is counted as dropped;
\* growing the slice at the same time does not matter, and nothing is sent on a
\* closed channel.
QuietFanoutIsExact ==
  ~disturbed =>
    /\ ~panic
    /\ fan.pc = "idle" =>
         /\ \A c \in due : sentTo[c] <= 1
         /\ \A c \in Subscribers \ due : sentTo[c] = 0
         /\ dropped - base = Cardinality({c \in due : sentTo[c] = 0})

\* Both: the slice is exact between two operations, and so is a quiet fan-out from it.
FanoutIsExact == SliceIsExact /\ QuietFanoutIsExact

\* A browser never sees a line after a later one, whatever was dropped on the
\* way or sent twice.
OrderKept == [][\A c \in Subscribers : shown'[c] >= shown[c]]_vars
=============================================================================
