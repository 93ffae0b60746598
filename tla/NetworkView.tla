---------------------------- MODULE NetworkView ----------------------------
(***************************************************************************)
(* The network page: the store of its panels (stores/network-store.ts),    *)
(* the hook that polls (hooks/use-network-scan.ts) and the components that *)
(* start scans and change baselines.  Requests overlap and are answered in *)
(* any order; a counter per panel lets only the latest one through.        *)
(*                                                                         *)
(* A listing is abstracted to the request that it answers.  An effect of   *)
(* React runs with the change that triggers it: no answer comes between.   *)
(***************************************************************************)
EXTENDS Naturals

CONSTANTS Nodes, NoNode,
          Panels,    \* the panels that are loaded: all four in the code
          MaxSeq     \* bound: the user and the timer ask until then

AllPanels == {"scans", "devices", "anomalies", "baselines"}

ASSUME NetNoNodeAssumption == NoNode \notin Nodes
ASSUME NetPanelsAssumption == Panels \subseteq AllPanels
ASSUME NetMaxAssumption == MaxSeq \in Nat

VARIABLES selected,   \* selectedNodeId of the page
          latest,     \* per panel: its request counter and that request's node
          flight,     \* requests that are out
          view,       \* per panel: the request whose answer is in the store
          scanning,   \* scanStatus.scanningNodeId while isScanning
          trigger,    \* nodes whose POST of triggerScan is out
          baselineOps,   \* nodes whose POST of the baseline manager is out
          strayed     \* history: baselines of a node other than the selected were asked for

netVars == <<selected, latest, flight, view, scanning, trigger, baselineOps, strayed>>

Marks == [seq : Nat, of : Nodes \cup {NoNode}]

NetTypeOK ==
  /\ selected \in Nodes \cup {NoNode}
  /\ latest \in [Panels -> Marks]
  /\ flight \subseteq [panel : Panels, seq : Nat, of : Nodes]
  /\ view \in [Panels -> Marks]
  /\ scanning \in Nodes \cup {NoNode}
  /\ trigger \subseteq Nodes /\ baselineOps \subseteq Nodes
  /\ strayed \in BOOLEAN

NetInit ==
  /\ selected = NoNode
  /\ latest = [p \in Panels |-> [seq |-> 0, of |-> NoNode]]
  /\ flight = {}
  /\ view = [p \in Panels |-> [seq |-> 0, of |-> NoNode]]
  /\ scanning = NoNode /\ trigger = {} /\ baselineOps = {} /\ strayed = FALSE

-----------------------------------------------------------------------------
(* Requests.                                                                *)

\* const requestSeq = ++...RequestSeq, in each panel of P for node n, while F
\* of the requests stay out.
Fetch(P, n, F) ==
  /\ latest' = [p \in Panels |-> IF p \in P THEN [seq |-> latest[p].seq + 1, of |-> n]
                                 ELSE latest[p]]
  /\ flight' = F \cup {[panel |-> p, seq |-> latest[p].seq + 1, of |-> n] : p \in P \cap Panels}

NoFetch(F) == flight' = F /\ UNCHANGED latest

Polled == {"scans", "devices", "anomalies"}

\* scanningNodeId becomes n; the effect of useNetworkScan runs again when
\* isScanning has changed.
SetScanning(n, F) ==
  /\ scanning' = n
  /\ IF (n = NoNode) # (scanning = NoNode) /\ selected # NoNode
     THEN Fetch(Polled, selected, F) ELSE NoFetch(F)

InBounds == \A p \in Panels : latest[p].seq < MaxSeq

\* Another node is selected: the effects of the page and of the hook run.
SelectNode(n) ==
  /\ n # selected /\ InBounds
  /\ selected' = n
  /\ Fetch(AllPanels, n, flight)
  /\ UNCHANGED <<view, scanning, trigger, baselineOps, strayed>>

\* The interval of useNetworkScan.
Tick ==
  /\ selected # NoNode /\ InBounds
  /\ Fetch(IF scanning # NoNode THEN Polled ELSE {"scans"}, selected, flight)
  /\ UNCHANGED <<selected, view, scanning, trigger, baselineOps, strayed>>

\* A button of the status bar; it is disabled while the node is scanning.
TriggerScan ==
  /\ selected # NoNode /\ scanning # selected /\ InBounds
  /\ selected \notin trigger             \* bound: one POST per node
  /\ trigger' = trigger \cup {selected}
  /\ SetScanning(selected, flight)
  /\ UNCHANGED <<selected, view, baselineOps, strayed>>

\* The POST returns when the scan is over: an error ends isScanning, success
\* leaves it to the polling.
TriggerAnswered(n) ==
  /\ n \in trigger /\ trigger' = trigger \ {n}
  /\ \/ UNCHANGED <<latest, flight, scanning>>
     \/ scanning = n /\ SetScanning(NoNode, flight)
  /\ UNCHANGED <<selected, view, baselineOps, strayed>>

\* A baseline of the node is created, deleted or renamed.
ChangeBaseline ==
  /\ selected # NoNode /\ selected \notin baselineOps /\ InBounds
  /\ baselineOps' = baselineOps \cup {selected}
  /\ UNCHANGED <<selected, latest, flight, view, scanning, trigger, strayed>>

\* Its answer has the baselines of that node fetched, whatever is selected now.
BaselineChanged(n) ==
  /\ n \in baselineOps /\ baselineOps' = baselineOps \ {n}
  /\ \/ /\ Fetch({"baselines"}, n, flight)
        /\ strayed' = (strayed \/ n # selected)
     \/ UNCHANGED <<latest, flight, strayed>>
  /\ UNCHANGED <<selected, view, scanning, trigger>>

-----------------------------------------------------------------------------
(* Answers.                                                                 *)

IsLatest_NotChecked(r) == r.seq > 0

\* if (requestSeq !== ...RequestSeq) return
IsLatest(r) == r.seq = latest[r.panel].seq

\* The store takes the listing, or clears it after an error.
Take(r) ==
  \E of \in {r.of, NoNode} : view' = [view EXCEPT ![r.panel] = [seq |-> r.seq, of |-> of]]

\* fetchScans: either answer is the end of isScanning for its node.
ScansAnswered(r) ==
  /\ r.panel = "scans" /\ IsLatest(r)
  /\ Take(r)
  /\ IF scanning = r.of THEN SetScanning(NoNode, flight \ {r})
     ELSE NoFetch(flight \ {r}) /\ UNCHANGED scanning
  /\ UNCHANGED <<selected, trigger, baselineOps, strayed>>

\* fetchDevices, fetchAnomalies, fetchBaselines.
ListAnswered(r) ==
  /\ r.panel # "scans" /\ IsLatest(r)
  /\ Take(r)
  /\ NoFetch(flight \ {r})
  /\ UNCHANGED <<selected, scanning, trigger, baselineOps, strayed>>

Overtaken(r) ==
  /\ ~IsLatest(r)
  /\ NoFetch(flight \ {r})
  /\ UNCHANGED <<selected, view, scanning, trigger, baselineOps, strayed>>

NetNext ==
  \/ \E n \in Nodes : SelectNode(n) \/ TriggerAnswered(n) \/ BaselineChanged(n)
  \/ Tick \/ TriggerScan \/ ChangeBaseline
  \/ \E r \in flight : ScansAnswered(r) \/ ListAnswered(r) \/ Overtaken(r)

NetSpec == NetInit /\ [][NetNext]_netVars

-----------------------------------------------------------------------------
(* Properties.                                                              *)

LV == INSTANCE LatestView WITH Panels <- Panels, Objects <- Nodes, Nothing <- NoNode,
                               asked <- latest, shown <- view

\* Whatever order the answers come in, a panel only changes to the answer of its
\* latest request (the counters of network-store.ts).
ShowsLatestOnly == LV!Spec

\* When nothing is out any more, every panel shows the selected node, or that
\* there is nothing, unless the answer of a baseline's change came for a node
\* that was no longer selected (baseline-manager.tsx:37).
QuietPanelsAreSelected ==
  flight = {} /\ ~strayed => \A p \in Panels : view[p].of \in {selected, NoNode}
=============================================================================
