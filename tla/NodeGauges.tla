----------------------------- MODULE NodeGauges -----------------------------
(***************************************************************************)
(* The nodes and their gauges on the dashboard, the monitoring page and    *)
(* the topology page: the store (stores/node-store.ts), which outlives the *)
(* pages, who asks it for what, and what is concluded from what it has     *)
(* (components/dashboard/dashboard-summary.ts).                            *)
(*                                                                         *)
(* A gauge is abstracted to two values, below and above the threshold of   *)
(* 80 percent.  Disks are drawn and never judged; the guests of a node are *)
(* the record NodeStore of ScreenTable.                                    *)
(***************************************************************************)
EXTENDS Naturals, FiniteSetsExt

CONSTANTS Hosts,
          MaxGets     \* bound: requests of a kind that are out for a node

ASSUME GaugesAssumption == MaxGets \in Nat \ {0} /\ IsFiniteSet(Hosts)

VARIABLES gaugePage,      \* the page that is open, or "other"
          nodes,          \* per host: "online", "offline", or "gone": not listed
          nodesGets,      \* GETs of the nodes that are out
          nodesLoading, nodesError,
          nodeStatus,     \* per host: the last gauges answered, or NoGauges
          statusGets,     \* per host: requests for its gauges that are out
          requestedStatus,    \* requestedStatusRef of the dashboard
          missed          \* history: hosts whose last answer for gauges was a failure

gaugeVars == <<gaugePage, nodes, nodesGets, nodesLoading, nodesError, nodeStatus,
               statusGets, requestedStatus, missed>>

Low == 40
High == 90
Gauges == [cpu : {Low, High}, memory : {Low, High}]
NoGauges == [cpu |-> 0, memory |-> 0]

GaugesTypeOK ==
  /\ gaugePage \in {"dashboard", "monitoring", "topology", "other"}
  /\ nodes \in [Hosts -> {"online", "offline", "gone"}]
  /\ nodesGets \in 0..MaxGets /\ nodesLoading \in BOOLEAN /\ nodesError \in BOOLEAN
  /\ nodeStatus \in [Hosts -> Gauges \cup {NoGauges}]
  /\ statusGets \in [Hosts -> 0..MaxGets]
  /\ requestedStatus \subseteq Hosts /\ missed \subseteq Hosts

GaugesInit ==
  /\ gaugePage = "other"
  /\ nodes = [h \in Hosts |-> "gone"] /\ nodesGets = 0 /\ nodesLoading = FALSE /\ nodesError = FALSE
  /\ nodeStatus = [h \in Hosts |-> NoGauges] /\ statusGets = [h \in Hosts |-> 0]
  /\ requestedStatus = {} /\ missed = {}

Listed == {h \in Hosts : nodes[h] # "gone"}
Online == {h \in Hosts : nodes[h] = "online"}

-----------------------------------------------------------------------------
(* Who asks.                                                                *)

\* The hosts whose gauges the effect of a page asks for, when the nodes or their gauges
\* are new: the dashboard those it has none of and has not asked for, the monitoring page
\* all that are online, the topology page all.
Wanted(page, N, S, asked) ==
  CASE page = "dashboard" -> {h \in Hosts : N[h] = "online" /\ S[h] = NoGauges} \ asked
    [] page = "monitoring" -> {h \in Hosts : N[h] = "online"}
    [] page = "topology" -> {h \in Hosts : N[h] # "gone"}
    [] OTHER -> {}

AskStatus(H, gets) ==
  /\ \A h \in H : gets[h] < MaxGets
  /\ statusGets' = [h \in Hosts |-> IF h \in H THEN gets[h] + 1 ELSE gets[h]]

\* The effect of the page for new nodes N.
NodesAreNew(page, N, asked) ==
  LET H == Wanted(page, N, nodeStatus, asked) IN
  /\ AskStatus(H, statusGets)
  /\ requestedStatus' = IF page = "dashboard" THEN asked \cup H ELSE {}

FetchNodes ==
  /\ nodesGets < MaxGets /\ nodesGets' = nodesGets + 1
  /\ nodesLoading' = TRUE /\ nodesError' = FALSE

\* A page is opened: it asks for the nodes, and with those it finds in the store runs its
\* effect.
OpenGauges(page) ==
  /\ page # gaugePage /\ gaugePage' = page
  /\ NodesAreNew(page, nodes, {})
  /\ IF page = "other" THEN UNCHANGED <<nodesGets, nodesLoading, nodesError>> ELSE FetchNodes
  /\ UNCHANGED <<nodes, nodeStatus, missed>>

\* The interval of the monitoring page, or its button; or another page that lists nodes.
RefreshAll ==
  /\ gaugePage \in {"monitoring", "other"} /\ FetchNodes
  /\ UNCHANGED <<gaugePage, nodes, nodeStatus, statusGets, requestedStatus, missed>>

-----------------------------------------------------------------------------
(* Answers.                                                                 *)

NodesFetched(N) ==
  /\ nodesGets > 0 /\ nodesGets' = nodesGets - 1 /\ nodesLoading' = FALSE
  /\ nodes' = N
  /\ NodesAreNew(gaugePage, N, requestedStatus)
  /\ UNCHANGED <<gaugePage, nodesError, nodeStatus, missed>>

\* The nodes stay those that were listed before.
FetchNodesFails ==
  /\ nodesGets > 0 /\ nodesGets' = nodesGets - 1
  /\ nodesLoading' = FALSE /\ nodesError' = TRUE
  /\ UNCHANGED <<gaugePage, nodes, nodeStatus, statusGets, requestedStatus, missed>>

StatusOver(h) == [statusGets EXCEPT ![h] = @ - 1]

\* The dashboard forgets that it asked for h when its own request is over; one that an
\* earlier page has left behind is not its own.
Forgets(h, asked) ==
  requestedStatus' \in {asked \ {h}} \cup (IF statusGets[h] > 1 THEN {asked} ELSE {})

\* New gauges let the effect of the dashboard run again, which asks once more for those
\* that have failed.
StatusFetched(h, g) ==
  LET S == [nodeStatus EXCEPT ![h] = g]
      H == IF gaugePage = "dashboard" THEN Wanted(gaugePage, nodes, S, requestedStatus) ELSE {} IN
  /\ statusGets[h] > 0 /\ AskStatus(H, StatusOver(h))
  /\ nodeStatus' = S
  /\ Forgets(h, requestedStatus \cup H)
  /\ missed' = missed \ {h}
  /\ UNCHANGED <<gaugePage, nodes, nodesGets, nodesLoading, nodesError>>

\* The gauges that were there stay.
FetchStatusFails(h) ==
  /\ statusGets[h] > 0 /\ statusGets' = StatusOver(h)
  /\ Forgets(h, requestedStatus)
  /\ missed' = missed \cup {h}
  /\ UNCHANGED <<gaugePage, nodes, nodesGets, nodesLoading, nodesError, nodeStatus>>

\* The settings take a node from the store, whose gauges stay there.
RemoveNode(h) ==
  /\ gaugePage = "other" /\ nodes[h] # "gone"
  /\ nodes' = [nodes EXCEPT ![h] = "gone"]
  /\ UNCHANGED <<gaugePage, nodesGets, nodesLoading, nodesError, nodeStatus, statusGets, requestedStatus,
                 missed>>

GaugesNext ==
  \/ \E p \in {"dashboard", "monitoring", "topology", "other"} : OpenGauges(p)
  \/ RefreshAll \/ FetchNodesFails
  \/ \E N \in [Hosts -> {"online", "offline", "gone"}] : NodesFetched(N)
  \/ \E h \in Hosts : \/ \E g \in Gauges : StatusFetched(h, g)
                      \/ FetchStatusFails(h) \/ RemoveNode(h)

GaugesSpec == GaugesInit /\ [][GaugesNext]_gaugeVars

-----------------------------------------------------------------------------
(* What is shown.                                                           *)

\* The hosts whose gauges count.
Statuses_OfAll == {h \in Hosts : nodeStatus[h] # NoGauges}
Statuses == {h \in Hosts : nodes[h] = "online" /\ nodeStatus[h] # NoGauges}

PendingStatus == Cardinality(Online) - Cardinality(Statuses)

AverageMemory ==
  IF Statuses = {} THEN 0
  ELSE MapThenSumSet(LAMBDA h : nodeStatus[h].memory, Statuses) \div Cardinality(Statuses)

HotNodes == {h \in Statuses : nodeStatus[h].cpu >= 80}

\* Each item with its severity; "all-clear" only when there is nothing else to say.
AttentionItems ==
  LET said == (IF Online # Listed THEN {<<"offline-nodes", "critical">>} ELSE {})
              \cup (IF PendingStatus > 0 THEN {<<"status-loading", "info">>} ELSE {})
              \cup (IF HotNodes # {} THEN {<<"cpu-pressure", "warning">>} ELSE {})
              \cup (IF AverageMemory >= 80 THEN {<<"memory-pressure", "warning">>} ELSE {}) IN
  CASE Listed = {} -> said \cup {<<"no-nodes", "info">>}
    [] Listed # {} /\ said = {} -> {<<"all-clear", "info">>}
    [] OTHER -> said

HealthTone ==
  LET Has(severity) == \E item \in AttentionItems : item[2] = severity IN
  CASE Listed = {} -> "muted"
    [] Listed # {} /\ Has("critical") -> "critical"
    [] Listed # {} /\ ~Has("critical") /\ Has("warning") -> "warning"
    [] OTHER -> IF PendingStatus > 0 THEN "info" ELSE "ok"

\* The badge beside the greeting of the dashboard.
DashboardBadge ==
  IF Listed = {} THEN "muted" ELSE IF Online = Listed THEN "ok" ELSE "warning"

\* A node whose gauges are drawn: with what it had when it was last asked.
FleetTable == [h \in Listed |-> IF nodesLoading THEN NoGauges ELSE nodeStatus[h]]
MonitoringCards == [h \in Listed |-> IF nodesLoading \/ nodes[h] = "offline" THEN NoGauges ELSE nodeStatus[h]]
TopologyCards == [h \in Listed |-> nodeStatus[h]]

\* The averages of the monitoring page are over all that the store has.
MonitoringAverages == {h \in Hosts : nodeStatus[h] # NoGauges}

-----------------------------------------------------------------------------

\* The cluster is called operative, and nothing in need of attention, only when every
\* listed node is online, has been asked and has an idle CPU, whatever the store has of
\* nodes that have left; both are then said together.
CalmIsTrue ==
  /\ (HealthTone = "ok") <=> <<"all-clear", "info">> \in AttentionItems
  /\ HealthTone = "ok" =>
       \A h \in Listed : nodes[h] = "online" /\ nodeStatus[h] # NoGauges /\ nodeStatus[h].cpu < 80
  /\ HealthTone = "info" => \E h \in Online : nodeStatus[h] = NoGauges

\* When it is called operative the pages agree: the badge of the dashboard says so too, the
\* three lists of nodes show the same gauges, and the averages of the monitoring page are
\* over the same nodes, unless one has left.
PagesAgree ==
  HealthTone = "ok" =>
    /\ DashboardBadge = "ok"
    /\ ~nodesLoading => FleetTable = TopologyCards /\ MonitoringCards = TopologyCards
    /\ MonitoringAverages \subseteq Listed => MonitoringAverages = Statuses

\* A node that is online is not forgotten: while its gauges are not there they are asked
\* for, or could not be had.
NobodyForgotten ==
  gaugePage # "other" => \A h \in Online : nodeStatus[h] = NoGauges => statusGets[h] > 0 \/ h \in missed

\* What the pages say of the nodes agrees with what was answered.
GaugesAreTrue == CalmIsTrue /\ PagesAgree /\ NobodyForgotten
=============================================================================
