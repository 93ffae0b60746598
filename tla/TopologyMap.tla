---------------------------- MODULE TopologyMap ----------------------------
(***************************************************************************)
(* The map of the cluster (topology-map.tsx): the graph that the server    *)
(* builds of the nodes it reaches, and the three views that are drawn of   *)
(* it.  What is drawn is a sequence of things, each with the host that it  *)
(* is inside of; positions, colours and the search, which only dims, are   *)
(* left out.                                                               *)
(***************************************************************************)
EXTENDS RowOrder

CONSTANTS MapHosts,    \* the hosts, in the order in which the requests to them end; any order
          MapThings,   \* what they have: guests, storages and bridges
          NoParent

MapThing == [id : {MapThings[i].id : i \in DOMAIN MapThings},
             host : Range(MapHosts),
             type : {"vm", "ct", "storage", "network"}]

\* The id of a thing holds its host's.
ASSUME MapAssumption ==
  /\ MapHosts \in Seq(Range(MapHosts)) /\ IsSet(MapHosts)
  /\ MapThings \in Seq(MapThing)
  /\ \A i, j \in DOMAIN MapThings : MapThings[i].id = MapThings[j].id => i = j
  /\ \A i \in DOMAIN MapThings : MapThings[i].id \notin Range(MapHosts) \cup {NoParent}
  /\ NoParent \notin Range(MapHosts)

VARIABLES graph,     \* graphData: its hosts and its things, and the guests that run
          mapLoading,
          mapError,
          viewMode,
          statusFilter, typeFilter, tagFilter,
          expandedHosts

mapVars == <<graph, mapLoading, mapError, viewMode, statusFilter, typeFilter, tagFilter, expandedHosts>>

Guest == {"vm", "ct"}

EmptyGraph == [hosts |-> <<>>, things |-> <<>>, running |-> {}]

-----------------------------------------------------------------------------
(* The graph (topology_service.go).                                         *)

VMs == {MapThings[i].id : i \in {j \in DOMAIN MapThings : MapThings[j].type = "vm"}}

\* Every registered node is in it; of one that fails, its guests, its storages or its
\* bridges are missing.
GraphsOf(H) ==
  {[hosts |-> Kept(MapHosts, H), things |-> Kept(MapThings, T), running |-> R] :
     T \in SUBSET {j \in DOMAIN MapThings : \E i \in H : MapThings[j].host = MapHosts[i]}, R \in {{}, VMs}}

\* Each thing has one edge, from its host.
Label(t) == IF t.type \in Guest THEN "runs" ELSE IF t.type = "storage" THEN "storage" ELSE "bridge"

Edges == {[source |-> t.host, target |-> t] : t \in Range(graph.things)}

OfType(types) == {t \in Range(graph.things) : t.type \in types}
OfHost(h) == {t \in Range(graph.things) : t.host = h}

\* filter
Only(things, W) == Kept(things, {j \in DOMAIN things : things[j] \in W})

-----------------------------------------------------------------------------
(* The detailed view.                                                       *)

\* A thing that is not yet in the list is added to it.
AddMissing(list, things) ==
  list \o Kept(things, {j \in DOMAIN things :
                          things[j] \notin Range(list) /\ \A i \in 1..(j - 1) : things[i] # things[j]})

\* The children of host h of some types: first those of the edges with the labels that
\* the map knows, then those of every edge.
Children(h, types) ==
  LET leads == OfHost(h) \cap OfType(types)
      known == {t \in leads : Label(t) \in {"runs", "has_storage", "has_network"}} IN
  AddMissing(Only(graph.things, known), Only(graph.things, leads))

\* The server sends no tags, so that a tag filter hides every guest.
Passing ==
  {t \in Range(graph.things) :
     /\ statusFilter \in {"all", IF t.id \in graph.running THEN "running" ELSE "stopped"}
     /\ typeFilter \in {"all", t.type}
     /\ tagFilter = ""}

HostRow(h) == [id |-> h, in |-> NoParent]
HostRows == [i \in DOMAIN graph.hosts |-> HostRow(graph.hosts[i])]

Inside(h, things) == [i \in DOMAIN things |-> [id |-> things[i].id, in |-> h]]

\* A host, and in it the guests that pass the filters while it is expanded.
HostGroup(h) ==
  <<HostRow(h)>> \o
    Inside(h, Only(Children(h, Guest), IF h \in expandedHosts THEN Passing ELSE {}))

Assigned(types) == UNION {Range(Children(graph.hosts[i], types)) : i \in DOMAIN graph.hosts}

\* The storages are listed on the card of their host; bridges of a host are not drawn here.
DetailedNodes ==
  LET Loose(types) == Only(graph.things, OfType(types) \ Assigned(types)) IN
  Joined([i \in DOMAIN graph.hosts |-> HostGroup(graph.hosts[i])])
    \o (Inside(NoParent, Loose({"storage"})) \o Inside(NoParent, Loose({"network"})))

DetailedEdges == {e \in Edges : e.source \in Range(graph.hosts) /\ e.target.id \in Range(graph.hosts)}

-----------------------------------------------------------------------------
(* The cluster view and the network view.                                   *)

ClusterNodes == HostRows

ClusterEdges == DetailedEdges

\* The guests: those of each host, then the others.
PlacedGuests ==
  AddMissing(Joined([i \in DOMAIN graph.hosts |->
                       Only(graph.things, OfHost(graph.hosts[i]) \cap OfType(Guest))]),
             Only(graph.things, OfType(Guest)))

NetworkNodes ==
  Inside(NoParent, Only(graph.things, OfType({"network"}))) \o (HostRows \o Inside(NoParent, PlacedGuests))

\* From the hosts to their guests and their bridges.
NetworkEdges == {e \in Edges : e.source \in Range(graph.hosts) /\ e.target.type \in Guest \cup {"network"}}

DrawnNodes == CASE viewMode = "cluster" -> ClusterNodes
                [] viewMode = "network" -> NetworkNodes
                [] viewMode = "detailed" -> DetailedNodes

DrawnEdges == CASE viewMode = "cluster" -> ClusterEdges
                [] viewMode = "network" -> NetworkEdges
                [] viewMode = "detailed" -> DetailedEdges

-----------------------------------------------------------------------------
(* The component.                                                           *)

MapTypeOK ==
  /\ Range(graph.hosts) \subseteq Range(MapHosts) /\ Range(graph.things) \subseteq Range(MapThings)
  /\ graph.running \subseteq VMs
  /\ mapLoading \in BOOLEAN /\ mapError \in BOOLEAN
  /\ viewMode \in {"cluster", "detailed", "network"}
  /\ statusFilter \in {"all", "running", "stopped"} /\ typeFilter \in {"all", "vm", "ct"}
  /\ tagFilter \in {"", "some"}
  /\ expandedHosts \subseteq Range(MapHosts)

\* It loads when it is mounted.
MapInit ==
  /\ graph = EmptyGraph /\ mapLoading = TRUE /\ mapError = FALSE
  /\ viewMode = "detailed"
  /\ statusFilter = "all" /\ typeFilter = "all" /\ tagFilter = ""
  /\ expandedHosts = {}

\* The button of the toolbar or of the error: while it loads there is neither.
LoadTopology ==
  /\ ~mapLoading /\ mapLoading' = TRUE /\ mapError' = FALSE
  /\ UNCHANGED <<graph, viewMode, statusFilter, typeFilter, tagFilter, expandedHosts>>

\* Every load expands all hosts.
TopologyLoaded(G) ==
  /\ mapLoading /\ mapLoading' = FALSE
  /\ graph' = G /\ expandedHosts' = Range(G.hosts)
  /\ UNCHANGED <<mapError, viewMode, statusFilter, typeFilter, tagFilter>>

TopologyFails ==
  /\ mapLoading /\ mapLoading' = FALSE /\ mapError' = TRUE
  /\ UNCHANGED <<graph, viewMode, statusFilter, typeFilter, tagFilter, expandedHosts>>

MapRendered == ~mapLoading /\ ~mapError

SetViewMode(v) ==
  /\ MapRendered /\ viewMode' = v
  /\ UNCHANGED <<graph, mapLoading, mapError, statusFilter, typeFilter, tagFilter, expandedHosts>>

SetFilter ==
  /\ MapRendered
  /\ \/ statusFilter' \in {"all", "running", "stopped"} /\ UNCHANGED <<typeFilter, tagFilter>>
     \/ typeFilter' \in {"all", "vm", "ct"} /\ UNCHANGED <<statusFilter, tagFilter>>
     \/ tagFilter' \in {"", "some"} /\ UNCHANGED <<statusFilter, typeFilter>>
  /\ UNCHANGED <<graph, mapLoading, mapError, viewMode, expandedHosts>>

\* The button on the card of a host, in the detailed view.
ToggleExpand(h) ==
  /\ MapRendered /\ viewMode = "detailed" /\ h \in Range(graph.hosts)
  /\ expandedHosts' = (expandedHosts \ {h}) \cup ({h} \ expandedHosts)
  /\ UNCHANGED <<graph, mapLoading, mapError, viewMode, statusFilter, typeFilter, tagFilter>>

MapNext ==
  \/ LoadTopology \/ TopologyFails \/ SetFilter
  \/ \E H \in SUBSET (DOMAIN MapHosts) : \E G \in GraphsOf(H) : TopologyLoaded(G)
  \/ \E v \in {"cluster", "detailed", "network"} : SetViewMode(v)
  \/ \E h \in Range(MapHosts) : ToggleExpand(h)

MapSpec == MapInit /\ [][MapNext]_mapVars

-----------------------------------------------------------------------------

Unfiltered == statusFilter = "all" /\ typeFilter = "all" /\ tagFilter = ""

\* The map draws every host once in each view, no thing twice, a guest inside of its own
\* host and after it, and edges only between things that are drawn: the drawing library
\* looks them up by their ids.  A guest is missing only by a filter or in a host that is
\* collapsed.
MapIsWhole ==
  MapRendered =>
    LET drawn == DrawnNodes
        ids == {drawn[i].id : i \in DOMAIN drawn} IN
    /\ Range(graph.hosts) \subseteq ids
    /\ \A i, j \in DOMAIN drawn : i # j => drawn[i].id # drawn[j].id
    /\ \A i \in DOMAIN drawn : drawn[i].in # NoParent =>
         /\ \E j \in 1..(i - 1) : drawn[j].id = drawn[i].in
         /\ \E t \in Range(graph.things) : t.id = drawn[i].id /\ t.host = drawn[i].in
    /\ \A e \in DrawnEdges : e.source \in ids /\ e.target.id \in ids
    /\ \A t \in Range(graph.things) :
         t.type \in Guest /\ (viewMode = "network"
                              \/ (viewMode = "detailed" /\ Unfiltered /\ t.host \in expandedHosts))
           => t.id \in ids
=============================================================================
