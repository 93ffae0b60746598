---------------------------- MODULE ScreensProofs ----------------------------
(***************************************************************************)
(* Proofs about the screens of the web console that MCScreens joins, one   *)
(* after the other: the lists of rows (ListScreens, for every record of    *)
(* ScreenTable), the forms (EditForms, for every form), the list of guests *)
(* (VMList), the assistant for migrations (MigrationForm), the assistant   *)
(* of a guest (VMAssistant), the orders for rows (RowActions, for every    *)
(* table), the gauges of the nodes (NodeGauges), the terminals of a guest  *)
(* (VMShell), the live tail of a log (LogTail), what is made of lists      *)
(* (RowOrder), and with it the palette and the page of the search          *)
(* (SearchPalette, SearchPage) and the map (TopologyMap).  Three sections  *)
(* join them to what MCScreens says of all of them.                        *)
(***************************************************************************)
EXTENDS MCScreens, TLAPS, FiniteSetTheorems, FunctionTheorems, SequenceTheorems

-----------------------------------------------------------------------------
(* ListScreens, for every screen of the table, any objects, changes and     *)
(* listings: whose rows are shown, and which changes are in them.           *)

\* What all the screens have in common: a screen that drops late answers makes no
\* changes, and one that puts a created row into its list only does that or lists too.
SoundScreen(f) ==
  /\ f.latest \in BOOLEAN
  /\ f.latest => f.create = Lacks /\ f.update = Lacks /\ f.delete = Lacks
  /\ f.create \in {Lacks, Drops, Copies, Relists, Both}
  /\ f.update \in {Lacks, Drops, Copies, Relists, Both}
  /\ f.delete \in {Lacks, Drops, Copies, Relists, Both}

LEMMA ScreensAreSound == \A f \in Screens : SoundScreen(f)
<1> USE DEF SoundScreen, Page, Component, Store, ClusterPage, ClusterStore
<1>1. /\ SoundScreen(EnvironmentStore) /\ SoundScreen(NodeStore) /\ SoundScreen(VMGroupStore)
      /\ SoundScreen(VMPermissionStore) /\ SoundScreen(ReflexStore) /\ SoundScreen(AnomalyStore)
  BY DEF EnvironmentStore, NodeStore, VMGroupStore, VMPermissionStore, ReflexStore, AnomalyStore
<1>2. /\ SoundScreen(DriftStore) /\ SoundScreen(EscalationStore) /\ SoundScreen(UserStore)
      /\ SoundScreen(BackupStore) /\ SoundScreen(RunbookStore) /\ SoundScreen(LogAnomalyStore)
      /\ SoundScreen(CockpitStore)
  BY DEF DriftStore, EscalationStore, UserStore, BackupStore, RunbookStore, LogAnomalyStore, CockpitStore
<1>3. /\ SoundScreen(BackupsPage) /\ SoundScreen(BackupSchedulesTab) /\ SoundScreen(TagManager)
      /\ SoundScreen(TagsPage) /\ SoundScreen(TokenList) /\ SoundScreen(ISOsPage) /\ SoundScreen(BriefingPage)
  BY DEF BackupsPage, BackupSchedulesTab, TagManager, TagsPage, TokenList, ISOsPage, BriefingPage
<1>4. /\ SoundScreen(TelegramLinkCard) /\ SoundScreen(SecurityPage) /\ SoundScreen(InvitationsTab)
      /\ SoundScreen(NotificationsSettingsPage) /\ SoundScreen(AlertsPage) /\ SoundScreen(BrainSettingsPage)
  BY DEF TelegramLinkCard, SecurityPage, InvitationsTab, NotificationsSettingsPage, AlertsPage, BrainSettingsPage
<1>5. /\ SoundScreen(ToolApprovalCard) /\ SoundScreen(DependencyGraph) /\ SoundScreen(VMGroupsPage)
      /\ SoundScreen(ClusterStoragePage) /\ SoundScreen(RecommendationsPage) /\ SoundScreen(TaskCenterPage)
  BY DEF ToolApprovalCard, DependencyGraph, VMGroupsPage, ClusterStoragePage, RecommendationsPage, TaskCenterPage
<1>6. /\ SoundScreen(SystemStatusPage) /\ SoundScreen(HealthPage) /\ SoundScreen(AlertHistory)
      /\ SoundScreen(KnowledgeGraphPage) /\ SoundScreen(GatewayAuditLog) /\ SoundScreen(AgentActivityFeed)
  BY DEF SystemStatusPage, HealthPage, AlertHistory, KnowledgeGraphPage, GatewayAuditLog, AgentActivityFeed
<1>7. /\ SoundScreen(NodeMonitoringPage) /\ SoundScreen(NodeDetail) /\ SoundScreen(NodeLogsPage)
      /\ SoundScreen(NodePorts) /\ SoundScreen(StorageOverview) /\ SoundScreen(PBSOverview)
      /\ SoundScreen(NodeISOTemplatesPage) /\ SoundScreen(HealthCard) /\ SoundScreen(KeyList)
  BY DEF NodeMonitoringPage, NodeDetail, NodeLogsPage, NodePorts, StorageOverview, PBSOverview,
         NodeISOTemplatesPage, HealthCard, KeyList
<1>8. /\ SoundScreen(BackupScheduleDialog) /\ SoundScreen(BackupDetailDialog) /\ SoundScreen(RestoreDialog)
      /\ SoundScreen(VzdumpDialog) /\ SoundScreen(SnapshotDialog) /\ SoundScreen(SnapshotPolicySection)
      /\ SoundScreen(ScheduledActionsSection)
  BY DEF BackupScheduleDialog, BackupDetailDialog, RestoreDialog, VzdumpDialog, SnapshotDialog,
         SnapshotPolicySection, ScheduledActionsSection
<1>9. /\ SoundScreen(TagAssignDialog) /\ SoundScreen(VMTagAssignDialog) /\ SoundScreen(AccessOverview)
      /\ SoundScreen(ClusterLogsPage) /\ SoundScreen(ClusterDashboardPage) /\ SoundScreen(VMServiceAnalysis)
  BY DEF TagAssignDialog, VMTagAssignDialog, AccessOverview, ClusterLogsPage, ClusterDashboardPage,
         VMServiceAnalysis
<1>10. /\ SoundScreen(NetworkSecurityOverview) /\ SoundScreen(NetworkTraffic) /\ SoundScreen(VMNetworkTraffic)
       /\ SoundScreen(AuditLogPage) /\ SoundScreen(FlightRecorderPage) /\ SoundScreen(RootCausePage)
       /\ SoundScreen(ReportsPage)
  BY DEF NetworkSecurityOverview, NetworkTraffic, VMNetworkTraffic, AuditLogPage, FlightRecorderPage,
         RootCausePage, ReportsPage
<1> HIDE DEF SoundScreen, Page, Component, Store, ClusterPage, ClusterStore
<1> QED
  BY <1>1, <1>2, <1>3, <1>4, <1>5, <1>6, <1>7, <1>8, <1>9, <1>10 DEF Screens

RowList == [of : Subjects \cup {NoSubject}, has : SUBSET Changes, twice : BOOLEAN]
RowGet == [phase : {"none", "asked", "taken"}, of : Subjects \cup {NoSubject},
           has : SUBSET Changes, late : BOOLEAN]
RowChange == [phase : {"idle", "sent", "made", "over"}, kind : Kinds,
              of : Subjects \cup {NoSubject}, follow : SUBSET {"copy", "list"}]

RowTypes == /\ screen \in Screens /\ subject \in Subjects \cup {NoSubject} /\ list \in RowList
            /\ rowListing \in [RowGets -> RowGet] /\ change \in [Changes -> RowChange]
            /\ serverRows \in [Subjects -> SUBSET Changes]
            /\ loading \in BOOLEAN /\ rowsCrossed \in BOOLEAN

Pending(c) == change[c].phase \in {"sent", "made"}

\* A listing that is out is of an object; rows are hidden only while one is out that
\* will be shown.
GetsAreOf == \A s \in RowGets : rowListing[s].phase # "none" => rowListing[s].of \in Subjects
LoadingIsOut == loading => \E s \in RowGets : rowListing[s].phase # "none" /\ ~rowListing[s].late

\* A change that is out is of an object, and is followed up as the screen says.
ChangesAreOf ==
  \A c \in Changes : Pending(c) =>
    /\ change[c].of \in Subjects /\ ~screen.latest /\ (screen.stays => subject # NoSubject)
    /\ change[c].kind = "create" /\ "copy" \in change[c].follow /\ "list" \notin change[c].follow
       => screen.create = Copies
RowsAreMade ==
  \A o \in Subjects : \A c \in serverRows[o] :
    change[c].phase \in {"made", "over"} /\ (change[c].phase = "made" => change[c].of = o)

\* A page of one object has nothing of another, nor has a screen of the only one.
PageIsOfOne ==
  screen.holds = "page" =>
    /\ list.of \in {subject, NoSubject}
    /\ \A s \in RowGets : rowListing[s].phase # "none" => rowListing[s].of = subject
    /\ \A c \in Changes : Pending(c) /\ change[c].follow # {} => change[c].of = subject
OnlyTheOne ==
  screen.one =>
    /\ subject \in {TheOne, NoSubject} /\ list.of \in {TheOne, NoSubject}
    /\ \A s \in RowGets : rowListing[s].phase # "none" => rowListing[s].of = TheOne
    /\ \A c \in Changes : Pending(c) => change[c].of = TheOne

\* Unless listings have crossed, those that will be shown are of the open object; so
\* are the rows when they are shown, unless a failure left those of another.
GetsAreOfSubject ==
  subject # NoSubject /\ ~rowsCrossed =>
    \A s \in RowGets : rowListing[s].phase # "none" /\ ~rowListing[s].late => rowListing[s].of = subject
RowsAreOfSubject ==
  subject # NoSubject /\ ~loading /\ ~rowsCrossed /\ ~leftover => list.of \in {subject, NoSubject}

\* The rows that are shown have all that the screen has heard of their object.
RowsAreCurrent ==
  ~loading /\ ~outdated /\ list.of # NoSubject =>
    Heard(list.of) \subseteq list.has /\ (screen.create # Copies => ~list.twice)

RowsInv == /\ RowTypes /\ GetsAreOf /\ LoadingIsOut /\ ChangesAreOf /\ RowsAreMade /\ PageIsOfOne
           /\ OnlyTheOne /\ GetsAreOfSubject /\ RowsAreOfSubject /\ RowsAreCurrent

LEMMA RowsInvInit == ListInit => RowsInv
<1> SUFFICES ASSUME ListInit PROVE RowsInv
  OBVIOUS
<1>1. NoListing \in RowGet /\ NoListing.phase = "none"
  BY DEF NoListing, RowGet
<1>2. NoChange \in RowChange /\ NoChange.phase = "idle"
  BY DEF NoChange, RowChange, Kinds
<1>3. NoList \in RowList /\ NoList.of = NoSubject
  BY DEF NoList, RowList
<1>4. RowTypes
  BY <1>1, <1>2, <1>3 DEF ListInit, RowTypes
<1>5. \A s \in RowGets : rowListing[s].phase = "none"
  BY <1>1 DEF ListInit
<1>6. \A c \in Changes : change[c].phase = "idle"
  BY <1>2 DEF ListInit
<1>7. GetsAreOf /\ LoadingIsOut /\ GetsAreOfSubject
  BY <1>5 DEF ListInit, GetsAreOf, LoadingIsOut, GetsAreOfSubject
<1>8. ChangesAreOf /\ RowsAreMade
  BY <1>6 DEF ListInit, ChangesAreOf, RowsAreMade, Pending
<1>9. PageIsOfOne /\ OnlyTheOne
  BY <1>3, <1>5, <1>6 DEF ListInit, PageIsOfOne, OnlyTheOne, Pending
<1>10. RowsAreOfSubject /\ RowsAreCurrent
  BY <1>3 DEF ListInit, RowsAreOfSubject, RowsAreCurrent
<1> QED
  BY <1>4, <1>7, <1>8, <1>9, <1>10 DEF RowsInv


LEMMA ServeKeeps == ASSUME RowsInv, NEW s \in RowGets, Serve(s) PROVE RowsInv'
<1>0. RowTypes /\ rowListing[s] \in RowGet /\ rowListing[s].phase = "asked" /\ rowListing[s].of \in Subjects
  BY DEF RowsInv, RowTypes, GetsAreOf, Serve
<1>1. UNCHANGED <<screen, subject, list, loading, change, serverRows, rowsCrossed, leftover, outdated>>
  BY DEF Serve
<1>2. PICK r : r = [rowListing[s] EXCEPT !.phase = "taken", !.has = serverRows[rowListing[s].of]]
  OBVIOUS
<1>3. r \in RowGet /\ r.phase = "taken" /\ r.of = rowListing[s].of /\ r.late = rowListing[s].late
  <2>1. serverRows[rowListing[s].of] \in SUBSET Changes
    BY <1>0 DEF RowTypes
  <2> QED
    BY <1>0, <1>2, <2>1 DEF RowGet
<1>4. rowListing' = [rowListing EXCEPT ![s] = r]
  BY <1>0, <1>2 DEF Serve, RowTypes, RowGet
<1>5. /\ rowListing' \in [RowGets -> RowGet] /\ rowListing'[s] = r
      /\ \A k \in RowGets \ {s} : rowListing'[k] = rowListing[k]
  BY <1>0, <1>3, <1>4 DEF RowTypes
<1>6. \A k \in RowGets : /\ rowListing'[k].phase = "none" <=> rowListing[k].phase = "none"
                         /\ rowListing'[k].of = rowListing[k].of /\ rowListing'[k].late = rowListing[k].late
  BY <1>0, <1>3, <1>5
<1>7. RowTypes'
  BY <1>0, <1>1, <1>5 DEF RowTypes
<1>8. GetsAreOf' /\ LoadingIsOut' /\ GetsAreOfSubject'
  BY <1>1, <1>6 DEF RowsInv, GetsAreOf, LoadingIsOut, GetsAreOfSubject
<1>9. ChangesAreOf' /\ RowsAreMade' /\ RowsAreOfSubject' /\ RowsAreCurrent'
  BY <1>1 DEF RowsInv, ChangesAreOf, RowsAreMade, RowsAreOfSubject, RowsAreCurrent, Pending, Heard
<1>10. PageIsOfOne' /\ OnlyTheOne'
  BY <1>1, <1>6 DEF RowsInv, PageIsOfOne, OnlyTheOne, Pending
<1> QED
  BY <1>7, <1>8, <1>9, <1>10 DEF RowsInv

\* A listing is no longer out.
LEMMA GetGone ==
  ASSUME RowTypes, NEW s \in RowGets, rowListing' = [rowListing EXCEPT ![s] = NoListing]
  PROVE  /\ rowListing' \in [RowGets -> RowGet] /\ rowListing'[s].phase = "none"
         /\ \A k \in RowGets \ {s} : rowListing'[k] = rowListing[k]
<1>1. NoListing \in RowGet /\ NoListing.phase = "none"
  BY DEF NoListing, RowGet
<1> QED
  BY <1>1 DEF RowTypes

\* What the end of a listing leaves as it is.
LEMMA GetEnds ==
  ASSUME RowsInv, NEW s \in RowGets, rowListing' = [rowListing EXCEPT ![s] = NoListing],
         UNCHANGED <<screen, subject, change, serverRows, rowsCrossed>>
  PROVE  /\ GetsAreOf' /\ ChangesAreOf' /\ RowsAreMade' /\ GetsAreOfSubject'
         /\ list'.of \in {list.of, rowListing[s].of, NoSubject} /\ rowListing[s].phase # "none"
            => PageIsOfOne' /\ OnlyTheOne'
         /\ list' \in RowList /\ loading' \in BOOLEAN => RowTypes'
<1>1. /\ rowListing' \in [RowGets -> RowGet] /\ rowListing'[s].phase = "none"
      /\ \A k \in RowGets \ {s} : rowListing'[k] = rowListing[k]
  BY GetGone DEF RowsInv
<1>2. GetsAreOf' /\ GetsAreOfSubject'
  BY <1>1 DEF RowsInv, GetsAreOf, GetsAreOfSubject
<1>3. ChangesAreOf' /\ RowsAreMade'
  BY DEF RowsInv, ChangesAreOf, RowsAreMade, Pending
<1>4. ASSUME list'.of \in {list.of, rowListing[s].of, NoSubject}, rowListing[s].phase # "none"
      PROVE  PageIsOfOne' /\ OnlyTheOne'
  <2>1. PageIsOfOne'
    BY <1>1, <1>4 DEF RowsInv, PageIsOfOne, Pending
  <2>2. OnlyTheOne'
    BY <1>1, <1>4 DEF RowsInv, OnlyTheOne, Pending
  <2> QED
    BY <2>1, <2>2
<1>5. list' \in RowList /\ loading' \in BOOLEAN => RowTypes'
  BY <1>1 DEF RowsInv, RowTypes
<1> QED
  BY <1>2, <1>3, <1>4, <1>5

LEMMA RowsListedKeeps == ASSUME RowsInv, NEW s \in RowGets, RowsListed(s) PROVE RowsInv'
<1>0. /\ rowListing[s] \in RowGet /\ rowListing[s].phase = "taken" /\ ~rowListing[s].late
      /\ rowListing' = [rowListing EXCEPT ![s] = NoListing]
      /\ list' = [of |-> rowListing[s].of, has |-> rowListing[s].has, twice |-> FALSE]
      /\ loading' = FALSE /\ outdated' = ~(Heard(rowListing[s].of) \subseteq rowListing[s].has)
      /\ UNCHANGED <<screen, subject, change, serverRows, rowsCrossed>>
  BY DEF RowsInv, RowTypes, RowsListed
<1>1. list' \in RowList /\ list'.of = rowListing[s].of /\ list'.has = rowListing[s].has /\ list'.twice = FALSE
  BY <1>0 DEF RowList, RowGet
<1>2. LoadingIsOut'
  BY <1>0 DEF LoadingIsOut
<1>3. RowsAreOfSubject'
  BY <1>0, <1>1 DEF RowsInv, GetsAreOfSubject, RowsAreOfSubject
<1>4. RowsAreCurrent'
  BY <1>0, <1>1 DEF RowsAreCurrent, Heard
<1> QED
  BY <1>0, <1>1, <1>2, <1>3, <1>4, GetEnds DEF RowsInv

LEMMA ListFailsKeeps == ASSUME RowsInv, NEW s \in RowGets, ListFails(s) PROVE RowsInv'
<1>0. /\ rowListing[s] \in RowGet /\ rowListing[s].phase # "none" /\ ~rowListing[s].late
      /\ rowListing' = [rowListing EXCEPT ![s] = NoListing]
      /\ loading' = FALSE /\ outdated' = TRUE
      /\ UNCHANGED <<screen, subject, change, serverRows, rowsCrossed>>
  BY DEF RowsInv, RowTypes, ListFails
<1>1. \/ list' = NoList
      \/ list' = list /\ leftover' = (list.of # NoSubject /\ (leftover \/ list.of # rowListing[s].of))
  BY DEF ListFails
<1>2. NoList \in RowList /\ NoList.of = NoSubject
  BY DEF NoList, RowList
<1>3. list' \in RowList /\ list'.of \in {list.of, NoSubject}
  BY <1>1, <1>2 DEF RowsInv, RowTypes
<1>4. LoadingIsOut' /\ RowsAreCurrent'
  BY <1>0 DEF LoadingIsOut, RowsAreCurrent
<1>5. RowsAreOfSubject'
  BY <1>0, <1>1, <1>2 DEF RowsInv, GetsAreOfSubject, RowsAreOfSubject
<1> QED
  BY <1>0, <1>3, <1>4, <1>5, GetEnds DEF RowsInv

LEMMA ListDroppedKeeps == ASSUME RowsInv, NEW s \in RowGets, ListDropped(s) PROVE RowsInv'
<1>0. /\ rowListing[s].late /\ rowListing' = [rowListing EXCEPT ![s] = NoListing]
      /\ UNCHANGED <<screen, subject, list, loading, change, serverRows, rowsCrossed, leftover, outdated>>
  BY DEF ListDropped
<1>1. /\ rowListing'[s].phase = "none"
      /\ \A k \in RowGets \ {s} : rowListing'[k] = rowListing[k]
  BY <1>0, GetGone DEF RowsInv
<1>2. LoadingIsOut'
  BY <1>0, <1>1 DEF RowsInv, LoadingIsOut
<1>3. RowsAreOfSubject' /\ RowsAreCurrent'
  BY <1>0 DEF RowsInv, RowsAreOfSubject, RowsAreCurrent, Heard
<1>4. PageIsOfOne' /\ OnlyTheOne'
  BY <1>0, <1>1 DEF RowsInv, PageIsOfOne, OnlyTheOne, Pending
<1>5. list' \in RowList /\ loading' \in BOOLEAN
  BY <1>0 DEF RowsInv, RowTypes
<1> QED
  BY <1>0, <1>2, <1>3, <1>4, <1>5, GetEnds DEF RowsInv

\* Rows are asked for: of the object that is open from now on, or what is out has
\* crossed; those that will be shown are of no other object than before.
LEMMA AskRowsEffect ==
  ASSUME RowsInv, NEW of \in Subjects, AskRows(of, rowListing), screen' = screen,
         screen.latest => of = subject'
  PROVE  /\ rowListing' \in [RowGets -> RowGet] /\ loading' = TRUE /\ rowsCrossed' \in BOOLEAN
         /\ GetsAreOf' /\ LoadingIsOut' /\ GetsAreOfSubject'
         /\ \A s \in RowGets : rowListing'[s].phase # "none" =>
              \/ rowListing'[s].of = of
              \/ rowListing[s].phase # "none" /\ rowListing'[s].of = rowListing[s].of
<1>0. RowTypes /\ screen.latest \in BOOLEAN
  BY ScreensAreSound DEF RowsInv, RowTypes, SoundScreen
<1>1. PICK s \in RowGets \ Out(rowListing) :
        rowListing' = [r \in RowGets |->
                         IF r = s THEN [NoListing EXCEPT !.phase = "asked", !.of = of]
                         ELSE [rowListing[r] EXCEPT !.late = r \in Out(rowListing) /\ screen.latest]]
  BY DEF AskRows
<1>2. loading' = TRUE /\ rowsCrossed' = (~screen.latest /\ Crossing(rowListing, of))
  BY DEF AskRows
<1>3. PICK new : new = [NoListing EXCEPT !.phase = "asked", !.of = of]
  OBVIOUS
<1>4. new \in RowGet /\ new.phase = "asked" /\ new.of = of /\ new.late = FALSE
  BY <1>3 DEF NoListing, RowGet
<1>5. rowListing'[s] = new
  BY <1>1, <1>3
<1>6. ASSUME NEW r \in RowGets \ {s}
      PROVE  /\ rowListing'[r] \in RowGet /\ rowListing'[r].phase = rowListing[r].phase
             /\ rowListing'[r].of = rowListing[r].of
             /\ rowListing'[r].late = (r \in Out(rowListing) /\ screen.latest)
  <2>1. rowListing'[r] = [rowListing[r] EXCEPT !.late = r \in Out(rowListing) /\ screen.latest]
    BY <1>1
  <2>2. PICK g \in RowGet : g = rowListing[r]
    BY <1>0 DEF RowTypes
  <2>3. PICK b \in BOOLEAN : b = (r \in Out(rowListing) /\ screen.latest)
    OBVIOUS
  <2>4. rowListing'[r] = [g EXCEPT !.late = b]
    BY <2>1, <2>2, <2>3
  <2>5. [g EXCEPT !.late = b] \in RowGet /\ [g EXCEPT !.late = b].late = b
        /\ [g EXCEPT !.late = b].phase = g.phase /\ [g EXCEPT !.late = b].of = g.of
    BY DEF RowGet
  <2> QED
    BY <2>2, <2>3, <2>4, <2>5
<1>7. rowListing' = [r \in RowGets |-> rowListing'[r]]
  BY <1>1
<1>8. \A r \in RowGets : rowListing'[r] \in RowGet
  BY <1>4, <1>5, <1>6
<1>9. rowListing' \in [RowGets -> RowGet]
  BY <1>7, <1>8
<1>10. \A r \in RowGets : r \in Out(rowListing) <=> rowListing[r].phase # "none"
  BY DEF Out
<1>11. GetsAreOf'
  BY <1>4, <1>5, <1>6 DEF RowsInv, GetsAreOf
<1>12. LoadingIsOut'
  BY <1>4, <1>5 DEF LoadingIsOut
<1>13. GetsAreOfSubject'
  <2> SUFFICES ASSUME ~rowsCrossed', NEW r \in RowGets, rowListing'[r].phase # "none", ~rowListing'[r].late
               PROVE  rowListing'[r].of = subject'
    BY DEF GetsAreOfSubject
  <2>1. CASE screen.latest
    <3>1. r = s
      BY <1>6, <1>10, <2>1
    <3> QED
      BY <1>4, <1>5, <2>1, <3>1
  <2>2. CASE ~screen.latest
    <3>1. ~Crossing(rowListing, of)
      BY <1>2, <2>2
    <3>2. of = subject' /\ \A k \in Out(rowListing) : rowListing[k].of = of
      BY <3>1 DEF Crossing
    <3> QED
      BY <1>4, <1>5, <1>6, <1>10, <3>2
  <2> QED
    BY <2>1, <2>2
<1>14. rowsCrossed' \in BOOLEAN
  BY <1>2, Zenon
<1>15. \A r \in RowGets : rowListing'[r].phase # "none" =>
              \/ rowListing'[r].of = of
              \/ rowListing[r].phase # "none" /\ rowListing'[r].of = rowListing[r].of
  BY <1>4, <1>5, <1>6
<1> QED
  BY <1>2, <1>9, <1>11, <1>12, <1>13, <1>14, <1>15

LEMMA OpenKeeps == ASSUME RowsInv, NEW o \in Subjects, Open(o) PROVE RowsInv'
<1>0. /\ subject' = o /\ (screen.one => o = TheOne) /\ (screen.holds = "page" => subject = NoSubject)
      /\ AskRows(o, rowListing) /\ list' \in {list, NoList} /\ o # NoSubject
      /\ UNCHANGED <<screen, change, serverRows, leftover, outdated>>
  BY NoSubjectAssumption DEF Open
<1>1. /\ rowListing' \in [RowGets -> RowGet] /\ loading' = TRUE /\ rowsCrossed' \in BOOLEAN
      /\ GetsAreOf' /\ LoadingIsOut' /\ GetsAreOfSubject'
      /\ \A s \in RowGets : rowListing'[s].phase # "none" =>
           \/ rowListing'[s].of = o
           \/ rowListing[s].phase # "none" /\ rowListing'[s].of = rowListing[s].of
  BY <1>0, AskRowsEffect
<1>2. NoList \in RowList /\ NoList.of = NoSubject
  BY DEF NoList, RowList
<1>3. RowTypes' /\ list'.of \in {list.of, NoSubject}
  BY <1>0, <1>1, <1>2 DEF RowsInv, RowTypes
<1>4. ChangesAreOf' /\ RowsAreMade'
  BY <1>0 DEF RowsInv, ChangesAreOf, RowsAreMade, Pending
<1>5. PageIsOfOne'
  <2> SUFFICES ASSUME screen.holds = "page"
               PROVE  /\ list'.of \in {o, NoSubject}
                      /\ \A s \in RowGets : rowListing'[s].phase # "none" => rowListing'[s].of = o
                      /\ \A c \in Changes : Pending(c) => change[c].follow = {}
    BY <1>0 DEF PageIsOfOne, Pending
  <2>1. list.of = NoSubject /\ \A s \in RowGets : rowListing[s].phase = "none"
    BY <1>0, NoSubjectAssumption DEF RowsInv, PageIsOfOne, GetsAreOf
  <2>2. \A c \in Changes : Pending(c) => change[c].follow = {}
    BY <1>0, NoSubjectAssumption DEF RowsInv, PageIsOfOne, ChangesAreOf
  <2> QED
    BY <1>1, <1>3, <2>1, <2>2
<1>6. OnlyTheOne'
  BY <1>0, <1>1, <1>3 DEF RowsInv, OnlyTheOne, Pending
<1>7. RowsAreOfSubject' /\ RowsAreCurrent'
  BY <1>1 DEF RowsAreOfSubject, RowsAreCurrent
<1> QED
  BY <1>1, <1>3, <1>4, <1>5, <1>6, <1>7 DEF RowsInv

LEMMA AgainKeeps == ASSUME RowsInv, Again PROVE RowsInv'
<1>0. /\ subject \in Subjects /\ AskRows(subject, rowListing)
      /\ UNCHANGED <<screen, subject, list, change, serverRows, leftover, outdated>>
  BY DEF RowsInv, RowTypes, Again
<1>1. /\ rowListing' \in [RowGets -> RowGet] /\ loading' = TRUE /\ rowsCrossed' \in BOOLEAN
      /\ GetsAreOf' /\ LoadingIsOut' /\ GetsAreOfSubject'
      /\ \A s \in RowGets : rowListing'[s].phase # "none" =>
           \/ rowListing'[s].of = subject
           \/ rowListing[s].phase # "none" /\ rowListing'[s].of = rowListing[s].of
  BY <1>0, AskRowsEffect
<1>2. RowTypes'
  BY <1>0, <1>1 DEF RowsInv, RowTypes
<1>3. ChangesAreOf' /\ RowsAreMade'
  BY <1>0 DEF RowsInv, ChangesAreOf, RowsAreMade, Pending
<1>4. PageIsOfOne' /\ OnlyTheOne'
  BY <1>0, <1>1, NoSubjectAssumption DEF RowsInv, PageIsOfOne, OnlyTheOne, Pending
<1>5. RowsAreOfSubject' /\ RowsAreCurrent'
  BY <1>1 DEF RowsAreOfSubject, RowsAreCurrent
<1> QED
  BY <1>1, <1>2, <1>3, <1>4, <1>5 DEF RowsInv

LEMMA CloseKeeps == ASSUME RowsInv, Close PROVE RowsInv'
<1>0. /\ subject' = NoSubject /\ ~screen.stays
      /\ UNCHANGED <<screen, serverRows, rowsCrossed, leftover, outdated>>
  BY DEF Close
<1>1. CASE screen.holds = "page"
  <2>1. /\ list' = NoList /\ loading' = FALSE /\ rowListing' = [s \in RowGets |-> NoListing]
        /\ change' = [c \in Changes |-> [change[c] EXCEPT !.follow = {}]]
    BY <1>1 DEF Close
  <2>2. NoListing \in RowGet /\ NoListing.phase = "none" /\ NoList \in RowList /\ NoList.of = NoSubject
    BY DEF NoListing, RowGet, NoList, RowList
  <2>3. ASSUME NEW c \in Changes
        PROVE  /\ change'[c] \in RowChange /\ change'[c].phase = change[c].phase
               /\ change'[c].of = change[c].of /\ change'[c].follow = {}
    <3>1. change[c] \in RowChange /\ change'[c] = [change[c] EXCEPT !.follow = {}]
      BY <2>1 DEF RowsInv, RowTypes
    <3> QED
      BY <3>1 DEF RowChange
  <2>4. change' \in [Changes -> RowChange]
    BY <2>1, <2>3
  <2>5. RowTypes'
    BY <1>0, <2>1, <2>2, <2>4 DEF RowsInv, RowTypes
  <2>6. \A s \in RowGets : rowListing'[s].phase = "none"
    BY <2>1, <2>2
  <2>7. GetsAreOf' /\ LoadingIsOut' /\ GetsAreOfSubject'
    BY <2>1, <2>6 DEF GetsAreOf, LoadingIsOut, GetsAreOfSubject
  <2>8. ChangesAreOf'
    BY <1>0, <2>3 DEF RowsInv, ChangesAreOf, Pending
  <2>9. RowsAreMade'
    <3>1. \A o \in Subjects : serverRows[o] \subseteq Changes
      BY DEF RowsInv, RowTypes
    <3> QED
      BY <1>0, <2>3, <3>1 DEF RowsInv, RowsAreMade
  <2>10. PageIsOfOne' /\ OnlyTheOne'
    <3>1. PageIsOfOne'
      BY <1>0, <2>1, <2>2, <2>3, <2>6 DEF RowsInv, PageIsOfOne, Pending
    <3>2. OnlyTheOne'
      BY <1>0, <2>1, <2>2, <2>3, <2>6 DEF RowsInv, OnlyTheOne, Pending
    <3> QED
      BY <3>1, <3>2
  <2>11. RowsAreOfSubject' /\ RowsAreCurrent'
    BY <1>0, <2>1, <2>2 DEF RowsAreOfSubject, RowsAreCurrent
  <2> QED
    BY <2>5, <2>7, <2>8, <2>9, <2>10, <2>11 DEF RowsInv
<1>2. CASE screen.holds # "page"
  <2>1. UNCHANGED <<list, loading, rowListing, change>>
    BY <1>2 DEF Close
  <2>2. RowTypes' /\ GetsAreOf' /\ LoadingIsOut' /\ GetsAreOfSubject'
    BY <1>0, <2>1 DEF RowsInv, RowTypes, GetsAreOf, LoadingIsOut, GetsAreOfSubject
  <2>3. ChangesAreOf' /\ RowsAreMade' /\ PageIsOfOne'
    BY <1>0, <1>2, <2>1 DEF RowsInv, ChangesAreOf, RowsAreMade, PageIsOfOne, Pending
  <2>4. OnlyTheOne' /\ RowsAreOfSubject' /\ RowsAreCurrent'
    BY <1>0, <2>1 DEF RowsInv, OnlyTheOne, RowsAreOfSubject, RowsAreCurrent, Pending, Heard
  <2> QED
    BY <2>2, <2>3, <2>4 DEF RowsInv
<1> QED
  BY <1>1, <1>2

\* One change moves; the screen, its rows and its listings stay as they are.
LEMMA ChangeMoves ==
  ASSUME RowsInv, NEW c \in Changes, NEW x \in RowChange, change' = [change EXCEPT ![c] = x],
         UNCHANGED <<screen, subject, list, loading, rowListing, rowsCrossed, leftover, outdated>>,
         serverRows' \in [Subjects -> SUBSET Changes], RowsAreMade',
         x.phase \in {"sent", "made"} =>
           /\ x.of \in Subjects /\ ~screen.latest /\ (screen.stays => subject # NoSubject)
           /\ x.kind = "create" /\ "copy" \in x.follow /\ "list" \notin x.follow => screen.create = Copies
           /\ screen.holds = "page" /\ x.follow # {} => x.of = subject
           /\ screen.one => x.of = TheOne,
         \A o \in Subjects : Heard(o)' \subseteq Heard(o)
  PROVE  RowsInv'
<1>1. /\ change' \in [Changes -> RowChange] /\ change'[c] = x
      /\ \A d \in Changes \ {c} : change'[d] = change[d]
  BY DEF RowsInv, RowTypes
<1>2. RowTypes' /\ GetsAreOf' /\ LoadingIsOut' /\ GetsAreOfSubject' /\ RowsAreOfSubject'
  BY <1>1 DEF RowsInv, RowTypes, GetsAreOf, LoadingIsOut, GetsAreOfSubject, RowsAreOfSubject
<1>3. ChangesAreOf'
  BY <1>1 DEF RowsInv, ChangesAreOf, Pending
<1>4. PageIsOfOne'
  BY <1>1 DEF RowsInv, PageIsOfOne, Pending
<1>5. OnlyTheOne'
  BY <1>1 DEF RowsInv, OnlyTheOne, Pending
<1>6. RowsAreCurrent'
  <2> SUFFICES ASSUME ~loading, ~outdated, list.of # NoSubject
               PROVE  Heard(list.of)' \subseteq list.has /\ (screen.create # Copies => ~list.twice)
    BY DEF RowsAreCurrent
  <2>1. Heard(list.of) \subseteq list.has /\ (screen.create # Copies => ~list.twice)
    BY DEF RowsInv, RowsAreCurrent
  <2>2. PICK o \in Subjects : o = list.of
    BY DEF RowsInv, RowTypes, RowList
  <2>3. Heard(o)' \subseteq Heard(o)
    OBVIOUS
  <2>4. o = list'.of
    BY <2>2
  <2> QED
    BY <2>1, <2>2, <2>3, <2>4 DEF Heard
<1> QED
  BY <1>2, <1>3, <1>4, <1>5, <1>6 DEF RowsInv

LEMMA StartKeeps == ASSUME RowsInv, NEW c \in Changes, Start(c) PROVE RowsInv'
<1>0. /\ subject \in Subjects /\ change[c].phase = "idle" /\ SoundScreen(screen)
      /\ UNCHANGED <<screen, subject, list, loading, rowListing, serverRows, rowsCrossed, leftover, outdated>>
  BY ScreensAreSound DEF RowsInv, RowTypes, Start
<1>1. PICK k \in Kinds : /\ screen[k] # Lacks
                         /\ change' = [change EXCEPT ![c] = [phase |-> "sent", kind |-> k, of |-> subject,
                                                             follow |-> screen[k]]]
  BY DEF Start
<1>2. screen[k] \in {Drops, Copies, Relists, Both} /\ ~screen.latest /\ (k = "create" => screen[k] = screen.create)
  <2>1. CASE k = "create"
    BY <1>0, <1>1, <2>1 DEF SoundScreen
  <2>2. CASE k = "update"
    BY <1>0, <1>1, <2>2 DEF SoundScreen
  <2>3. CASE k = "delete"
    BY <1>0, <1>1, <2>3 DEF SoundScreen
  <2> QED
    BY <2>1, <2>2, <2>3 DEF Kinds
<1>3. PICK f : f = screen[k]
  OBVIOUS
<1>4. f \in {Drops, Copies, Relists, Both} /\ (k = "create" => f = screen.create)
  BY <1>2, <1>3
<1>5. f \in SUBSET {"copy", "list"} /\ ("copy" \in f /\ "list" \notin f => f = Copies)
  BY <1>4 DEF Drops, Copies, Relists, Both
<1>6. PICK x : x = [phase |-> "sent", kind |-> k, of |-> subject, follow |-> f]
  OBVIOUS
<1>7. x \in RowChange /\ x.phase = "sent" /\ x.kind = k /\ x.of = subject /\ x.follow = f
  BY <1>0, <1>5, <1>6 DEF RowChange
<1>8. change' = [change EXCEPT ![c] = x]
  BY <1>1, <1>3, <1>6
<1>9. change'[c] = x /\ \A d \in Changes \ {c} : change'[d] = change[d]
  BY <1>8 DEF RowsInv, RowTypes
<1>10. \A o \in Subjects : c \notin serverRows[o] /\ serverRows[o] \subseteq Changes
  BY <1>0 DEF RowsInv, RowsAreMade, RowTypes
<1>11. RowsAreMade' /\ serverRows' \in [Subjects -> SUBSET Changes]
  BY <1>0, <1>9, <1>10 DEF RowsInv, RowsAreMade, RowTypes
<1>12. \A o \in Subjects : Heard(o)' \subseteq Heard(o)
  BY <1>0, <1>9, <1>10 DEF Heard
<1>13. /\ x.of \in Subjects /\ ~screen.latest /\ (screen.stays => subject # NoSubject)
       /\ x.kind = "create" /\ "copy" \in x.follow /\ "list" \notin x.follow => screen.create = Copies
       /\ screen.holds = "page" /\ x.follow # {} => x.of = subject
       /\ screen.one => x.of = TheOne
  BY <1>0, <1>2, <1>4, <1>5, <1>7, NoSubjectAssumption DEF RowsInv, OnlyTheOne
<1> QED
  BY <1>0, <1>7, <1>8, <1>11, <1>12, <1>13, ChangeMoves

LEMMA MakeKeeps == ASSUME RowsInv, NEW c \in Changes, Make(c) PROVE RowsInv'
<1>0. /\ change[c] \in RowChange /\ change[c].phase = "sent" /\ change[c].of \in Subjects
      /\ serverRows \in [Subjects -> SUBSET Changes]
      /\ UNCHANGED <<screen, subject, list, loading, rowListing, rowsCrossed, leftover, outdated>>
  BY DEF RowsInv, RowTypes, Make, ChangesAreOf, Pending
<1>1. PICK x : x = [change[c] EXCEPT !.phase = "made"]
  OBVIOUS
<1>2. /\ x \in RowChange /\ x.phase = "made" /\ x.of = change[c].of /\ x.kind = change[c].kind
      /\ x.follow = change[c].follow
  BY <1>0, <1>1 DEF RowChange
<1>3. change' = [change EXCEPT ![c] = x]
  BY <1>1 DEF Make, RowsInv, RowTypes
<1>4. change'[c] = x /\ \A d \in Changes \ {c} : change'[d] = change[d]
  BY <1>3 DEF RowsInv, RowTypes
<1>5. serverRows' = [serverRows EXCEPT ![change[c].of] = serverRows[change[c].of] \cup {c}]
  BY DEF Make
<1>6. /\ serverRows' \in [Subjects -> SUBSET Changes]
      /\ serverRows'[change[c].of] = serverRows[change[c].of] \cup {c}
      /\ \A o \in Subjects \ {change[c].of} : serverRows'[o] = serverRows[o]
  BY <1>0, <1>5
<1>7. \A o \in Subjects : c \notin serverRows[o] /\ serverRows[o] \subseteq Changes
  BY <1>0 DEF RowsInv, RowsAreMade
<1>8. RowsAreMade'
  <2> SUFFICES ASSUME NEW o \in Subjects, NEW d \in serverRows'[o]
               PROVE  change'[d].phase \in {"made", "over"} /\ (change'[d].phase = "made" => change'[d].of = o)
    BY DEF RowsAreMade
  <2>1. CASE d = c
    BY <1>2, <1>4, <1>6, <1>7, <2>1
  <2>2. CASE d # c
    <3>1. d \in serverRows[o]
      BY <1>6, <2>2
    <3>2. d \in Changes
      BY <1>7, <3>1
    <3> QED
      BY <1>4, <2>2, <3>1, <3>2 DEF RowsInv, RowsAreMade
  <2> QED
    BY <2>1, <2>2
<1>9. \A o \in Subjects : Heard(o)' \subseteq Heard(o)
  <2> SUFFICES ASSUME NEW o \in Subjects, NEW d \in serverRows'[o], change'[d].phase = "over",
                      change'[d].follow # {}
               PROVE  d \in Heard(o)
    BY DEF Heard
  <2>1. d # c
    BY <1>2, <1>4
  <2>2. d \in serverRows[o]
    BY <1>6, <2>1
  <2>3. d \in Changes
    BY <1>7, <2>2
  <2> QED
    BY <1>4, <2>1, <2>2, <2>3 DEF Heard
<1>10. /\ x.of \in Subjects /\ ~screen.latest /\ (screen.stays => subject # NoSubject)
       /\ x.kind = "create" /\ "copy" \in x.follow /\ "list" \notin x.follow => screen.create = Copies
       /\ screen.holds = "page" /\ x.follow # {} => x.of = subject
       /\ screen.one => x.of = TheOne
  BY <1>0, <1>2 DEF RowsInv, ChangesAreOf, PageIsOfOne, OnlyTheOne, Pending
<1> QED
  BY <1>0, <1>2, <1>3, <1>6, <1>8, <1>9, <1>10, ChangeMoves

\* A change is over.
LEMMA ChangeOver ==
  ASSUME RowsInv, NEW c \in Changes, NEW f \in SUBSET {"copy", "list"}, change' = [change EXCEPT ![c] = Over(f)],
         UNCHANGED serverRows
  PROVE  /\ Over(f) \in RowChange /\ Over(f).phase = "over" /\ Over(f).follow = f
         /\ change' \in [Changes -> RowChange] /\ change'[c] = Over(f)
         /\ \A d \in Changes \ {c} : change'[d] = change[d]
         /\ RowsAreMade'
<1>1. Over(f) \in RowChange /\ Over(f).phase = "over" /\ Over(f).follow = f
  BY DEF Over, NoChange, RowChange, Kinds
<1>2. PICK x \in RowChange : x = Over(f)
  BY <1>1
<1>3. change' = [change EXCEPT ![c] = x] /\ change \in [Changes -> RowChange]
  BY <1>2 DEF RowsInv, RowTypes
<1>4. /\ change' \in [Changes -> RowChange] /\ change'[c] = x
      /\ \A d \in Changes \ {c} : change'[d] = change[d]
  BY <1>3
<1>5. \A o \in Subjects : serverRows[o] \subseteq Changes
  BY DEF RowsInv, RowTypes
<1>6. RowsAreMade'
  BY <1>1, <1>2, <1>4, <1>5 DEF RowsInv, RowsAreMade
<1> QED
  BY <1>1, <1>2, <1>4, <1>6

LEMMA ChangeFailsKeeps == ASSUME RowsInv, NEW c \in Changes, ChangeFails(c) PROVE RowsInv'
<1>0. /\ change' = [change EXCEPT ![c] = Over({})] /\ serverRows' = serverRows
      /\ UNCHANGED <<screen, subject, list, loading, rowListing, rowsCrossed, leftover, outdated>>
      /\ serverRows' \in [Subjects -> SUBSET Changes]
  BY DEF ChangeFails, RowsInv, RowTypes
<1>1. {} \in SUBSET {"copy", "list"}
  OBVIOUS
<1>2. /\ Over({}) \in RowChange /\ Over({}).phase = "over" /\ Over({}).follow = {}
      /\ change'[c] = Over({}) /\ \A d \in Changes \ {c} : change'[d] = change[d]
      /\ RowsAreMade'
  BY <1>0, <1>1, ChangeOver
<1>3. \A o \in Subjects : serverRows[o] \subseteq Changes
  BY DEF RowsInv, RowTypes
<1>4. \A o \in Subjects : Heard(o)' \subseteq Heard(o)
  BY <1>0, <1>2, <1>3 DEF Heard
<1>5. PICK x \in RowChange : x = Over({})
  BY <1>2
<1> QED
  BY <1>0, <1>2, <1>4, <1>5, ChangeMoves

\* The answer of a change puts it into the list, at most.
LEMMA ListCopies ==
  ASSUME RowsInv, NEW c \in Changes,
         list' = (IF "copy" \in change[c].follow THEN Copied(c) ELSE list)
  PROVE  /\ list' \in RowList /\ list'.of = list.of /\ list.has \subseteq list'.has
         /\ "copy" \in change[c].follow /\ list.of = change[c].of => c \in list'.has
         /\ list'.twice => list.twice \/ ("copy" \in change[c].follow /\ change[c].kind = "create")
<1>0. list \in RowList
  BY DEF RowsInv, RowTypes
<1>1. CASE list' = list /\ ~("copy" \in change[c].follow /\ list.of = change[c].of)
  BY <1>0, <1>1
<1>2. CASE "copy" \in change[c].follow /\ list.of = change[c].of
  <2>1. PICK b \in BOOLEAN : b = (list.twice \/ (change[c].kind = "create" /\ c \in list.has))
    OBVIOUS
  <2>2. list' = [list EXCEPT !.has = list.has \cup {c}, !.twice = b]
    BY <1>2, <2>1 DEF Copied
  <2>3. list' \in RowList /\ list'.of = list.of /\ list'.has = list.has \cup {c} /\ list'.twice = b
    BY <1>0, <2>2 DEF RowList
  <2> QED
    BY <1>2, <2>1, <2>3
<1> QED
  BY <1>1, <1>2 DEF Copied

LEMMA ChangeAnsweredKeeps == ASSUME RowsInv, NEW c \in Changes, ChangeAnswered(c) PROVE RowsInv'
<1>0. /\ change[c] \in RowChange /\ change[c].phase = "made" /\ Pending(c) /\ change[c].of \in Subjects
      /\ ~screen.latest /\ (screen.stays => subject # NoSubject) /\ subject \in Subjects \cup {NoSubject}
      /\ change' = [change EXCEPT ![c] = Over(change[c].follow)]
      /\ list' = (IF "copy" \in change[c].follow THEN Copied(c) ELSE list)
      /\ UNCHANGED <<screen, serverRows, leftover, outdated>>
  BY DEF RowsInv, RowTypes, ChangesAreOf, Pending, ChangeAnswered
<1>1. PICK f \in SUBSET {"copy", "list"} : f = change[c].follow
  BY <1>0 DEF RowChange
<1>2. /\ Over(f).phase = "over" /\ Over(f).follow = f
      /\ change' \in [Changes -> RowChange] /\ change'[c] = Over(f)
      /\ \A d \in Changes \ {c} : change'[d] = change[d]
      /\ RowsAreMade'
  <2>1. change' = [change EXCEPT ![c] = Over(f)] /\ UNCHANGED serverRows
    BY <1>0, <1>1
  <2> QED
    BY <2>1, ChangeOver
<1>3. /\ list' \in RowList /\ list'.of = list.of /\ list.has \subseteq list'.has
      /\ "copy" \in f /\ list.of = change[c].of => c \in list'.has
      /\ list'.twice => list.twice \/ ("copy" \in f /\ change[c].kind = "create")
  BY <1>0, <1>1, ListCopies
<1>4. \A d \in Changes : Pending(d)' => Pending(d) /\ change'[d] = change[d]
  BY <1>2 DEF Pending
<1>5. CASE "list" \notin f
  <2>1. UNCHANGED <<subject, rowListing, loading, rowsCrossed>>
    BY <1>1, <1>5 DEF ChangeAnswered
  <2>2. RowTypes' /\ GetsAreOf' /\ LoadingIsOut' /\ GetsAreOfSubject' /\ RowsAreOfSubject'
    BY <1>0, <1>2, <1>3, <2>1
    DEF RowsInv, RowTypes, GetsAreOf, LoadingIsOut, GetsAreOfSubject, RowsAreOfSubject
  <2>3. ChangesAreOf' /\ PageIsOfOne' /\ OnlyTheOne'
    BY <1>0, <1>3, <1>4, <2>1 DEF RowsInv, ChangesAreOf, PageIsOfOne, OnlyTheOne
  <2>4. RowsAreCurrent'
    <3> SUFFICES ASSUME ~loading, ~outdated, list.of # NoSubject
                 PROVE  /\ \A d \in serverRows[list.of] :
                             change'[d].phase = "over" /\ change'[d].follow # {} => d \in list'.has
                        /\ screen.create # Copies => ~list'.twice
      BY <1>0, <1>3, <2>1 DEF RowsAreCurrent, Heard
    <3>1. Heard(list.of) \subseteq list.has /\ (screen.create # Copies => ~list.twice)
      BY DEF RowsInv, RowsAreCurrent
    <3>2. PICK o \in Subjects : o = list.of
      BY DEF RowsInv, RowTypes, RowList
    <3>3. ASSUME NEW d \in serverRows[o], change'[d].phase = "over", change'[d].follow # {}
          PROVE  d \in list'.has
      <4>1. d \in Changes /\ (change[d].phase = "made" => change[d].of = o)
        BY DEF RowsInv, RowTypes, RowsAreMade
      <4>2. CASE d = c
        <5>1. change[c].of = list.of /\ f # {}
          BY <1>0, <1>2, <3>2, <3>3, <4>1, <4>2
        <5>2. "copy" \in f
          BY <1>5, <5>1
        <5> QED
          BY <1>3, <4>2, <5>1, <5>2
      <4>3. CASE d # c
        BY <1>2, <1>3, <3>1, <3>2, <3>3, <4>1, <4>3 DEF Heard
      <4> QED
        BY <4>2, <4>3
    <3>4. screen.create # Copies => ~list'.twice
      <4>1. change[c].kind = "create" /\ "copy" \in f => screen.create = Copies
        BY <1>0, <1>1, <1>5 DEF RowsInv, ChangesAreOf
      <4> QED
        BY <1>3, <3>1, <4>1
    <3> QED
      BY <3>2, <3>3, <3>4
  <2> QED
    BY <1>2, <2>2, <2>3, <2>4 DEF RowsInv
<1>6. CASE "list" \in f
  <2>1. PICK of \in Subjects : /\ of \in {subject, change[c].of} /\ AskRows(of, rowListing)
                               /\ ~screen.stays => of = change[c].of
    BY <1>0, <1>1, <1>6 DEF ChangeAnswered
  <2>2. subject' \in {subject, change[c].of}
    BY <1>1, <1>6 DEF ChangeAnswered
  <2>3. /\ rowListing' \in [RowGets -> RowGet] /\ loading' = TRUE /\ rowsCrossed' \in BOOLEAN
        /\ GetsAreOf' /\ LoadingIsOut' /\ GetsAreOfSubject'
        /\ \A s \in RowGets : rowListing'[s].phase # "none" =>
             \/ rowListing'[s].of = of
             \/ rowListing[s].phase # "none" /\ rowListing'[s].of = rowListing[s].of
    BY <1>0, <2>1, AskRowsEffect
  <2>4. RowTypes'
    BY <1>0, <1>2, <1>3, <2>2, <2>3 DEF RowsInv, RowTypes
  <2>5. ChangesAreOf'
    BY <1>0, <1>4, <2>2, NoSubjectAssumption DEF RowsInv, ChangesAreOf
  <2>6. PageIsOfOne'
    <3> SUFFICES ASSUME screen.holds = "page" PROVE PageIsOfOne'
      BY <1>0 DEF PageIsOfOne
    <3>1. change[c].of = subject /\ subject' = subject /\ of = subject
      BY <1>0, <1>1, <1>6, <2>1, <2>2 DEF RowsInv, PageIsOfOne
    <3> QED
      BY <1>0, <1>3, <1>4, <2>3, <3>1 DEF RowsInv, PageIsOfOne
  <2>7. OnlyTheOne'
    <3> SUFFICES ASSUME screen.one PROVE OnlyTheOne'
      BY <1>0 DEF OnlyTheOne
    <3>1. change[c].of = TheOne /\ subject' \in {TheOne, NoSubject} /\ of = TheOne
      BY <1>0, <2>1, <2>2, NoSubjectAssumption DEF RowsInv, OnlyTheOne
    <3> QED
      BY <1>0, <1>3, <1>4, <2>3, <3>1 DEF RowsInv, OnlyTheOne
  <2>8. RowsAreOfSubject' /\ RowsAreCurrent'
    BY <2>3 DEF RowsAreOfSubject, RowsAreCurrent
  <2> QED
    BY <1>2, <2>3, <2>4, <2>5, <2>6, <2>7, <2>8 DEF RowsInv
<1> QED
  BY <1>5, <1>6

LEMMA RowsInvNext == ASSUME RowsInv, [ListNext]_listVars PROVE RowsInv'
<1>1. CASE UNCHANGED listVars
  BY <1>1 DEF listVars, RowsInv, RowTypes, GetsAreOf, LoadingIsOut, ChangesAreOf, RowsAreMade, PageIsOfOne,
              OnlyTheOne, GetsAreOfSubject, RowsAreOfSubject, RowsAreCurrent, Pending, Heard
<1>2. CASE ListNext
  <2>1. ASSUME NEW o \in Subjects, Open(o) PROVE RowsInv'
    BY <2>1, OpenKeeps
  <2>2. CASE Close \/ Again
    BY <2>2, CloseKeeps, AgainKeeps
  <2>3. ASSUME NEW s \in RowGets, Serve(s) \/ RowsListed(s) \/ ListFails(s) \/ ListDropped(s) PROVE RowsInv'
    BY <2>3, ServeKeeps, RowsListedKeeps, ListFailsKeeps, ListDroppedKeeps
  <2>4. ASSUME NEW c \in Changes, Start(c) \/ Make(c) \/ ChangeAnswered(c) \/ ChangeFails(c) PROVE RowsInv'
    BY <2>4, StartKeeps, MakeKeeps, ChangeAnsweredKeeps, ChangeFailsKeeps
  <2> QED
    BY <1>2, <2>1, <2>2, <2>3, <2>4 DEF ListNext
<1> QED
  BY <1>1, <1>2

LEMMA RowsInvMeans ==
  ASSUME RowsInv
  PROVE  /\ QuietScreenIsOfItsSubject /\ QuietScreenIsCurrent
         /\ subject # NoSubject /\ (~screen.hides \/ ~loading) /\ list.of # NoSubject
            /\ (screen.holds = "page" \/ screen.one \/ (screen.hides /\ ~rowsCrossed /\ ~leftover))
            => list.of = subject
<1>1. Quiet => ~loading
  BY DEF Quiet, Out, RowsInv, LoadingIsOut
<1>2. QuietScreenIsOfItsSubject
  BY <1>1 DEF QuietScreenIsOfItsSubject, RowsInv, RowsAreOfSubject
<1>3. QuietScreenIsCurrent
  BY <1>1 DEF QuietScreenIsCurrent, RowsInv, RowsAreCurrent
<1>4. ASSUME subject # NoSubject, ~screen.hides \/ ~loading, list.of # NoSubject,
             screen.holds = "page" \/ screen.one \/ (screen.hides /\ ~rowsCrossed /\ ~leftover)
      PROVE  list.of = subject
  BY <1>4 DEF RowsInv, PageIsOfOne, OnlyTheOne, RowsAreOfSubject
<1> QED
  BY <1>2, <1>3, <1>4

\* When nothing is out, a screen shows the rows of the object it is open for, or none,
\* unless listings crossed or one failed: for each of the screens.
THEOREM RowsOfItsSubject == ListSpec => []QuietScreenIsOfItsSubject
<1>1. RowsInv => QuietScreenIsOfItsSubject
  BY RowsInvMeans
<1>2. RowsInv /\ [ListNext]_listVars => RowsInv'
  BY RowsInvNext
<1> QED
  BY <1>1, <1>2, RowsInvInit, PTL DEF ListSpec

\* And every change it has heard of, each row once.
THEOREM RowsKeepUp == ListSpec => []QuietScreenIsCurrent
<1>1. RowsInv => QuietScreenIsCurrent
  BY RowsInvMeans
<1>2. RowsInv /\ [ListNext]_listVars => RowsInv'
  BY RowsInvNext
<1> QED
  BY <1>1, <1>2, RowsInvInit, PTL DEF ListSpec

\* A change moves from idle only when the user starts it.
LEMMA OnlyStartSends ==
  ASSUME RowsInv, [ListNext]_listVars, NEW c \in Changes, change[c].phase = "idle", change'[c].phase = "sent"
  PROVE  Start(c)
<1>0. change \in [Changes -> RowChange]
  BY DEF RowsInv, RowTypes
<1>1. CASE UNCHANGED listVars \/ change' = change
  BY <1>1 DEF listVars
<1>2. CASE Close
  BY <1>0, <1>2 DEF Close, RowChange
<1>3. ASSUME NEW d \in Changes, Start(d) \/ Make(d) \/ ChangeAnswered(d) \/ ChangeFails(d), d # c PROVE FALSE
  <2>1. PICK x : change' = [change EXCEPT ![d] = x]
    BY <1>3 DEF Start, Make, ChangeAnswered, ChangeFails
  <2> QED
    BY <1>0, <1>3, <2>1
<1>4. ASSUME Make(c) \/ ChangeAnswered(c) \/ ChangeFails(c) PROVE FALSE
  BY <1>4 DEF Make, ChangeAnswered, ChangeFails
<1>5. ASSUME NEW s \in RowGets, Serve(s) \/ RowsListed(s) \/ ListFails(s) \/ ListDropped(s) PROVE change' = change
  BY <1>5 DEF Serve, RowsListed, ListFails, ListDropped
<1>6. ASSUME NEW o \in Subjects, Open(o) PROVE change' = change
  BY <1>6 DEF Open
<1>7. Again => change' = change
  BY DEF Again
<1> QED
  BY <1>1, <1>2, <1>3, <1>4, <1>5, <1>6, <1>7 DEF ListNext

\* A row that is changed or deleted belongs to the object the request names.
THEOREM ChangesItsRows == ListSpec => ActsOnItsRows
<1>1. ASSUME RowsInv, [ListNext]_listVars
      PROVE  [\A c \in Changes :
                /\ change[c].phase = "idle" /\ change'[c].phase = "sent" /\ change'[c].kind # "create"
                /\ screen.holds = "page" \/ screen.one \/ (screen.hides /\ ~rowsCrossed /\ ~leftover)
                => list.of = subject]_listVars
  <2> SUFFICES ASSUME NEW c \in Changes,
                      change[c].phase = "idle", change'[c].phase = "sent", change'[c].kind # "create",
                      screen.holds = "page" \/ screen.one \/ (screen.hides /\ ~rowsCrossed /\ ~leftover)
               PROVE  list.of = subject
    OBVIOUS
  <2>1. Start(c)
    BY <1>1, OnlyStartSends
  <2>2. PICK k \in Kinds : /\ k # "create" => list.of # NoSubject /\ ~(screen.hides /\ loading)
                           /\ change' = [change EXCEPT ![c] = [phase |-> "sent", kind |-> k, of |-> subject,
                                                               follow |-> screen[k]]]
    BY <2>1 DEF Start
  <2>3. change'[c].kind = k
    BY <1>1, <2>2 DEF RowsInv, RowTypes
  <2>4. subject # NoSubject
    BY <2>1 DEF Start
  <2> QED
    BY <1>1, <2>2, <2>3, <2>4, RowsInvMeans
<1>2. RowsInv /\ [ListNext]_listVars => RowsInv'
  BY RowsInvNext
<1> QED
  BY <1>1, <1>2, RowsInvInit, PTL DEF ListSpec, ActsOnItsRows

-----------------------------------------------------------------------------
(* EditForms, for any objects, edits and submits: what is submitted belongs *)
(* to the object it is submitted for, and edits do not vanish.              *)

\* What all the forms have in common, which nothing in a record alone enforces: a
\* form with stored values is filled when it is opened; one that is kept while it
\* is closed and emptied by an answer has none; no error empties a form; no answer
\* closes a page.
WellMade(f) ==
  /\ f.loads => f.page \/ f.resets \cap {"open", "target"} # {}
  /\ "reset" \in f.success /\ ~f.page => ~f.loads
  /\ "reset" \notin f.failure
  /\ f.page => "close" \notin f.success /\ "close" \notin f.failure
  /\ f.resets \subseteq {"open", "target", "close", "options"}
  /\ "options" \in f.resets => f.page \/ f.resets \cap {"open", "target"} # {}

LEMMA FormsAreWellMade == \A f \in Forms : WellMade(f)
<1>1. WellMade(Dialog) /\ WellMade(EditUserDialog) /\ WellMade(VMGroupDialog) /\ WellMade(AlertRuleDialog)
  BY DEF WellMade, Dialog, EditUserDialog, VMGroupDialog, AlertRuleDialog
<1>2. WellMade(CreateDialog) /\ WellMade(LogExportDialog) /\ WellMade(DeleteNodeDialog)
  BY DEF WellMade, Dialog, CreateDialog, LogExportDialog, DeleteNodeDialog
<1>3. WellMade(OnboardNodeDialog) /\ WellMade(CreateTokenDialog)
  BY DEF WellMade, Dialog, CreateDialog, OnboardNodeDialog, CreateTokenDialog
<1>4. WellMade(SettingsForm) /\ WellMade(SmtpConfigCard) /\ WellMade(RoleSettingsPage)
  BY DEF WellMade, Dialog, SettingsForm, SmtpConfigCard, RoleSettingsPage
<1>5. WellMade(PasswordPolicyPage)
  BY DEF WellMade, Dialog, SettingsForm, PasswordPolicyPage
<1> QED
  BY <1>1, <1>2, <1>3, <1>4, <1>5
  DEF Forms, ReflexRuleDialog, ChannelFormDialog, EscalationPolicyDialog, EnvironmentForm, CreateUserDialog,
      GenerateKeyDialog, CreateBackupDialog, ChangePasswordDialog, AddNodeDialog, CreateInvitationDialog,
      NewBrainEntryDialog, CreateDependencyForm, SecuritySettingsPage, AgentSettingsPage,
      VMPermissionMatrix, DeleteNodeDialog, CreateTokenDialog, SettingsForm

FormSubmit == [phase : {"idle", "sent", "stored", "over"}, to : Owners \cup {NoOwner},
               basis : Owners \cup {NoOwner}, edits : SUBSET Edits]

\* Until something is typed or opened meanwhile, a submit that is out has all that
\* is entered.
CarriesAll == ~raced => \A s \in SubmitsOut : entered \subseteq submit[s].edits

\* A page waits only for what was submitted on it since it was opened.
WaitsForItself == form.page => \A s \in SubmitsOut : submit[s].to = owner /\ owner # NoOwner

BlankStaysBlank == ~form.loads => basis = NoOwner

\* What is entered was typed for the object that is open; a form that is not filled
\* when it is opened is empty while it is closed.
EnteredForIt ==
  ~Carries =>
    /\ owner # NoOwner => basis \in {owner, NoOwner} /\ \A e \in entered : typed[e] = owner
    /\ owner = NoOwner /\ ~form.page /\ form.resets \cap {"open", "target"} = {} => entered = {}

FormInv == /\ FormTypeOK /\ CarriesAll /\ WaitsForItself /\ BlankStaysBlank /\ EnteredForIt
           /\ EditsAreKept /\ SubmitsForItsTarget
           /\ \A s \in Submits : submit[s].phase = "sent" => submit[s].to # NoOwner

LEMMA FormInvInit == FormInit => FormInv
<1> SUFFICES ASSUME FormInit PROVE FormInv
  OBVIOUS
<1>1. NoSubmit \in FormSubmit /\ NoSubmit.phase = "idle"
  BY DEF NoSubmit, FormSubmit
<1>2. submit \in [Submits -> FormSubmit] /\ \A s \in Submits : submit[s].phase = "idle"
  BY <1>1 DEF FormInit
<1>3. FormTypeOK
  BY <1>2 DEF FormInit, FormTypeOK, FormSubmit
<1>4. SubmitsOut = {}
  BY <1>2 DEF SubmitsOut
<1> QED
  BY <1>2, <1>3, <1>4 DEF FormInit, FormInv, CarriesAll, WaitsForItself, BlankStaysBlank, EnteredForIt,
                          EditsAreKept, SubmitsForItsTarget

LEMMA OpenFormKeeps == ASSUME FormInv, NEW o \in Owners, OpenForm(o) PROVE FormInv'
<1>0. FormTypeOK /\ WellMade(form)
  BY FormsAreWellMade DEF FormInv, FormTypeOK
<1>1. owner = NoOwner /\ owner' = o /\ UNCHANGED <<form, typed, saving, submit, lost>>
      /\ raced' = (raced \/ SubmitsOut # {}) /\ SubmitsOut' = SubmitsOut
  BY DEF OpenForm, SubmitsOut
<1>2. o # NoOwner
  BY NoOwnerAssumption
<1>3. entered' \in {entered, {}} /\ basis' \in {basis, NoOwner, o}
  BY DEF OpenForm, Fill
<1>4. FormTypeOK'
  <2>1. raced' \in BOOLEAN
    BY <1>0, <1>1 DEF FormTypeOK
  <2> QED
    BY <1>0, <1>1, <1>3, <2>1 DEF FormTypeOK
<1>5. CarriesAll'
  BY <1>1 DEF CarriesAll
<1>6. WaitsForItself'
  BY <1>1, <1>2 DEF FormInv, WaitsForItself
<1>7. BlankStaysBlank'
  BY <1>1 DEF FormInv, BlankStaysBlank, OpenForm, Fill
<1>8. EnteredForIt'
  <2> SUFFICES ASSUME ~Carries' PROVE basis' \in {o, NoOwner} /\ \A e \in entered' : typed'[e] = o
    BY <1>1, <1>2 DEF EnteredForIt
  <2>1. CASE form.page \/ form.resets \cap {"open", "target"} # {}
    BY <2>1 DEF OpenForm, Fill
  <2>2. CASE ~(form.page \/ form.resets \cap {"open", "target"} # {})
    <3>1. entered = {} /\ entered' = entered /\ basis' = basis
      BY <1>1, <2>2 DEF FormInv, EnteredForIt, OpenForm, Carries
    <3>2. basis = NoOwner
      BY <1>0, <2>2 DEF FormInv, BlankStaysBlank, WellMade
    <3> QED
      BY <3>1, <3>2
  <2> QED
    BY <2>1, <2>2
<1>9. EditsAreKept' /\ SubmitsForItsTarget'
  BY <1>1 DEF FormInv, EditsAreKept, SubmitsForItsTarget, Carries
<1>10. \A s \in Submits : submit'[s].phase = "sent" => submit'[s].to # NoOwner
  BY <1>1 DEF FormInv
<1> QED
  BY <1>4, <1>5, <1>6, <1>7, <1>8, <1>9, <1>10 DEF FormInv

LEMMA CloseFormKeeps == ASSUME FormInv, CloseForm PROVE FormInv'
<1>0. FormTypeOK /\ WellMade(form)
  BY FormsAreWellMade DEF FormInv, FormTypeOK
<1>1. owner # NoOwner /\ owner' = NoOwner /\ UNCHANGED <<form, typed, raced, lost>>
  BY DEF CloseForm
<1>2. /\ submit' \in [Submits -> FormSubmit]
      /\ \A s \in Submits : submit'[s] = submit[s] \/ submit'[s].phase = "over"
      /\ form.page => SubmitsOut' = {}
  <2>1. PICK gone : gone = [NoSubmit EXCEPT !.phase = "over"]
    OBVIOUS
  <2>2. gone \in FormSubmit /\ gone.phase = "over"
    BY <2>1 DEF NoSubmit, FormSubmit
  <2>3. submit' = [s \in Submits |-> IF form.page /\ s \in SubmitsOut THEN gone ELSE submit[s]]
    BY <2>1 DEF CloseForm
  <2>4. submit \in [Submits -> FormSubmit]
    BY <1>0 DEF FormTypeOK, FormSubmit
  <2>5. \A s \in Submits : submit'[s] = IF form.page /\ s \in SubmitsOut THEN gone ELSE submit[s]
    BY <2>3
  <2>6. submit' \in [Submits -> FormSubmit]
    BY <2>2, <2>3, <2>4
  <2>7. ASSUME form.page, NEW s \in SubmitsOut' PROVE FALSE
    <3>1. s \in Submits /\ submit'[s].phase \in {"sent", "stored"}
      BY <2>7 DEF SubmitsOut
    <3> QED
      BY <2>2, <2>5, <2>7, <3>1 DEF SubmitsOut
  <2> QED
    BY <2>2, <2>5, <2>6, <2>7
<1>3. SubmitsOut' \subseteq SubmitsOut /\ \A s \in SubmitsOut' : submit'[s] = submit[s]
  BY <1>2 DEF SubmitsOut
<1>4. entered' \in {entered, {}} /\ basis' \in {basis, NoOwner}
  BY DEF CloseForm, Fill
<1>5. FormTypeOK'
  <2>1. saving' \in BOOLEAN
    BY DEF CloseForm
  <2> QED
    BY <1>0, <1>1, <1>2, <1>4, <2>1 DEF FormTypeOK, FormSubmit
<1>6. CarriesAll'
  BY <1>1, <1>3, <1>4 DEF FormInv, CarriesAll
<1>7. WaitsForItself' /\ BlankStaysBlank'
  BY <1>1, <1>2, <1>4 DEF FormInv, WaitsForItself, BlankStaysBlank
<1>8. EnteredForIt'
  <2> SUFFICES ASSUME ~Carries', ~form.page, form.resets \cap {"open", "target"} = {} PROVE entered' = {}
    BY <1>1 DEF EnteredForIt
  <2>1. "close" \in form.resets
    BY <1>0, <1>1 DEF WellMade, Carries
  <2> QED
    BY <2>1 DEF CloseForm, Fill
<1>9. EditsAreKept' /\ SubmitsForItsTarget'
  BY <1>1, <1>2 DEF FormInv, EditsAreKept, SubmitsForItsTarget, Carries
<1>10. \A s \in Submits : submit'[s].phase = "sent" => submit'[s].to # NoOwner
  BY <1>2 DEF FormInv
<1> QED
  BY <1>5, <1>6, <1>7, <1>8, <1>9, <1>10 DEF FormInv

LEMMA EditingKeeps == ASSUME FormInv, Reloaded \/ \E e \in Edits : Type(e) PROVE FormInv'
<1>0. FormTypeOK
  BY DEF FormInv
<1>1. owner # NoOwner /\ UNCHANGED <<form, owner, saving, submit>> /\ SubmitsOut' = SubmitsOut
  BY DEF Reloaded, Type, SubmitsOut
<1>2. CASE Reloaded
  <2>1. /\ entered' = {} /\ basis' = (IF form.loads THEN owner ELSE NoOwner)
        /\ lost' = lost \cup entered /\ "options" \in form.resets /\ UNCHANGED <<typed, raced>>
    BY <1>2 DEF Reloaded, Fill
  <2>2. FormTypeOK'
    BY <1>0, <1>1, <2>1 DEF FormTypeOK
  <2>3. CarriesAll' /\ WaitsForItself' /\ BlankStaysBlank' /\ EnteredForIt'
    BY <1>1, <2>1 DEF FormInv, CarriesAll, WaitsForItself, BlankStaysBlank, EnteredForIt
  <2>4. EditsAreKept' /\ SubmitsForItsTarget'
    BY <1>1, <2>1 DEF FormInv, EditsAreKept, SubmitsForItsTarget, Carries
  <2> QED
    BY <1>1, <2>2, <2>3, <2>4 DEF FormInv
<1>3. ASSUME NEW e \in Edits, Type(e) PROVE FormInv'
  <2>1. /\ entered' = entered \cup {e} /\ typed[e] = NoOwner /\ typed' = [typed EXCEPT ![e] = owner]
        /\ raced' = (raced \/ SubmitsOut # {}) /\ UNCHANGED <<basis, lost>>
    BY <1>3 DEF Type
  <2>2. typed' \in [Edits -> Owners \cup {NoOwner}] /\ typed'[e] = owner
        /\ \A d \in Edits \ {e} : typed'[d] = typed[d]
    BY <1>0, <2>1 DEF FormTypeOK
  <2>3. raced' \in BOOLEAN
    BY <1>0, <2>1 DEF FormTypeOK
  <2>4. FormTypeOK'
    BY <1>0, <1>1, <2>1, <2>2, <2>3 DEF FormTypeOK
  <2>5. CarriesAll'
    BY <1>1, <2>1 DEF CarriesAll
  <2>6. WaitsForItself' /\ BlankStaysBlank' /\ EditsAreKept'
    BY <1>1, <2>1 DEF FormInv, WaitsForItself, BlankStaysBlank, EditsAreKept
  <2>7. EnteredForIt'
    BY <1>0, <1>1, <2>1, <2>2 DEF FormInv, EnteredForIt, Carries, FormTypeOK
  <2>8. SubmitsForItsTarget'
    <3> SUFFICES ASSUME NEW s \in Submits, submit[s].phase = "sent", ~Carries
                 PROVE  /\ submit[s].basis \in {submit[s].to, NoOwner}
                        /\ \A d \in submit[s].edits : typed'[d] = submit[s].to
      BY <1>1 DEF SubmitsForItsTarget, Carries
    <3>1. /\ submit[s].basis \in {submit[s].to, NoOwner} /\ submit[s].to # NoOwner
          /\ \A d \in submit[s].edits : typed[d] = submit[s].to
      BY DEF FormInv, SubmitsForItsTarget
    <3>2. submit[s].edits \subseteq Edits
      BY <1>0 DEF FormTypeOK
    <3> QED
      BY <2>1, <2>2, <3>1, <3>2
  <2> QED
    BY <1>1, <2>4, <2>5, <2>6, <2>7, <2>8 DEF FormInv
<1> QED
  BY <1>2, <1>3

\* A submit moves and the form stays as it is: one is sent with what is entered, or
\* one that was sent is stored.
LEMMA SubmitKeeps ==
  ASSUME FormInv, NEW s \in Submits, NEW r \in FormSubmit, submit' = [submit EXCEPT ![s] = r],
         UNCHANGED <<form, owner, basis, entered, typed, raced, lost>>, saving' \in BOOLEAN,
         \/ /\ r.phase = "sent" /\ r.to = owner /\ owner # NoOwner /\ r.basis = basis /\ r.edits = entered
         \/ /\ r.phase = "stored" /\ s \in SubmitsOut /\ r.to = submit[s].to /\ r.edits = submit[s].edits
  PROVE  FormInv'
<1>0. FormTypeOK
  BY DEF FormInv
<1>1. /\ submit' \in [Submits -> FormSubmit] /\ submit'[s] = r
      /\ \A k \in Submits \ {s} : submit'[k] = submit[k]
  BY <1>0 DEF FormTypeOK, FormSubmit
<1>2. FormTypeOK'
  BY <1>0, <1>1 DEF FormTypeOK, FormSubmit
<1>3. \A k \in SubmitsOut' \ {s} : k \in SubmitsOut /\ submit'[k] = submit[k]
  BY <1>1 DEF SubmitsOut
<1>4. CarriesAll'
  BY <1>1, <1>3 DEF FormInv, CarriesAll
<1>5. WaitsForItself'
  BY <1>1, <1>3 DEF FormInv, WaitsForItself
<1>6. BlankStaysBlank' /\ EnteredForIt' /\ EditsAreKept'
  BY DEF FormInv, BlankStaysBlank, EnteredForIt, Carries, EditsAreKept
<1>7. ASSUME NEW k \in Submits, submit'[k].phase = "sent"
      PROVE  /\ submit'[k].to # NoOwner
             /\ ~Carries => /\ submit'[k].basis \in {submit'[k].to, NoOwner}
                            /\ \A e \in submit'[k].edits : typed[e] = submit'[k].to
  <2>1. CASE k = s
    BY <1>1, <1>7, <2>1 DEF FormInv, EnteredForIt
  <2>2. CASE k # s
    BY <1>1, <1>7, <2>2 DEF FormInv, SubmitsForItsTarget
  <2> QED
    BY <2>1, <2>2
<1>8. SubmitsForItsTarget'
  BY <1>7 DEF SubmitsForItsTarget, Carries
<1> QED
  BY <1>2, <1>4, <1>5, <1>6, <1>7, <1>8 DEF FormInv

LEMMA SubmitSteps == ASSUME FormInv, NEW s \in Submits, Submit(s) \/ Stored(s) PROVE FormInv'
<1>0. FormTypeOK /\ submit[s] \in FormSubmit
  BY DEF FormInv, FormTypeOK, FormSubmit
<1>1. CASE Submit(s)
  <2>1. PICK r : r = [phase |-> "sent", to |-> owner, basis |-> basis, edits |-> entered]
    OBVIOUS
  <2>2. r \in FormSubmit /\ r.phase = "sent" /\ r.to = owner /\ r.basis = basis /\ r.edits = entered
    BY <1>0, <2>1 DEF FormTypeOK, FormSubmit
  <2>3. submit' = [submit EXCEPT ![s] = r] /\ owner # NoOwner
        /\ UNCHANGED <<form, owner, basis, entered, typed, raced, lost>> /\ saving' \in BOOLEAN
    BY <1>1, <2>1 DEF Submit
  <2> QED
    BY <2>2, <2>3, SubmitKeeps
<1>2. CASE Stored(s)
  <2>1. PICK r : r = [submit[s] EXCEPT !.phase = "stored"]
    OBVIOUS
  <2>2. r \in FormSubmit /\ r.phase = "stored" /\ r.to = submit[s].to /\ r.edits = submit[s].edits
    BY <1>0, <2>1 DEF FormSubmit
  <2>3. submit' = [submit EXCEPT ![s] = r] /\ s \in SubmitsOut
        /\ UNCHANGED <<form, owner, basis, entered, typed, raced, lost>> /\ saving' \in BOOLEAN
    BY <1>0, <1>2, <2>1 DEF Stored, SubmitsOut, FormTypeOK
  <2> QED
    BY <2>2, <2>3, SubmitKeeps
<1> QED
  BY <1>1, <1>2

\* What an answer does with the form: never for a submit that the page does not wait
\* for, and edits that it drops are those it has stored, or an error closes the form.
LEMMA FollowKeeps ==
  ASSUME FormInv, NEW s \in SubmitsOut, NEW how, NEW K, Follow(how, s, K),
         "close" \in how => ~form.page,
         "reset" \in how => form.page \/ ~form.loads,
         raced \/ "close" \in form.failure \/ entered \subseteq K \/ how \cap {"close", "reset"} = {}
  PROVE  FormInv'
<1>0. FormTypeOK /\ WellMade(form) /\ s \in Submits
  BY FormsAreWellMade DEF FormInv, FormTypeOK, SubmitsOut
<1>1. /\ owner' = (IF "close" \in how THEN NoOwner ELSE owner)
      /\ saving' = FALSE /\ UNCHANGED <<form, typed, raced>>
  BY DEF Follow
<1>2. /\ submit' \in [Submits -> FormSubmit]
      /\ \A k \in Submits : submit'[k] = submit[k] \/ submit'[k].phase = "over"
  <2>1. PICK gone : gone = [NoSubmit EXCEPT !.phase = "over"]
    OBVIOUS
  <2>2. gone \in FormSubmit /\ gone.phase = "over"
    BY <2>1 DEF NoSubmit, FormSubmit
  <2>3. submit' = [submit EXCEPT ![s] = gone] /\ submit \in [Submits -> FormSubmit]
    BY <1>0, <2>1 DEF Follow, FormTypeOK, FormSubmit
  <2> QED
    BY <1>0, <2>2, <2>3
<1>3. SubmitsOut' \subseteq SubmitsOut /\ \A k \in SubmitsOut' : submit'[k] = submit[k]
  BY <1>2 DEF SubmitsOut
<1>4. submit[s].to \in Owners \cup {NoOwner}
  BY <1>0 DEF FormTypeOK
<1>5. \/ /\ entered' = {} /\ basis' = (IF form.loads THEN submit[s].to ELSE NoOwner)
         /\ "reset" \in how \/ "close" \in how
      \/ /\ UNCHANGED <<entered, basis>> /\ "reset" \notin how
         /\ "close" \in how /\ owner # NoOwner => "close" \notin form.resets
  BY DEF Follow, Fill
<1>6. lost' = lost \/ (lost' = lost \cup (entered \ K) /\ how \cap {"close", "reset"} # {})
  BY DEF Follow
<1>7. FormTypeOK'
  BY <1>0, <1>1, <1>2, <1>4, <1>5, <1>6 DEF FormTypeOK, FormSubmit
<1>8. CarriesAll'
  BY <1>1, <1>3, <1>5 DEF FormInv, CarriesAll
<1>9. WaitsForItself'
  BY <1>1, <1>3 DEF FormInv, WaitsForItself
<1>10. BlankStaysBlank'
  BY <1>1, <1>5 DEF FormInv, BlankStaysBlank
<1>11. EnteredForIt'
  <2> SUFFICES ASSUME ~Carries PROVE EnteredForIt'
    BY <1>1 DEF EnteredForIt, Carries
  <2>1. ASSUME owner' # NoOwner
        PROVE  basis' \in {owner', NoOwner} /\ \A e \in entered' : typed'[e] = owner'
    <3>1. owner' = owner /\ "close" \notin how
      BY <1>1, <2>1
    <3>2. basis' \in {owner, NoOwner, basis}
      BY <1>5, <3>1 DEF FormInv, WaitsForItself
    <3> QED
      BY <1>1, <1>5, <2>1, <3>1, <3>2 DEF FormInv, EnteredForIt
  <2>2. ASSUME owner' = NoOwner, ~form.page, form.resets \cap {"open", "target"} = {}
        PROVE  entered' = {}
    <3>1. "close" \in form.resets
      BY <1>0, <2>2 DEF WellMade, Carries
    <3>2. CASE owner = NoOwner
      BY <1>5, <2>2, <3>2 DEF FormInv, EnteredForIt
    <3>3. CASE owner # NoOwner
      BY <1>1, <1>5, <2>2, <3>1, <3>3
    <3> QED
      BY <3>2, <3>3
  <2> QED
    BY <1>1, <2>1, <2>2 DEF EnteredForIt
<1>12. EditsAreKept'
  BY <1>1, <1>6 DEF FormInv, EditsAreKept
<1>13. SubmitsForItsTarget' /\ \A k \in Submits : submit'[k].phase = "sent" => submit'[k].to # NoOwner
  BY <1>1, <1>2 DEF FormInv, SubmitsForItsTarget, Carries
<1> QED
  BY <1>7, <1>8, <1>9, <1>10, <1>11, <1>12, <1>13 DEF FormInv

LEMMA FollowSteps == ASSUME FormInv, NEW s \in Submits, Accepted(s) \/ Rejected(s) PROVE FormInv'
<1>0. WellMade(form)
  BY FormsAreWellMade DEF FormInv, FormTypeOK
<1>1. CASE Accepted(s)
  <2>1. s \in SubmitsOut
    BY <1>1 DEF Accepted, SubmitsOut
  <2>2. raced \/ entered \subseteq submit[s].edits
    BY <2>1 DEF FormInv, CarriesAll
  <2> QED
    BY <1>0, <1>1, <2>1, <2>2, FollowKeeps DEF Accepted, WellMade
<1>2. CASE Rejected(s)
  BY <1>0, <1>2, FollowKeeps DEF Rejected, WellMade
<1> QED
  BY <1>1, <1>2

LEMMA FormInvNext == ASSUME FormInv, [FormNext]_formVars PROVE FormInv'
<1>1. CASE UNCHANGED formVars
  BY <1>1 DEF formVars, FormInv, FormTypeOK, CarriesAll, WaitsForItself, BlankStaysBlank, EnteredForIt,
              EditsAreKept, SubmitsForItsTarget, Carries, SubmitsOut
<1>2. CASE FormNext
  BY <1>2, OpenFormKeeps, CloseFormKeeps, EditingKeeps, SubmitSteps, FollowSteps DEF FormNext
<1> QED
  BY <1>1, <1>2

\* What is submitted for an object was typed for it, over its own values or a blank
\* form: for every form of the console, any objects, edits and submits.
THEOREM SubmitsAreMeant == FormSpec => []SubmitsForItsTarget
<1>1. FormInv => SubmitsForItsTarget
  BY DEF FormInv
<1>2. FormInv /\ [FormNext]_formVars => FormInv'
  BY FormInvNext
<1> QED
  BY <1>1, <1>2, FormInvInit, PTL DEF FormSpec

\* No edit vanishes but by the user or with the answer that stored it, unless it was
\* typed while one was out, or the form is filled again or closed by an error.
THEOREM NoEditIsLost == FormSpec => []EditsAreKept
<1>1. FormInv => EditsAreKept
  BY DEF FormInv
<1>2. FormInv /\ [FormNext]_formVars => FormInv'
  BY FormInvNext
<1> QED
  BY <1>1, <1>2, FormInvInit, PTL DEF FormSpec

-----------------------------------------------------------------------------
(* VMList, for any guests and orders.                                       *)

\* There is one spinner: the row order that is out is for the guest that has it, until
\* a second row is ordered meanwhile.
SpinnerIsOfOrder ==
  ~interleaved => /\ \A o \in RowOrders : order[o].on = {actionLoading}
                  /\ \A o, p \in RowOrders : o = p

\* A stop is never asked for a row that shows the spinner.
VMListInv ==
  /\ DOMAIN order = Orders /\ actionLoading \in Guests \cup {NoGuest} /\ stopping \in Guests \cup {NoGuest}
  /\ picked \subseteq ticked
  /\ stopping # NoGuest => actionLoading # stopping
  /\ SpinnerIsOfOrder

LEMMA SendForRowKeeps == ASSUME VMListInv, NEW g \in Guests, actionLoading # g, SendForRow(g)
                         PROVE  SpinnerIsOfOrder' /\ DOMAIN order' = Orders
<1>1. PICK o \in Orders : order[o] = NoOrder /\ order' = [order EXCEPT ![o] = [by |-> "row", on |-> {g}]]
  BY DEF SendForRow
<1>2. RowOrders' = RowOrders \cup {o}
  BY <1>1 DEF RowOrders, VMListInv
<1>3. ASSUME ~interleaved' PROVE RowOrders = {}
  <2>1. ~interleaved /\ \A p \in RowOrders : order[p].on = {g}
    BY <1>3 DEF SendForRow
  <2> QED
    BY <2>1 DEF VMListInv, SpinnerIsOfOrder
<1>4. actionLoading' = g /\ order'[o].on = {g}
  BY <1>1 DEF SendForRow, VMListInv
<1>5. SpinnerIsOfOrder'
  BY <1>2, <1>3, <1>4 DEF SpinnerIsOfOrder
<1> QED
  BY <1>1, <1>5 DEF VMListInv

LEMMA OrderOverKeeps == ASSUME VMListInv, NEW o \in Orders, OrderOver(o)
                        PROVE  RowOrders' = RowOrders \ {o} /\ DOMAIN order' = Orders
                               /\ \A p \in Orders \ {o} : order'[p] = order[p]
BY DEF OrderOver, VMListInv, RowOrders, NoOrder

LEMMA VMListInvNext == ASSUME VMListInv, [VMListNext]_vmListVars PROVE VMListInv'
<1> USE NoGuestAssumption
<1>1. CASE UNCHANGED <<actionLoading, stopping, order, interleaved>> /\ picked' \subseteq ticked'
  BY <1>1 DEF VMListInv, SpinnerIsOfOrder, RowOrders
<1>2. ASSUME NEW g \in Guests, NEW a, Choose(g, a) PROVE VMListInv'
  <2>1. CASE a = "stop"
    BY <1>2, <2>1 DEF Choose, VMListInv, SpinnerIsOfOrder, RowOrders
  <2>2. CASE a # "stop"
    BY <1>2, <2>2, SendForRowKeeps DEF Choose, Free, SendForRow, VMListInv
  <2> QED
    BY <2>1, <2>2
<1>3. CASE ConfirmStop
  <2>1. stopping \in Guests /\ actionLoading # stopping /\ SendForRow(stopping)
    BY <1>3 DEF ConfirmStop, VMListInv
  <2>2. actionLoading' \in Guests \cup {NoGuest}
    BY <2>1 DEF SendForRow
  <2> QED
    BY <1>3, <2>1, <2>2, SendForRowKeeps DEF ConfirmStop, VMListInv
<1>4. CASE CancelDialog
  BY <1>4 DEF CancelDialog, VMListInv, SpinnerIsOfOrder, RowOrders
<1>5. CASE RunBulk
  <2>1. PICK o \in Orders :
          order[o] = NoOrder /\ order' = [order EXCEPT ![o] = [by |-> "bulk", on |-> picked]]
    BY <1>5 DEF RunBulk
  <2>2. RowOrders' = RowOrders /\ \A p \in RowOrders : order'[p] = order[p]
    BY <2>1 DEF RowOrders, VMListInv, NoOrder
  <2> QED
    BY <1>5, <2>1, <2>2 DEF RunBulk, VMListInv, SpinnerIsOfOrder
<1>6. ASSUME NEW o \in Orders, RowOver(o) PROVE VMListInv'
  <2>1. o \in RowOrders /\ RowOrders' = RowOrders \ {o} /\ DOMAIN order' = Orders
    BY <1>6, OrderOverKeeps DEF RowOver, RowOrders
  <2>2. ~interleaved' => RowOrders' = {}
    BY <1>6, <2>1 DEF RowOver, VMListInv, SpinnerIsOfOrder
  <2>3. SpinnerIsOfOrder'
    BY <2>2 DEF SpinnerIsOfOrder
  <2> QED
    BY <1>6, <2>1, <2>3 DEF RowOver, VMListInv
<1>7. ASSUME NEW o \in Orders, NEW failed, BulkOver(o, failed) PROVE VMListInv'
  <2>1. RowOrders' = RowOrders /\ DOMAIN order' = Orders /\ \A p \in RowOrders : order'[p] = order[p]
    <3>1. o \notin RowOrders
      BY <1>7 DEF BulkOver, RowOrders
    <3> QED
      BY <1>7, <3>1, OrderOverKeeps DEF BulkOver, RowOrders
  <2> QED
    BY <1>7, <2>1 DEF BulkOver, VMListInv, SpinnerIsOfOrder
<1>8. ASSUME NEW S, Search(S) PROVE VMListInv'
  BY <1>1, <1>8 DEF Search, VMListInv
<1>9. ASSUME NEW g \in Guests, Tick(g) PROVE VMListInv'
  BY <1>1, <1>9 DEF Tick, VMListInv
<1>10. CASE TickAll \/ Untick
  BY <1>1, <1>10 DEF TickAll, Untick, VMListInv
<1>11. CASE AskBulk
  BY <1>1, <1>11 DEF AskBulk, VMListInv
<1>12. ASSUME NEW R, Refreshed(R) PROVE VMListInv'
  BY <1>1, <1>12 DEF Refreshed, VMListInv
<1>13. CASE UNCHANGED vmListVars
  BY <1>1, <1>13 DEF vmListVars, VMListInv
<1> QED
  BY <1>2, <1>3, <1>4, <1>5, <1>6, <1>7, <1>8, <1>9, <1>10, <1>11, <1>12, <1>13 DEF VMListNext

LEMMA VMListInvFacts == /\ VMListInit => VMListInv
                        /\ VMListInv => OrdersAreMeant
<1>1. VMListInit => VMListInv
  BY DEF VMListInit, VMListInv, SpinnerIsOfOrder, RowOrders, NoOrder
<1>2. VMListInv => OrdersAreMeant
  BY DEF VMListInv, SpinnerIsOfOrder, OrdersAreMeant, RowOrders
<1> QED
  BY <1>1, <1>2

-----------------------------------------------------------------------------
(* MigrationForm, for any nodes and listings.                               *)

\* What is entered by a step was entered in the steps before it, the guest at the source.
EnteredInOrder ==
  /\ wizardStep \in 1..4
  /\ selectedVmid \in {NoPVE, sourceNodeId}
  /\ targetNodeId = NoPVE => targetStorage = NoPVE
  /\ wizardStep >= 2 => sourceNodeId # NoPVE /\ selectedVmid # NoPVE
  /\ wizardStep >= 3 => targetNodeId # NoPVE /\ targetStorage # NoPVE

\* Unless they crossed, the listings that are out are of the source, and so is the list
\* once the spinner ends: a storage can be picked only then.
StoragesAreOfSource ==
  sourceNodeId # NoPVE /\ ~getsCrossed =>
    /\ \A s \in GetsOut : storageGet[s] = sourceNodeId
    /\ ~loadingStorages => storages \in {NoPVE, sourceNodeId}
    /\ ~wentBack => targetStorage \in {NoPVE, sourceNodeId}

\* A request keeps the target in place, so that another source is noticed.
RequestHasTarget == request # NoRequest => targetNodeId # NoPVE

MigrationFormInv ==
  /\ DOMAIN storageGet = StorageGets
  /\ EnteredInOrder /\ StoragesAreOfSource /\ RequestHasTarget
  /\ ~wentBack /\ targetNodeId # NoPVE => targetNodeId # sourceNodeId
  /\ ~wentBack /\ sourceNodeId = NoPVE => targetStorage = NoPVE
  /\ MigrationIsMeant

LEMMA PickSourceKeeps == ASSUME MigrationFormInv, NEW n \in PVENodes, PickSource(n) PROVE MigrationFormInv'
<1> USE NoPVEAssumption DEF PickSource
<1>1. PICK s \in StorageGets \ GetsOut : storageGet' = [storageGet EXCEPT ![s] = n]
  BY DEF AskStorages
<1>2. /\ DOMAIN storageGet' = StorageGets
      /\ \A t \in GetsOut' : t = s \/ (t \in GetsOut /\ storageGet'[t] = storageGet[t])
  BY <1>1 DEF MigrationFormInv, GetsOut
<1>3. storageGet'[s] = n /\ loadingStorages' = TRUE
  BY <1>1 DEF MigrationFormInv, AskStorages
<1>4. ~getsCrossed' => \A t \in GetsOut : storageGet[t] = n
  BY DEF AskStorages
<1>5. ~wentBack' => targetNodeId = NoPVE /\ targetStorage = NoPVE
  BY DEF MigrationFormInv, EnteredInOrder
<1>6. EnteredInOrder'
  BY DEF MigrationFormInv, EnteredInOrder
<1>7. StoragesAreOfSource'
  BY <1>2, <1>3, <1>4, <1>5 DEF StoragesAreOfSource
<1>8. RequestHasTarget' /\ (request # NoRequest => wentBack')
  BY DEF MigrationFormInv, RequestHasTarget, NoRequest
<1>9. MigrationIsMeant'
  BY <1>8 DEF MigrationFormInv, MigrationIsMeant, NoRequest
<1> QED
  BY <1>2, <1>5, <1>6, <1>7, <1>8, <1>9 DEF MigrationFormInv

LEMMA StoragesListedKeeps == ASSUME MigrationFormInv, NEW s \in StorageGets, NEW failed \in BOOLEAN,
                                    StoragesListed(s, failed)
                             PROVE  MigrationFormInv'
<1> USE DEF StoragesListed
<1>1. DOMAIN storageGet' = StorageGets
  BY DEF MigrationFormInv
<1>2. storageGet'[s] = NoPVE /\ \A t \in StorageGets \ {s} : storageGet'[t] = storageGet[t]
  BY DEF MigrationFormInv
<1>3. GetsOut' \subseteq GetsOut /\ \A t \in GetsOut' : storageGet'[t] = storageGet[t]
  BY <1>2 DEF GetsOut
<1>4. StoragesAreOfSource'
  BY <1>3 DEF MigrationFormInv, StoragesAreOfSource
<1>5. EnteredInOrder' /\ RequestHasTarget' /\ MigrationIsMeant'
  BY DEF MigrationFormInv, EnteredInOrder, RequestHasTarget, MigrationIsMeant, NoRequest
<1> QED
  BY <1>1, <1>4, <1>5 DEF MigrationFormInv

\* The entries and the steps.
LEMMA EntriesKeep ==
  ASSUME MigrationFormInv,
         \/ PickGuest \/ PickTargetStorage \/ NextStep
         \/ \E n \in PVENodes : PickTargetNode(n)
         \/ \E k \in 1..3 : EarlierStep(k)
  PROVE  MigrationFormInv'
<1> USE NoPVEAssumption
<1>1. storageGet' = storageGet /\ GetsOut' = GetsOut /\ request' = request /\ NoRequest' = NoRequest
      /\ wentBack' = wentBack /\ getsCrossed' = getsCrossed
      /\ sourceNodeId' = sourceNodeId /\ storages' = storages /\ loadingStorages' = loadingStorages
  BY DEF GetsOut, NoRequest, PickGuest, PickTargetStorage, NextStep, EarlierStep, GoTo, PickTargetNode
<1>2. MigrationIsMeant'
  BY <1>1 DEF MigrationFormInv, MigrationIsMeant
<1>3. CASE PickGuest
  BY <1>1, <1>2, <1>3 DEF PickGuest, MigrationFormInv, EnteredInOrder, StoragesAreOfSource, RequestHasTarget
<1>4. CASE PickTargetStorage
  <2>1. targetStorage' = storages /\ storages # NoPVE /\ ~loadingStorages /\ targetNodeId # NoPVE
        /\ wizardStep = 2 /\ UNCHANGED <<wizardStep, targetNodeId, selectedVmid>>
    BY <1>4 DEF PickTargetStorage
  <2>2. StoragesAreOfSource'
    BY <1>1, <2>1 DEF MigrationFormInv, StoragesAreOfSource
  <2> QED
    BY <1>1, <1>2, <2>1, <2>2 DEF MigrationFormInv, EnteredInOrder, RequestHasTarget
<1>5. CASE NextStep
  <2>1. wizardStep \in 1..4 /\ wizardStep' = wizardStep + 1
        /\ UNCHANGED <<targetNodeId, selectedVmid, targetStorage>>
    BY <1>5 DEF NextStep, GoTo, MigrationFormInv, EnteredInOrder
  <2>2. /\ wizardStep # 4
        /\ wizardStep = 1 => sourceNodeId # NoPVE /\ selectedVmid # NoPVE
        /\ wizardStep = 2 => targetNodeId # NoPVE /\ targetStorage # NoPVE
    <3>1. CASE wizardStep = 1
      BY <1>5, <3>1 DEF NextStep, CanProceed
    <3>2. CASE wizardStep = 2
      BY <1>5, <3>2 DEF NextStep, CanProceed
    <3>3. CASE wizardStep = 4
      BY <1>5, <3>3 DEF NextStep, CanProceed
    <3> QED
      BY <3>1, <3>2, <3>3
  <2>3. EnteredInOrder'
    BY <1>1, <2>1, <2>2 DEF MigrationFormInv, EnteredInOrder
  <2> QED
    BY <1>1, <1>2, <2>1, <2>3 DEF MigrationFormInv, StoragesAreOfSource, RequestHasTarget
<1>6. ASSUME NEW n \in PVENodes, PickTargetNode(n) PROVE MigrationFormInv'
  BY <1>1, <1>2, <1>6
  DEF PickTargetNode, MigrationFormInv, EnteredInOrder, StoragesAreOfSource, RequestHasTarget
<1>7. ASSUME NEW k \in 1..3, EarlierStep(k) PROVE MigrationFormInv'
  <2>1. wizardStep' = k /\ k < wizardStep /\ UNCHANGED <<targetNodeId, selectedVmid, targetStorage>>
    BY <1>7 DEF EarlierStep, GoTo
  <2>2. EnteredInOrder'
    BY <1>1, <2>1 DEF MigrationFormInv, EnteredInOrder
  <2> QED
    BY <1>1, <1>2, <2>1, <2>2 DEF MigrationFormInv, StoragesAreOfSource, RequestHasTarget
<1> QED
  BY <1>3, <1>4, <1>5, <1>6, <1>7

LEMMA MigrationStartKeeps == ASSUME MigrationFormInv, HandleStart \/ StartAccepted \/ StartFails
                             PROVE  MigrationFormInv'
<1>1. CASE HandleStart
  <2>1. request' = Entries /\ wizardStep = 4 /\ GetsOut' = GetsOut
        /\ UNCHANGED <<wizardStep, sourceNodeId, targetNodeId, selectedVmid, targetStorage, storages,
                       loadingStorages, storageGet, wentBack, getsCrossed>>
    BY <1>1 DEF HandleStart, GetsOut
  <2>2. /\ NoPVE \notin {sourceNodeId, targetNodeId, selectedVmid, targetStorage}
        /\ selectedVmid = sourceNodeId
        /\ ~wentBack => targetNodeId # sourceNodeId
        /\ ~wentBack /\ ~getsCrossed => targetStorage = sourceNodeId
    BY <2>1 DEF MigrationFormInv, EnteredInOrder, StoragesAreOfSource
  <2>3. MigrationIsMeant'
    BY <2>1, <2>2 DEF MigrationIsMeant, Entries
  <2> QED
    BY <2>1, <2>2, <2>3 DEF MigrationFormInv, EnteredInOrder, StoragesAreOfSource, RequestHasTarget
<1>2. CASE StartAccepted
  BY <1>2 DEF StartAccepted, MigrationFormInv, EnteredInOrder, StoragesAreOfSource, RequestHasTarget,
              MigrationIsMeant, NoRequest
<1>3. CASE StartFails
  BY <1>3 DEF StartFails, MigrationFormInv, EnteredInOrder, StoragesAreOfSource, RequestHasTarget,
              MigrationIsMeant, NoRequest, GetsOut
<1> QED
  BY <1>1, <1>2, <1>3

LEMMA MigrationFormInvNext == ASSUME MigrationFormInv, [MigrationFormNext]_migrationFormVars
                              PROVE  MigrationFormInv'
<1>1. CASE UNCHANGED migrationFormVars
  BY <1>1 DEF migrationFormVars, MigrationFormInv, EnteredInOrder, StoragesAreOfSource, RequestHasTarget,
              MigrationIsMeant, NoRequest, GetsOut
<1>2. CASE MigrationFormNext
  BY <1>2, PickSourceKeeps, StoragesListedKeeps, EntriesKeep, MigrationStartKeeps DEF MigrationFormNext
<1> QED
  BY <1>1, <1>2

LEMMA MigrationFormInvFacts == /\ MigrationFormInit => MigrationFormInv
                               /\ MigrationFormInv => MigrationIsMeant
<1>1. MigrationFormInit => MigrationFormInv
  BY DEF MigrationFormInit, MigrationFormInv, EnteredInOrder, StoragesAreOfSource, RequestHasTarget,
         MigrationIsMeant, NoRequest, GetsOut
<1> QED
  BY <1>1 DEF MigrationFormInv

-----------------------------------------------------------------------------
(* VMAssistant, for any conversations and commands.                         *)

AssistantInv == out \in [Commands -> Nat] /\ CommandsRunOnce

LEMMA AssistantInvNext == ASSUME AssistantInv, [AssistantNext]_assistantVars PROVE AssistantInv'
<1>1. CASE UNCHANGED <<out, executing>>
  BY <1>1 DEF AssistantInv, CommandsRunOnce
<1>2. CASE HideAssistant
  BY <1>2 DEF HideAssistant, NothingKept, AssistantInv, CommandsRunOnce
<1>3. ASSUME NEW c \in Commands, RunCommand(c) PROVE AssistantInv'
  <2>1. out[c] = 0
    BY <1>3 DEF RunCommand, Runnable, AssistantInv, CommandsRunOnce
  <2>2. out' = [out EXCEPT ![c] = 1]
    BY <1>3, <2>1 DEF RunCommand
  <2> QED
    BY <1>3, <2>2 DEF RunCommand, AssistantInv, CommandsRunOnce
<1>4. ASSUME NEW c \in Commands, NEW S, CommandOver(c, S) PROVE AssistantInv'
  <2>1. out[c] = 1
    BY <1>4 DEF CommandOver, AssistantInv, CommandsRunOnce
  <2>2. out' = [out EXCEPT ![c] = 0]
    BY <1>4, <2>1 DEF CommandOver
  <2> QED
    BY <1>4, <2>2 DEF CommandOver, AssistantInv, CommandsRunOnce
<1> QED
  BY <1>1, <1>2, <1>3, <1>4 DEF AssistantNext, assistantVars, ShowAssistant, SendMessage, SendFails, LateAnswer,
                                SendAnswered, LateOutput

LEMMA AssistantInvFacts == /\ AssistantInit => AssistantInv
                           /\ AssistantInv => CommandsRunOnce
BY DEF AssistantInit, AssistantInv, CommandsRunOnce

\* What it shows is of one conversation, and a request that goes on with one is for that.
TalkInv ==
  /\ shown \subseteq Talks /\ conversation \in Talks \cup {NoTalk}
  /\ waiting => asked = conversation
  /\ AssistantIsTrue

LEMMA TalkInvNext == ASSUME TalkInv, [AssistantNext]_assistantVars PROVE TalkInv'
<1> USE NoTalkAssumption
<1>1. CASE UNCHANGED <<conversation, shown, temp, isSending, asked, waiting, told>>
  BY <1>1 DEF TalkInv, AssistantIsTrue
<1>2. CASE HideAssistant
  BY <1>2 DEF HideAssistant, NothingKept, TalkInv, AssistantIsTrue
<1>3. CASE SendMessage
  BY <1>3 DEF SendMessage, TalkInv, AssistantIsTrue
<1>4. ASSUME NEW t \in Talks, NEW S \in SUBSET Commands, SendAnswered(t, S) PROVE TalkInv'
  <2>1. waiting /\ asked = conversation /\ conversation' = t /\ shown' = shown \cup {t}
    BY <1>4 DEF SendAnswered, Receiving, TalkInv
  <2>2. shown' = {t} /\ t \in told'
    BY <1>4, <2>1 DEF SendAnswered, Receiving, TalkInv, AssistantIsTrue
  <2> QED
    BY <1>4, <2>1, <2>2 DEF SendAnswered, TalkInv, AssistantIsTrue
<1>5. CASE SendFails
  BY <1>5 DEF SendFails, TalkInv, AssistantIsTrue
<1> QED
  BY <1>1, <1>2, <1>3, <1>4, <1>5 DEF AssistantNext, assistantVars, ShowAssistant, LateAnswer, RunCommand,
                                      LateOutput, CommandOver

LEMMA TalkInvFacts == /\ AssistantInit => TalkInv
                      /\ TalkInv => AssistantIsTrue
BY DEF AssistantInit, TalkInv, AssistantIsTrue

-----------------------------------------------------------------------------
(* RowActions, for every table, any rows and bounds.                        *)

\* What all the tables have in common: a busy row is what stops the second order, and
\* where it stops only the question, the confirmation is a dialog that its order closes; a
\* confirmation that stays open over its order is in a table that is busy as a whole.
SoundTable(t) ==
  /\ t.busy \in {"none", "rows", "one", "table"} /\ t.guards \in {"send", "ask"}
  /\ t.guards = "ask" => /\ t.busy = "one" /\ ~t.direct /\ "start" \in t.shut
                         /\ t.modal /\ ~t.inside
  /\ t.asks /\ t.busy # "none" => "start" \in t.shut \/ t.busy = "table"

LEMMA TablesAreSound == \A t \in Tables : SoundTable(t)
<1> USE DEF SoundTable, Plain, Busy, BusyOne, Inline, Modal
<1>1. /\ SoundTable(BackupRows) /\ SoundTable(ReflexRows) /\ SoundTable(BaselineLabels)
      /\ SoundTable(BackupsPageRows) /\ SoundTable(SnapshotRows) /\ SoundTable(ProcessRows)
  BY DEF BackupRows, ReflexRows, BaselineLabels, BackupsPageRows, SnapshotRows, ProcessRows
<1>2. /\ SoundTable(VMGroupRows) /\ SoundTable(NodeRows) /\ SoundTable(UserRows)
      /\ SoundTable(IncidentRows) /\ SoundTable(DriftFiles) /\ SoundTable(SessionRows)
  BY DEF VMGroupRows, NodeRows, UserRows, IncidentRows, DriftFiles, SessionRows
<1>3. /\ SoundTable(ISOCells) /\ SoundTable(ISORows) /\ SoundTable(SecurityRows) /\ SoundTable(BriefingRows)
      /\ SoundTable(AlertRows) /\ SoundTable(ChannelTests) /\ SoundTable(BaselineRows)
  BY DEF ISOCells, ISORows, SecurityRows, BriefingRows, AlertRows, ChannelTests, BaselineRows
<1>4. SoundTable(Plain)
  OBVIOUS
<1> HIDE DEF SoundTable, Plain, Busy, BusyOne, Inline, Modal
<1> QED
  BY <1>1, <1>2, <1>3, <1>4
  DEF Tables, ChannelRows, AlertRuleRows, ReflexRuleRows, PolicyRows, ScheduleRows, DialogScheduleRows,
      AnomalyRows, ServiceRows, EnvironmentRows, TagRows, TagsPageRows, InvitationRows, MemberRows,
      ActionRows, SnapshotPolicyRows, BrainRows, KeyRows, TokenRows, DependencyRows, MigrationRows

\* Orders for two rows are out only if they crossed, and never from a table that is busy
\* as a whole.
OneRowUnlessCrossed ==
  /\ ~crossed => \A r, q \in OutFor : r = q
  /\ table.busy = "table" => ~crossed

\* A confirmation that is open has not been used, if its order closes it; it is for a row
\* without an order, if only the question is stopped by one; and it is the only thing that
\* orders, if the rows have no button of their own.
ConfirmationIsFresh ==
  asking # NoRow =>
    /\ "start" \in table.shut => ~used
    /\ table.guards = "ask" /\ ~crossed => asking \notin OutFor
    /\ overOrder \/ table.direct \/ OutFor \subseteq {asking}
    /\ table.asks

RowInv ==
  /\ table \in Tables /\ ordered \in [TableRows -> Nat] /\ marked \subseteq TableRows
  /\ asking \in TableRows \cup {NoRow}
  /\ OneRowUnlessCrossed /\ ConfirmationIsFresh
  /\ RowsAreOrderedOnce
  /\ doubled => table.busy = "none" /\ "start" \notin table.shut
  /\ ghost => table.asks /\ ~table.inside

\* One more order, by a button that is not disabled.
LEMMA OrderKeeps ==
  ASSUME RowInv, NEW r \in TableRows, Order(r), table' = table,
         table.guards = "ask" /\ ~crossed => r \notin OutFor
  PROVE  /\ ordered' \in [TableRows -> Nat] /\ marked' \subseteq TableRows
         /\ OutFor' = OutFor \cup {r}
         /\ OneRowUnlessCrossed' /\ RowsAreOrderedOnce'
         /\ table.busy \in {"rows", "table"} => r \notin OutFor
         /\ crossed => crossed'
<1>1. SoundTable(table)
  BY TablesAreSound DEF RowInv
<1>2. PICK n \in Nat : ordered[r] = n
  BY DEF RowInv
<1>3. ordered' = [ordered EXCEPT ![r] = n + 1]
  BY <1>2 DEF Order
<1>4. ordered' \in [TableRows -> Nat]
  BY <1>2, <1>3 DEF RowInv
<1>5. ordered'[r] = n + 1 /\ \A q \in TableRows \ {r} : ordered'[q] = ordered[q]
  BY <1>3 DEF RowInv
<1>6. OutFor' = OutFor \cup {r}
  BY <1>2, <1>5 DEF OutFor, RowInv
<1>7. marked' = MarkedBy(r) /\ (crossed' <=> crossed \/ OutFor \ {r} # {})
  BY DEF Order
<1>8. /\ marked' \subseteq TableRows
      /\ table.busy = "rows" => marked' = marked \cup {r}
      /\ table.busy = "one" => marked' = {r}
      /\ table.busy = "table" => marked' = TableRows
  BY <1>7 DEF MarkedBy, RowInv
<1>9. table.busy \in {"rows", "table"} => r \notin OutFor
  <2>1. ASSUME table.busy \in {"rows", "table"} PROVE r \notin marked
    BY <1>1, <2>1 DEF Order, Blocked, SoundTable
  <2>2. ASSUME table.busy \in {"rows", "table"}, r \in OutFor PROVE r \in marked
    BY <2>2 DEF RowInv, RowsAreOrderedOnce, OutFor
  <2> QED
    BY <2>1, <2>2
<1>10. table.busy = "table" => OutFor = {}
  <2>1. ASSUME table.busy = "table", OutFor # {} PROVE FALSE
    <3>1. r \in marked
      BY <2>1 DEF RowInv, RowsAreOrderedOnce
    <3> QED
      BY <1>1, <2>1, <3>1 DEF Order, Blocked, SoundTable
  <2> QED
    BY <2>1
<1>11. table.busy = "one" /\ ~crossed' => OutFor = {}
  <2>1. ASSUME table.busy = "one", ~crossed' PROVE OutFor = {}
    <3>1. ~crossed /\ OutFor \subseteq {r}
      BY <1>7, <2>1
    <3>2. marked = OutFor
      BY <2>1, <3>1 DEF RowInv, RowsAreOrderedOnce
    <3>3. r \notin OutFor
      BY <1>1, <3>1, <3>2 DEF Order, Blocked, SoundTable
    <3> QED
      BY <3>1, <3>3
  <2> QED
    BY <2>1
<1>12. OneRowUnlessCrossed'
  <2>1. ~crossed' => OutFor \subseteq {r}
    BY <1>7
  <2>2. table.busy = "table" => ~crossed'
    BY <1>7, <1>10 DEF RowInv, OneRowUnlessCrossed
  <2> QED
    BY <1>6, <2>1, <2>2 DEF OneRowUnlessCrossed
<1>13. ASSUME table.busy # "none", table.busy = "one" => ~crossed'
       PROVE  /\ \A q \in TableRows : ordered'[q] <= 1
              /\ marked' = (IF table.busy = "table" /\ OutFor' # {} THEN TableRows ELSE OutFor')
  <2>1. r \notin OutFor /\ n = 0
    BY <1>1, <1>2, <1>9, <1>11, <1>13 DEF SoundTable, OutFor
  <2>2. (table.busy = "one" => ~crossed) /\ \A q \in TableRows : ordered[q] <= 1
    BY <1>7, <1>13 DEF RowInv, RowsAreOrderedOnce
  <2>3. \A q \in TableRows : ordered'[q] <= 1
    BY <1>5, <2>1, <2>2
  <2>4. CASE table.busy = "rows"
    BY <1>6, <1>8, <2>3, <2>4 DEF RowInv, RowsAreOrderedOnce
  <2>5. CASE table.busy = "one"
    BY <1>6, <1>8, <1>11, <1>13, <2>3, <2>5
  <2>6. CASE table.busy = "table"
    BY <1>6, <1>8, <2>3, <2>6
  <2> QED
    BY <1>1, <1>13, <2>4, <2>5, <2>6 DEF SoundTable
<1>14. RowsAreOrderedOnce'
  BY <1>13 DEF RowsAreOrderedOnce
<1> QED
  BY <1>4, <1>6, <1>7, <1>8, <1>9, <1>12, <1>14

LEMMA OrderForRowKeeps == ASSUME RowInv, NEW r \in TableRows, OrderForRow(r) PROVE RowInv'
<1>1. SoundTable(table)
  BY TablesAreSound DEF RowInv
<1>2. Order(r) /\ table.direct /\ r \in onList /\ UNCHANGED <<table, onList, asking, used, overOrder, doubled>>
  BY DEF OrderForRow, Reachable
<1>3. table.guards # "ask"
  BY <1>1, <1>2 DEF SoundTable
<1>4. /\ ordered' \in [TableRows -> Nat] /\ marked' \subseteq TableRows
      /\ OutFor' = OutFor \cup {r} /\ OneRowUnlessCrossed' /\ RowsAreOrderedOnce'
  BY <1>2, <1>3, OrderKeeps
<1>5. ConfirmationIsFresh'
  BY <1>2, <1>3 DEF ConfirmationIsFresh, RowInv
<1>6. ghost' => ghost
  BY <1>2 DEF Order
<1> QED
  BY <1>2, <1>4, <1>5, <1>6 DEF RowInv, Order

LEMMA ConfirmKeeps == ASSUME RowInv, Confirm PROVE RowInv'
<1>1. SoundTable(table)
  BY TablesAreSound DEF RowInv
<1>2. /\ asking \in TableRows /\ asking # NoRow /\ (table.inside => asking \in onList)
      /\ Order(asking) /\ UNCHANGED <<table, onList, overOrder>>
  BY DEF Confirm, Confirming, RowInv
<1>3. ~crossed /\ table.guards = "ask" => asking \notin OutFor
  BY <1>2 DEF RowInv, ConfirmationIsFresh
<1>4. /\ ordered' \in [TableRows -> Nat] /\ marked' \subseteq TableRows
      /\ OutFor' = OutFor \cup {asking} /\ OneRowUnlessCrossed' /\ RowsAreOrderedOnce'
      /\ table.busy \in {"rows", "table"} => asking \notin OutFor
  BY <1>2, <1>3, OrderKeeps
<1>5. ConfirmationIsFresh'
  <2>1. asking' # NoRow => asking' = asking /\ "start" \notin table.shut
    BY DEF Confirm
  <2> QED
    BY <1>1, <1>2, <1>4, <2>1 DEF ConfirmationIsFresh, RowInv, SoundTable
<1>6. doubled' => table'.busy = "none" /\ "start" \notin table'.shut
  <2>1. ASSUME used, asking \in OutFor PROVE table.busy = "none" /\ "start" \notin table.shut
    BY <1>1, <1>2, <1>4, <2>1 DEF RowInv, ConfirmationIsFresh, SoundTable
  <2> QED
    BY <1>2, <2>1 DEF Confirm, RowInv
<1>7. ghost' => table'.asks /\ ~table'.inside
  <2>1. table.asks
    BY <1>2 DEF RowInv, ConfirmationIsFresh
  <2> QED
    BY <1>2, <2>1 DEF Order, RowInv
<1>8. asking' \in TableRows \cup {NoRow}
  BY <1>2 DEF Confirm
<1> QED
  BY <1>2, <1>4, <1>5, <1>6, <1>7, <1>8 DEF RowInv

LEMMA OrderAnsweredKeeps == ASSUME RowInv, NEW r \in TableRows, NEW how, OrderAnswered(r, how) PROVE RowInv'
<1>1. SoundTable(table)
  BY TablesAreSound DEF RowInv
<1>2. PICK n \in Nat : ordered[r] = n /\ n > 0
  BY DEF RowInv, OrderAnswered, OutFor
<1>3. ordered' = [ordered EXCEPT ![r] = n - 1] /\ UNCHANGED <<table, onList, used, overOrder, doubled, ghost>>
      /\ r \in OutFor /\ marked' = Unmarked(r)
  BY <1>2 DEF OrderAnswered
<1>4. ordered' \in [TableRows -> Nat]
  BY <1>2, <1>3 DEF RowInv
<1>5. ordered'[r] = n - 1 /\ \A q \in TableRows \ {r} : ordered'[q] = ordered[q]
  BY <1>3 DEF RowInv
<1>6. OutFor' \subseteq OutFor /\ OutFor \subseteq OutFor' \cup {r} /\ (r \in OutFor' => n > 1)
  BY <1>2, <1>5 DEF OutFor, RowInv
<1>7. crossed' <=> crossed /\ OutFor' # {}
  <2>1. OutFor' # {} <=> \E o \in TableRows : ordered'[o] > 0
    BY DEF OutFor
  <2> QED
    BY <2>1 DEF OrderAnswered
<1>8. OneRowUnlessCrossed'
  BY <1>3, <1>6, <1>7 DEF RowInv, OneRowUnlessCrossed
<1>9. asking' \in {asking, NoRow}
  BY DEF OrderAnswered
<1>10. ConfirmationIsFresh'
  BY <1>3, <1>6, <1>7, <1>9 DEF RowInv, ConfirmationIsFresh
<1>11. ASSUME table.busy # "none", table.busy = "one" => ~crossed'
       PROVE  /\ \A q \in TableRows : ordered'[q] <= 1
              /\ marked' = (IF table.busy = "table" /\ OutFor' # {} THEN TableRows ELSE OutFor')
  <2>1. CASE table.busy = "one" /\ crossed
    <3>1. OutFor' = {}
      BY <1>7, <1>11, <2>1
    <3>2. \A q \in TableRows : ordered'[q] <= 1
      BY <1>4, <3>1 DEF OutFor
    <3> QED
      BY <1>3, <2>1, <3>1, <3>2 DEF Unmarked
  <2>2. CASE table.busy = "one" => ~crossed
    <3>1. (\A q \in TableRows : ordered[q] <= 1)
          /\ marked = (IF table.busy = "table" /\ OutFor # {} THEN TableRows ELSE OutFor)
      BY <1>11, <2>2 DEF RowInv, RowsAreOrderedOnce
    <3>2. n = 1 /\ OutFor' = OutFor \ {r} /\ \A q \in TableRows : ordered'[q] <= 1
      BY <1>2, <1>5, <1>6, <3>1
    <3>3. CASE table.busy = "rows"
      BY <1>3, <3>1, <3>2, <3>3 DEF Unmarked
    <3>4. CASE table.busy \in {"one", "table"}
      <4>1. ~crossed
        BY <2>2, <3>4 DEF RowInv, OneRowUnlessCrossed
      <4>2. OutFor' = {}
        BY <1>3, <3>2, <4>1 DEF RowInv, OneRowUnlessCrossed
      <4> QED
        BY <1>3, <3>2, <3>4, <4>2 DEF Unmarked
    <3> QED
      BY <1>1, <1>11, <3>2, <3>3, <3>4 DEF SoundTable
  <2> QED
    BY <2>1, <2>2
<1>12. RowsAreOrderedOnce'
  BY <1>3, <1>11 DEF RowsAreOrderedOnce
<1>13. marked' \subseteq TableRows
  BY <1>3 DEF Unmarked, RowInv
<1>14. asking' \in TableRows \cup {NoRow}
  BY <1>9 DEF RowInv
<1> QED
  BY <1>3, <1>4, <1>8, <1>10, <1>12, <1>13, <1>14 DEF RowInv

LEMMA AskForKeeps == ASSUME RowInv, NEW r \in TableRows, AskFor(r) PROVE RowInv'
<1>1. SoundTable(table)
  BY TablesAreSound DEF RowInv
<1>2. UNCHANGED <<table, onList, marked, ordered, crossed, doubled, ghost, OutFor>> /\ asking' = r
      /\ used' = FALSE /\ (overOrder' <=> OutFor # {})
  BY DEF AskFor, OutFor
<1>3. table.guards = "ask" /\ ~crossed => r \notin OutFor
  BY <1>1 DEF AskFor, Blocked, SoundTable, RowInv, RowsAreOrderedOnce
<1>4. ConfirmationIsFresh'
  BY <1>2, <1>3 DEF ConfirmationIsFresh, AskFor
<1>5. OneRowUnlessCrossed' /\ RowsAreOrderedOnce'
  BY <1>2 DEF RowInv, OneRowUnlessCrossed, RowsAreOrderedOnce
<1> QED
  BY <1>2, <1>4, <1>5 DEF RowInv

LEMMA RowInvNext == ASSUME RowInv, [RowNext]_rowVars PROVE RowInv'
<1>1. CASE LeaveTable
  <2>1. OutFor' = {} /\ ordered' \in [TableRows -> Nat] /\ \A r \in TableRows : ordered'[r] = 0
    BY <1>1 DEF LeaveTable, OutFor
  <2> QED
    BY <1>1, <2>1 DEF LeaveTable, RowInv, OneRowUnlessCrossed, ConfirmationIsFresh, RowsAreOrderedOnce
<1>2. ASSUME UNCHANGED <<table, marked, ordered, crossed, doubled, ghost>>,
             UNCHANGED <<asking, used, overOrder>> \/ asking' = NoRow
      PROVE  RowInv'
  BY <1>2 DEF RowInv, OneRowUnlessCrossed, ConfirmationIsFresh, RowsAreOrderedOnce, OutFor
<1>3. CASE CancelAsk
  BY <1>2, <1>3 DEF CancelAsk
<1>4. ASSUME NEW S, ListedAgain(S) PROVE RowInv'
  BY <1>2, <1>4 DEF ListedAgain
<1>5. CASE UNCHANGED rowVars
  BY <1>2, <1>5 DEF rowVars
<1> QED
  BY <1>1, <1>3, <1>4, <1>5, ConfirmKeeps, AskForKeeps, OrderForRowKeeps, OrderAnsweredKeeps DEF RowNext

LEMMA RowInvFacts == /\ RowInit => RowInv
                     /\ RowInv => RowsAreOrderedOnce /\ ConfirmationsAreKept
<1>1. ASSUME RowInit PROVE RowInv
  <2>1. OutFor = {} /\ ordered \in [TableRows -> Nat] /\ \A r \in TableRows : ordered[r] = 0
    BY <1>1 DEF RowInit, OutFor
  <2> QED
    BY <1>1, <2>1 DEF RowInit, RowInv, OneRowUnlessCrossed, ConfirmationIsFresh, RowsAreOrderedOnce
<1>2. ASSUME RowInv PROVE RowsAreOrderedOnce /\ ConfirmationsAreKept
  BY <1>2 DEF RowInv, ConfirmationIsFresh, ConfirmationsAreKept, Confirming
<1> QED
  BY <1>1, <1>2

-----------------------------------------------------------------------------
(* The screens together, whichever is in use.                               *)

MeantInv == VMListInv /\ MigrationFormInv /\ AssistantInv /\ RowInv

LEMMA MeantInvNext == ASSUME MeantInv, [ScreensNext]_screensVars PROVE MeantInv'
<1>1. /\ [VMListNext]_vmListVars /\ [MigrationFormNext]_migrationFormVars
      /\ [AssistantNext]_assistantVars /\ [RowNext]_rowVars
  BY DEF ScreensNext, screensVars
<1> QED
  BY <1>1, VMListInvNext, MigrationFormInvNext, AssistantInvNext, RowInvNext DEF MeantInv

\* Nothing is ordered that was not meant: the orders of a list of guests, the request of the
\* assistant for migrations, the commands of a guest's assistant and the orders for the rows
\* of every table, for any nodes, guests, rows, commands and bounds on what is out.
THEOREM OrdersAreWanted == ScreensSpec => []ActionsAreMeant
<1>1. ScreensInit => MeantInv
  BY VMListInvFacts, MigrationFormInvFacts, AssistantInvFacts, RowInvFacts DEF ScreensInit, MeantInv
<1>2. MeantInv /\ [ScreensNext]_screensVars => MeantInv'
  BY MeantInvNext
<1>3. MeantInv => ActionsAreMeant
  BY VMListInvFacts, MigrationFormInvFacts, AssistantInvFacts, RowInvFacts DEF MeantInv, ActionsAreMeant
<1> QED
  BY <1>1, <1>2, <1>3, PTL DEF ScreensSpec

-----------------------------------------------------------------------------
(* NodeGauges, for any hosts and bounds.                                    *)

\* The dashboard holds only for those to have been asked that are, or whose answer is in.
GaugesInv ==
  /\ nodeStatus \in [Hosts -> Gauges \cup {NoGauges}]
  /\ statusGets \in [Hosts -> Nat]
  /\ gaugePage = "dashboard" =>
       \A h \in requestedStatus : nodeStatus[h] = NoGauges => statusGets[h] > 0 \/ h \in missed
  /\ requestedStatus \subseteq Hosts /\ nodes \in [Hosts -> {"online", "offline", "gone"}]
  /\ gaugePage # "dashboard" => requestedStatus = {}
  /\ gaugePage \in {"dashboard", "monitoring", "topology", "other"}
  /\ NobodyForgotten

LEMMA AskStatusEffect ==
  ASSUME NEW H, NEW gets \in [Hosts -> Nat], AskStatus(H, gets)
  PROVE  /\ statusGets' \in [Hosts -> Nat]
         /\ \A h \in Hosts : statusGets'[h] >= gets[h]
         /\ \A h \in Hosts \cap H : statusGets'[h] > 0
<1>1. statusGets' = [h \in Hosts |-> IF h \in H THEN gets[h] + 1 ELSE gets[h]]
  BY DEF AskStatus
<1>2. ASSUME NEW h \in Hosts
      PROVE  statusGets'[h] \in Nat /\ statusGets'[h] >= gets[h] /\ (h \in H => statusGets'[h] > 0)
  <2>1. PICK n \in Nat : gets[h] = n
    OBVIOUS
  <2> QED
    BY <1>1, <2>1
<1> QED
  BY <1>1, <1>2

\* Whoever asks for the gauges of new nodes asks for those that have none.
LEMMA NodesAreNewEffect ==
  ASSUME GaugesInv, NEW page \in {"dashboard", "monitoring", "topology", "other"},
         NEW N \in [Hosts -> {"online", "offline", "gone"}],
         NEW had \in SUBSET Hosts, NodesAreNew(page, N, had),
         page = "dashboard" => \A h \in had : nodeStatus[h] = NoGauges => statusGets[h] > 0 \/ h \in missed
  PROVE  /\ statusGets' \in [Hosts -> Nat]
         /\ requestedStatus' \subseteq Hosts
         /\ page # "dashboard" => requestedStatus' = {}
         /\ page = "dashboard" =>
              \A h \in requestedStatus' : nodeStatus[h] = NoGauges => statusGets'[h] > 0 \/ h \in missed
         /\ page # "other" => \A h \in Hosts : N[h] = "online" /\ nodeStatus[h] = NoGauges
                                                 => statusGets'[h] > 0 \/ h \in missed
<1> DEFINE H == Wanted(page, N, nodeStatus, had)
<1>1. AskStatus(H, statusGets) /\ requestedStatus' = IF page = "dashboard" THEN had \cup H ELSE {}
  BY DEF NodesAreNew
<1>2. /\ page = "dashboard" => H = {h \in Hosts : N[h] = "online" /\ nodeStatus[h] = NoGauges} \ had
      /\ page = "monitoring" => H = {h \in Hosts : N[h] = "online"}
      /\ page = "topology" => H = {h \in Hosts : N[h] # "gone"}
  BY DEF Wanted
<1> HIDE DEF H
<1>3. /\ statusGets' \in [Hosts -> Nat]
      /\ \A h \in Hosts : statusGets'[h] >= statusGets[h]
      /\ \A h \in Hosts \cap H : statusGets'[h] > 0
  BY <1>1, AskStatusEffect DEF GaugesInv
<1>4. \A h \in Hosts : statusGets[h] > 0 => statusGets'[h] > 0
  BY <1>3 DEF GaugesInv
<1>5. page = "dashboard" => H \subseteq Hosts
  BY <1>2
<1> QED
  BY <1>1, <1>2, <1>3, <1>4, <1>5

LEMMA StatusAnswerKeeps ==
  ASSUME GaugesInv, NEW h \in Hosts, (\E g \in Gauges : StatusFetched(h, g)) \/ FetchStatusFails(h)
  PROVE  GaugesInv'
<1>1. CASE \E g \in Gauges : StatusFetched(h, g)
  <2>1. PICK g \in Gauges : StatusFetched(h, g)
    BY <1>1
  <2> DEFINE S == [nodeStatus EXCEPT ![h] = g]
             H == IF gaugePage = "dashboard" THEN Wanted(gaugePage, nodes, S, requestedStatus) ELSE {}
  <2>2. /\ statusGets[h] > 0 /\ AskStatus(H, StatusOver(h)) /\ nodeStatus' = S
        /\ Forgets(h, requestedStatus \cup H) /\ missed' = missed \ {h} /\ UNCHANGED <<gaugePage, nodes>>
    BY <2>1 DEF StatusFetched
  <2>3. nodeStatus' \in [Hosts -> Gauges \cup {NoGauges}] /\ nodeStatus'[h] # NoGauges
        /\ \A k \in Hosts \ {h} : nodeStatus'[k] = nodeStatus[k]
    BY <2>2 DEF GaugesInv, Gauges, NoGauges, Low, High
  <2>4. PICK n \in Nat : statusGets[h] = n /\ n > 0
    BY <2>2 DEF GaugesInv
  <2>5. StatusOver(h) \in [Hosts -> Nat] /\ \A k \in Hosts \ {h} : StatusOver(h)[k] = statusGets[k]
    BY <2>4 DEF StatusOver, GaugesInv
  <2>6. gaugePage = "dashboard" => H \subseteq Hosts
    BY DEF Wanted
  <2>7. gaugePage # "dashboard" => H = {}
    OBVIOUS
  <2> HIDE DEF H
  <2>8. /\ statusGets' \in [Hosts -> Nat]
        /\ \A k \in Hosts : statusGets'[k] >= StatusOver(h)[k]
        /\ \A k \in Hosts \cap H : statusGets'[k] > 0
    BY <2>2, <2>5, AskStatusEffect
  <2>9. \A k \in Hosts \ {h} : statusGets[k] > 0 => statusGets'[k] > 0
    BY <2>5, <2>8 DEF GaugesInv
  <2>10. requestedStatus' \subseteq requestedStatus \cup H
    BY <2>2 DEF Forgets
  <2>11. \A k \in Hosts : nodeStatus'[k] = NoGauges =>
           k # h /\ nodeStatus[k] = NoGauges /\ (k \in missed => k \in missed')
    BY <2>2, <2>3
  <2>12. NobodyForgotten'
    BY <2>2, <2>9, <2>11 DEF GaugesInv, NobodyForgotten, Online
  <2>13. gaugePage' = "dashboard" => \A k \in requestedStatus' : nodeStatus'[k] = NoGauges
                                        => statusGets'[k] > 0 \/ k \in missed'
    BY <2>2, <2>6, <2>8, <2>9, <2>10, <2>11 DEF GaugesInv
  <2> QED
    BY <2>2, <2>3, <2>6, <2>7, <2>8, <2>10, <2>12, <2>13 DEF GaugesInv
<1>2. CASE FetchStatusFails(h)
  <2>1. PICK n \in Nat : statusGets[h] = n /\ n > 0
    BY <1>2 DEF FetchStatusFails, GaugesInv
  <2>2. statusGets' \in [Hosts -> Nat] /\ \A k \in Hosts \ {h} : statusGets'[k] = statusGets[k]
    BY <1>2, <2>1 DEF FetchStatusFails, StatusOver, GaugesInv
  <2>3. requestedStatus' \subseteq requestedStatus /\ missed' = missed \cup {h}
        /\ UNCHANGED <<gaugePage, nodes, nodeStatus>>
    BY <1>2 DEF FetchStatusFails, Forgets
  <2> QED
    BY <2>2, <2>3 DEF GaugesInv, NobodyForgotten, Online
<1> QED
  BY <1>1, <1>2

LEMMA GaugesInvNext == ASSUME GaugesInv, [GaugesNext]_gaugeVars PROVE GaugesInv'
<1>1. ASSUME NEW p \in {"dashboard", "monitoring", "topology", "other"}, OpenGauges(p) PROVE GaugesInv'
  <2>1. gaugePage' = p /\ NodesAreNew(p, nodes, {}) /\ UNCHANGED <<nodes, nodeStatus, missed>>
    BY <1>1 DEF OpenGauges
  <2> QED
    BY <2>1, NodesAreNewEffect DEF GaugesInv, NobodyForgotten, Online
<1>2. ASSUME NEW N \in [Hosts -> {"online", "offline", "gone"}], NodesFetched(N) PROVE GaugesInv'
  <2>1. nodes' = N /\ NodesAreNew(gaugePage, N, requestedStatus) /\ UNCHANGED <<gaugePage, nodeStatus, missed>>
    BY <1>2 DEF NodesFetched
  <2> QED
    BY <2>1, NodesAreNewEffect DEF GaugesInv, NobodyForgotten, Online
<1>3. ASSUME NEW h \in Hosts, (\E g \in Gauges : StatusFetched(h, g)) \/ FetchStatusFails(h)
      PROVE  GaugesInv'
  BY <1>3, StatusAnswerKeeps
<1>4. ASSUME NEW h \in Hosts, RemoveNode(h) PROVE GaugesInv'
  BY <1>4 DEF RemoveNode, GaugesInv, NobodyForgotten
<1>5. ASSUME UNCHANGED <<gaugePage, nodes, nodeStatus, statusGets, requestedStatus, missed>>
      PROVE  GaugesInv'
  BY <1>5 DEF GaugesInv, NobodyForgotten, Online
<1> QED
  BY <1>1, <1>2, <1>3, <1>4, <1>5 DEF GaugesNext, RefreshAll, FetchNodesFails, gaugeVars

\* None is counted as pending exactly when all that are online have gauges.
LEMMA PendingStatusMeaning == /\ PendingStatus \in Nat
                              /\ PendingStatus = 0 <=> Statuses = Online
<1>1. IsFiniteSet(Online) /\ Statuses \subseteq Online
  BY GaugesAssumption, FS_Subset DEF Online, Statuses
<1>2. /\ IsFiniteSet(Statuses) /\ Cardinality(Statuses) <= Cardinality(Online)
      /\ Cardinality(Statuses) = Cardinality(Online) => Statuses = Online
  BY <1>1, FS_Subset
<1>3. Cardinality(Statuses) \in Nat /\ Cardinality(Online) \in Nat
  BY <1>1, <1>2, FS_CardinalityType
<1> QED
  BY <1>2, <1>3 DEF PendingStatus

\* The set of things to say, by what there is to say.
Said(p, q, r, m) ==
  (IF p THEN {<<"offline-nodes", "critical">>} ELSE {}) \cup (IF q THEN {<<"status-loading", "info">>} ELSE {})
    \cup (IF r THEN {<<"cpu-pressure", "warning">>} ELSE {})
    \cup (IF m THEN {<<"memory-pressure", "warning">>} ELSE {})

\* What such a set tells of the reasons.
SaidMeans(items, p, q, r, m) ==
  /\ items = {} <=> ~p /\ ~q /\ ~r /\ ~m
  /\ <<"all-clear", "info">> \notin items
  /\ (\E item \in items : item[2] = "critical") <=> p
  /\ (\E item \in items : item[2] = "warning") <=> r \/ m

LEMMA SaidMeaning ==
  ASSUME NEW p \in BOOLEAN, NEW q \in BOOLEAN, NEW r \in BOOLEAN, NEW m \in BOOLEAN
  PROVE  SaidMeans(Said(p, q, r, m), p, q, r, m)
<1> DEFINE O == <<"offline-nodes", "critical">>
           L == <<"status-loading", "info">>
           C == <<"cpu-pressure", "warning">>
           M == <<"memory-pressure", "warning">>
<1>1. /\ O[2] = "critical" /\ L[2] = "info" /\ C[2] = "warning" /\ M[2] = "warning"
      /\ <<"all-clear", "info">> \notin {O, L, C, M}
  OBVIOUS
<1> HIDE DEF O, L, C, M
<1>2. Said(p, q, r, m) = (IF p THEN {O} ELSE {}) \cup (IF q THEN {L} ELSE {})
                           \cup (IF r THEN {C} ELSE {}) \cup (IF m THEN {M} ELSE {})
  BY DEF Said, O, L, C, M
<1>3. \A x : x \in Said(p, q, r, m) <=> (p /\ x = O) \/ (q /\ x = L) \/ (r /\ x = C) \/ (m /\ x = M)
  BY <1>2
<1> QED
  BY <1>1, <1>3 DEF SaidMeans

\* What the dashboard says, by what it has to say.
LEMMA ToneMeaning ==
  /\ HealthTone = "ok" <=> /\ Listed # {} /\ Online = Listed /\ PendingStatus <= 0
                           /\ HotNodes = {} /\ ~(AverageMemory >= 80)
  /\ HealthTone = "info" => PendingStatus > 0
  /\ <<"all-clear", "info">> \in AttentionItems <=>
       /\ Listed # {} /\ Online = Listed /\ ~(PendingStatus > 0)
       /\ HotNodes = {} /\ ~(AverageMemory >= 80)
<1> DEFINE said == Said(Online # Listed, PendingStatus > 0, HotNodes # {}, AverageMemory >= 80)
           Has(severity) == \E item \in AttentionItems : item[2] = severity
<1>1. /\ said = {} <=> /\ Online = Listed /\ ~(PendingStatus > 0) /\ HotNodes = {} /\ ~(AverageMemory >= 80)
      /\ <<"all-clear", "info">> \notin said
      /\ (\E item \in said : item[2] = "critical") <=> Online # Listed
      /\ (\E item \in said : item[2] = "warning") <=> HotNodes # {} \/ AverageMemory >= 80
  <2>1. PICK p \in BOOLEAN, q \in BOOLEAN, r \in BOOLEAN, m \in BOOLEAN :
          /\ p <=> Online # Listed
          /\ q <=> PendingStatus > 0
          /\ r <=> HotNodes # {}
          /\ m <=> AverageMemory >= 80
    OBVIOUS
  <2>2. said = Said(p, q, r, m)
    BY <2>1 DEF Said
  <2> HIDE DEF said
  <2>3. SaidMeans(said, p, q, r, m)
    <3>1. SaidMeans(Said(p, q, r, m), p, q, r, m)
      BY SaidMeaning
    <3> QED
      BY <2>2, <3>1
  <2> QED
    BY <2>1, <2>3, Zenon DEF SaidMeans
<1>2. /\ Listed = {} => AttentionItems = said \cup {<<"no-nodes", "info">>}
      /\ Listed # {} /\ said = {} => AttentionItems = {<<"all-clear", "info">>}
      /\ Listed # {} /\ said # {} => AttentionItems = said
  BY DEF AttentionItems, Said
<1> HIDE DEF said
<1>3. Listed # {} => /\ Has("critical") <=> Online # Listed
                     /\ Has("warning") <=> HotNodes # {} \/ AverageMemory >= 80
  BY <1>1, <1>2
<1> HIDE DEF Has
<1>4. /\ Listed = {} => HealthTone = "muted"
      /\ Listed # {} /\ Has("critical") => HealthTone = "critical"
      /\ Listed # {} /\ ~Has("critical") /\ Has("warning") => HealthTone = "warning"
      /\ Listed # {} /\ ~Has("critical") /\ ~Has("warning") =>
           HealthTone = IF PendingStatus > 0 THEN "info" ELSE "ok"
  BY DEF HealthTone, Has
<1>5. PendingStatus \in Nat
  BY PendingStatusMeaning
<1>6. (PendingStatus <= 0) <=> ~(PendingStatus > 0)
  BY <1>5
<1>7. <<"all-clear", "info">> \in AttentionItems <=> Listed # {} /\ said = {}
  BY <1>1, <1>2
<1> QED
  BY <1>1, <1>3, <1>4, <1>6, <1>7

LEMMA GaugesInvFacts == /\ GaugesInit => GaugesInv
                        /\ GaugesInv => GaugesAreTrue
<1>1. GaugesInit => GaugesInv
  BY DEF GaugesInit, GaugesInv, NobodyForgotten
<1>2. ASSUME GaugesInv PROVE GaugesAreTrue
  <2>1. ASSUME HealthTone = "ok"
        PROVE  Online = Listed /\ Statuses = Online /\ HotNodes = {} /\ Listed # {}
    BY <2>1, ToneMeaning, PendingStatusMeaning
  <2>2. HealthTone = "ok" =>
          \A h \in Listed : nodes[h] = "online" /\ nodeStatus[h] # NoGauges /\ nodeStatus[h].cpu < 80
    <3>1. \A h \in Hosts : nodeStatus[h].cpu \in Nat
      BY <1>2 DEF GaugesInv, Gauges, NoGauges, Low, High
    <3> QED
      BY <2>1, <3>1 DEF Listed, Online, Statuses, HotNodes
  <2>3. HealthTone = "info" => \E h \in Online : nodeStatus[h] = NoGauges
    <3>1. HealthTone = "info" => Statuses # Online
      BY ToneMeaning, PendingStatusMeaning
    <3> QED
      BY <3>1 DEF Online, Statuses
  <2>4. CalmIsTrue
    BY <2>2, <2>3, ToneMeaning, PendingStatusMeaning DEF CalmIsTrue
  <2>5. ASSUME HealthTone = "ok"
        PROVE  /\ DashboardBadge = "ok"
               /\ ~nodesLoading => FleetTable = TopologyCards /\ MonitoringCards = TopologyCards
               /\ MonitoringAverages \subseteq Listed => MonitoringAverages = Statuses
    <3>1. \A h \in Listed : nodes[h] # "offline"
      BY <2>2, <2>5
    <3>2. MonitoringAverages \subseteq Listed => MonitoringAverages = Statuses
      BY <2>1, <2>5 DEF MonitoringAverages, Statuses, Online, Listed
    <3> QED
      BY <2>1, <2>5, <3>1, <3>2 DEF DashboardBadge, FleetTable, TopologyCards, MonitoringCards
  <2>6. PagesAgree
    BY <2>5 DEF PagesAgree
  <2> QED
    BY <1>2, <2>4, <2>6 DEF GaugesInv, GaugesAreTrue
<1> QED
  BY <1>1, <1>2

-----------------------------------------------------------------------------
(* VMShell, for any sockets and bounds on the tabs.                         *)

\* The sockets: none is in use but that of the ref; the badge tells its state, unless an
\* older one ended later; and a shell that is gone left an error, or a reason that shows none.
SocketKept ==
  /\ sock \in [Sockets -> SocketStates] /\ wsRef \in Sockets \cup {NoSocket}
  /\ OneShell
  /\ wsRef = NoSocket => \A k \in Sockets : sock[k] = "none"
  /\ ~shellShown => wsRef = NoSocket /\ ~isConnected
  /\ overtaken \/ (isConnected <=> wsRef # NoSocket /\ sock[wsRef] = "open")
  /\ shellShown /\ (wsRef # NoSocket => sock[wsRef] = "none") => shellError # "none" \/ quietEnd

\* The tabs have different numbers, all of them given out, and one of them is shown.
TabsKept ==
  /\ sessions \in Seq(Nat) /\ nextIdRef \in Nat
  /\ \A i \in 1..Len(sessions) : sessions[i] < nextIdRef
  /\ \A i, j \in 1..Len(sessions) : sessions[i] = sessions[j] => i = j
  /\ sessions # <<>> => \E i \in 1..Len(sessions) : sessions[i] = activeSessionId

\* What has no answer was typed in the tab that is shown, unless that was changed since.
AnswerKept == ~astray /\ (unanswered # 0 /\ ~switched => unanswered = activeSessionId)

ShellInv == SocketKept /\ TabsKept /\ AnswerKept

\* Tabs with different numbers are as many as their numbers.
LEMMA CountOfTabs == ASSUME TabsKept PROVE Len(sessions) = Cardinality(Tabs)
<1> DEFINE n == Len(sessions)
           f == [i \in 1..n |-> sessions[i]]
<1>1. n \in Nat /\ DOMAIN sessions = 1..n
  BY DEF TabsKept
<1>2. f \in Bijection(1..n, Tabs)
  <2>1. f \in [1..n -> Tabs]
    BY <1>1 DEF Tabs
  <2>2. \A i, j \in 1..n : f[i] = f[j] => i = j
    BY DEF TabsKept
  <2>3. \A t \in Tabs : \E i \in 1..n : f[i] = t
    BY <1>1 DEF Tabs
  <2> QED
    BY <2>1, <2>2, <2>3, Fun_IsBij
<1>3. ExistsBijection(1..n, Tabs)
  BY <1>2 DEF ExistsBijection
<1> QED
  BY <1>1, <1>3, FS_CountingElements

LEMMA ShellInvFacts == /\ ShellInit => ShellInv
                       /\ ShellInv => ShellIsTrue
<1>1. ASSUME ShellInit PROVE ShellInv
  <2>1. SocketKept
    BY <1>1, ShellAssumption DEF ShellInit, SocketKept, SocketStates, OneShell
  <2>2. TabsKept
    BY <1>1 DEF ShellInit, TabsKept
  <2>3. AnswerKept
    BY <1>1 DEF ShellInit, AnswerKept
  <2> QED
    BY <2>1, <2>2, <2>3 DEF ShellInv
<1>2. ASSUME ShellInv PROVE ShellIsTrue
  <2>1. OneShell
    BY <1>2 DEF ShellInv, SocketKept
  <2>2. BadgeIsTrue
    BY <1>2 DEF ShellInv, SocketKept, BadgeIsTrue
  <2>3. Len(sessions) = Cardinality(Tabs)
    BY <1>2, CountOfTabs DEF ShellInv
  <2>4. activeSessionId \in Tabs <=> sessions # <<>>
    <3>1. DOMAIN sessions = 1..Len(sessions)
      BY <1>2 DEF ShellInv, TabsKept
    <3>2. CASE sessions = <<>>
      BY <3>2 DEF Tabs
    <3>3. CASE sessions # <<>>
      BY <1>2, <3>1, <3>3 DEF ShellInv, TabsKept, Tabs
    <3> QED
      BY <3>2, <3>3
  <2> QED
    BY <1>2, <2>1, <2>2, <2>3, <2>4 DEF ShellIsTrue, TabsAreTrue, ShellInv, AnswerKept
<1> QED
  BY <1>1, <1>2

\* What RemoveAt leaves: all the others, in their order.
LEMMA RemoveAtEffect ==
  ASSUME NEW s \in Seq(Nat), NEW i \in 1..Len(s)
  PROVE  /\ RemoveAt(s, i) \in Seq(Nat) /\ Len(RemoveAt(s, i)) = Len(s) - 1
         /\ \A j \in 1..(Len(s) - 1) : RemoveAt(s, i)[j] = IF j < i THEN s[j] ELSE s[j + 1]
<1> DEFINE n == Len(s)
           a == SubSeq(s, 1, i - 1)
           b == SubSeq(s, i + 1, n)
<1>1. RemoveAt(s, i) = a \o b
  BY DEF RemoveAt
<1>2. n \in Nat /\ i \in 1..n
  OBVIOUS
<1>3. a \in Seq(Nat) /\ Len(a) = i - 1 /\ \A j \in 1..(i - 1) : a[j] = s[j]
  BY <1>2
<1>4. b \in Seq(Nat) /\ Len(b) = n - i /\ \A j \in 1..(n - i) : b[j] = s[i + j]
  BY <1>2
<1> HIDE DEF a, b
<1>5. a \o b \in Seq(Nat) /\ Len(a \o b) = n - 1
      /\ \A j \in 1..(n - 1) : (a \o b)[j] = IF j <= i - 1 THEN a[j] ELSE b[j - (i - 1)]
  <2>1. /\ a \o b \in Seq(Nat) /\ Len(a \o b) = Len(a) + Len(b)
        /\ \A j \in 1..(Len(a) + Len(b)) : (a \o b)[j] = IF j <= Len(a) THEN a[j] ELSE b[j - Len(a)]
    BY <1>3, <1>4, ConcatProperties
  <2>2. Len(a) + Len(b) = n - 1
    BY <1>2, <1>3, <1>4
  <2> QED
    BY <1>3, <2>1, <2>2
<1>6. ASSUME NEW j \in 1..(n - 1) PROVE (a \o b)[j] = IF j < i THEN s[j] ELSE s[j + 1]
  <2>1. CASE j < i
    BY <1>2, <1>3, <1>5, <2>1
  <2>2. CASE j >= i
    <3>1. j - (i - 1) \in 1..(n - i) /\ i + (j - (i - 1)) = j + 1
      BY <1>2, <2>2
    <3>2. (a \o b)[j] = b[j - (i - 1)]
      BY <1>2, <1>5, <2>2
    <3> QED
      BY <1>2, <1>4, <2>2, <3>1, <3>2
  <2>3. j < i \/ j >= i
    BY <1>2
  <2> QED
    BY <2>1, <2>2, <2>3
<1> QED
  BY <1>1, <1>5, <1>6

\* close() leaves nothing in use.
LEMMA ClosedIsQuiet == ASSUME SocketKept PROVE Closed \in [Sockets -> {"none", "closing", "dropping"}]
<1>1. ASSUME NEW j \in Sockets PROVE Closed[j] \in {"none", "closing", "dropping"}
  <2>1. CASE j # wsRef
    <3>1. Closed[j] = sock[j]
      BY <2>1 DEF Closed
    <3> QED
      BY <2>1, <3>1 DEF SocketKept, OneShell, SocketStates
  <2>2. CASE j = wsRef
    <3>1. Closed[j] = CASE sock[j] = "connecting" -> "dropping"
                        [] sock[j] = "open" -> "closing"
                        [] OTHER -> sock[j]
      BY <2>2 DEF Closed
    <3>2. CASE sock[j] = "connecting"
      <4>1. Closed[j] = "dropping"
        BY <3>1, <3>2
      <4> QED
        BY <4>1
    <3>3. CASE sock[j] = "open"
      <4>1. Closed[j] = "closing"
        BY <3>1, <3>3
      <4> QED
        BY <4>1
    <3>4. CASE sock[j] # "connecting" /\ sock[j] # "open"
      <4>1. Closed[j] = sock[j]
        BY <3>1, <3>4, Zenon
      <4> QED
        BY <3>4, <4>1 DEF SocketKept, SocketStates
    <3> QED
      BY <3>2, <3>3, <3>4
  <2> QED
    BY <2>1, <2>2
<1>2. Closed = [j \in Sockets |-> Closed[j]]
  BY DEF Closed
<1> QED
  BY <1>1, <1>2

LEMMA ConnectKeeps ==
  ASSUME SocketKept, ConnectWithoutToken \/ \E k \in Sockets : Connect(k),
         shellShown', UNCHANGED isConnected, ~isConnected
  PROVE  SocketKept'
<1>1. CASE ConnectWithoutToken
  <2>1. UNCHANGED <<sock, wsRef, overtaken>> /\ quietEnd'
    BY <1>1 DEF ConnectWithoutToken
  <2> QED
    BY <2>1 DEF SocketKept, OneShell
<1>2. ASSUME NEW k \in Sockets, Connect(k) PROVE SocketKept'
  <2>1. sock' = [Closed EXCEPT ![k] = "connecting"] /\ wsRef' = k /\ ~overtaken'
    BY <1>2 DEF Connect
  <2>2. sock' \in [Sockets -> SocketStates] /\ sock'[k] = "connecting"
        /\ \A j \in Sockets \ {k} : sock'[j] \in {"none", "closing", "dropping"}
    BY <2>1, ClosedIsQuiet DEF SocketStates
  <2>3. wsRef' \in Sockets /\ wsRef' # NoSocket /\ sock'[wsRef'] = "connecting"
    BY <2>1, <2>2, ShellAssumption
  <2> QED
    BY <2>1, <2>2, <2>3 DEF SocketKept, OneShell
<1> QED
  BY <1>1, <1>2

LEMMA SocketEventsKeep ==
  ASSUME SocketKept, NEW k \in Sockets,
         SocketOpens(k) \/ \E code \in {"none", "denied", "failed"} : SocketCloses(k, code)
  PROVE  SocketKept'
<1>1. CASE SocketOpens(k)
  <2>1. /\ sock[k] = "connecting" /\ sock' = [sock EXCEPT ![k] = "open"] /\ isConnected'
        /\ UNCHANGED <<shellShown, wsRef, shellError, overtaken, quietEnd>>
    BY <1>1 DEF SocketOpens
  <2>2. k = wsRef /\ shellShown /\ k # NoSocket
    BY <2>1, ShellAssumption DEF SocketKept, OneShell
  <2>3. sock' \in [Sockets -> SocketStates] /\ sock'[k] = "open"
        /\ \A j \in Sockets \ {k} : sock'[j] = sock[j]
    BY <2>1 DEF SocketKept, SocketStates
  <2> QED
    BY <2>1, <2>2, <2>3 DEF SocketKept, OneShell
<1>2. ASSUME NEW code \in {"none", "denied", "failed"}, SocketCloses(k, code) PROVE SocketKept'
  <2>1. /\ sock[k] # "none" /\ sock' = [sock EXCEPT ![k] = "none"] /\ ~isConnected'
        /\ shellError' = IF code = "none" THEN shellError ELSE code
        /\ UNCHANGED <<shellShown, wsRef>>
    BY <1>2 DEF SocketCloses
  <2>2. overtaken' <=> overtaken \/ (k # wsRef /\ sock[wsRef] = "open")
    <3>1. overtaken' = (overtaken \/ (k # wsRef /\ sock[wsRef] = "open"))
      BY <1>2 DEF SocketCloses
    <3> QED
      BY <3>1, Zenon
  <2>3. quietEnd' <=> quietEnd \/ (k = wsRef /\ code = "none")
    <3>1. quietEnd' = (quietEnd \/ (k = wsRef /\ code = "none"))
      BY <1>2 DEF SocketCloses
    <3> QED
      BY <3>1, Zenon
  <2>4. sock' \in [Sockets -> SocketStates] /\ sock'[k] = "none"
        /\ \A j \in Sockets \ {k} : sock'[j] = sock[j]
    BY <2>1 DEF SocketKept, SocketStates
  <2>5. wsRef # NoSocket
    BY <2>1 DEF SocketKept
  <2>6. CASE k = wsRef
    BY <2>1, <2>2, <2>3, <2>4, <2>5, <2>6 DEF SocketKept, OneShell
  <2>7. CASE k # wsRef
    BY <2>1, <2>2, <2>3, <2>4, <2>5, <2>7 DEF SocketKept, OneShell
  <2> QED
    BY <2>6, <2>7
<1> QED
  BY <1>1, <1>2

LEMMA PageOfShellKeeps ==
  ASSUME ShellInv, OpenShell \/ LeaveShell \/ Retry
  PROVE  ShellInv'
<1>1. CASE OpenShell
  <2>1. SocketKept'
    BY <1>1, ConnectKeeps DEF OpenShell, ShellInv, SocketKept
  <2> QED
    BY <1>1, <2>1 DEF OpenShell, ShellInv, TabsKept, AnswerKept
<1>2. CASE Retry
  <2>1. SocketKept'
    BY <1>2, ConnectKeeps DEF Retry, ShellInv
  <2> QED
    BY <1>2, <2>1 DEF Retry, ShellInv, TabsKept, AnswerKept
<1>3. CASE LeaveShell
  <2>1. Closed \in [Sockets -> {"none", "closing", "dropping"}]
    BY ClosedIsQuiet DEF ShellInv
  <2>2. \A k \in Sockets : sock'[k] = "none"
    BY <1>3, <2>1 DEF LeaveShell, Disconnect
  <2>3. SocketKept'
    BY <1>3, <2>2 DEF LeaveShell, Disconnect, SocketKept, OneShell, SocketStates
  <2>4. TabsKept' /\ AnswerKept'
    BY <1>3 DEF LeaveShell, ShellInv, TabsKept, AnswerKept
  <2> QED
    BY <2>3, <2>4 DEF ShellInv
<1> QED
  BY <1>1, <1>2, <1>3

LEMMA TabsKeep ==
  ASSUME ShellInv, CreateSession \/ \E id \in Tabs : CloseSession(id) \/ ShowSession(id)
  PROVE  ShellInv'
<1> DEFINE n == Len(sessions)
<1>1. n \in Nat /\ sessions \in Seq(Nat) /\ DOMAIN sessions = 1..n
  BY DEF ShellInv, TabsKept
<1>2. SocketKept'
  BY DEF ShellInv, SocketKept, OneShell, CreateSession, CloseSession, ShowSession
<1>3. CASE CreateSession
  <2>1. sessions' = Append(sessions, nextIdRef) /\ activeSessionId' = nextIdRef
        /\ nextIdRef' = nextIdRef + 1 /\ UNCHANGED <<unanswered, astray>>
    BY <1>3 DEF CreateSession
  <2>2. switched' <=> switched \/ unanswered # 0
    <3>1. switched' = (switched \/ unanswered # 0)
      BY <1>3 DEF CreateSession
    <3> QED
      BY <3>1, Zenon
  <2>3. PICK m \in Nat : nextIdRef = m
    BY DEF ShellInv, TabsKept
  <2>4. /\ sessions' \in Seq(Nat) /\ Len(sessions') = n + 1 /\ sessions'[n + 1] = m
        /\ \A i \in 1..n : sessions'[i] = sessions[i] /\ sessions[i] < m /\ sessions[i] \in Nat
    BY <1>1, <2>1, <2>3 DEF ShellInv, TabsKept
  <2>5. /\ \A i \in 1..(n + 1) : sessions'[i] < m + 1
        /\ \A i, j \in 1..(n + 1) : sessions'[i] = sessions'[j] => i = j
    <3>1. \A i \in 1..(n + 1) : i \in 1..n \/ i = n + 1
      BY <1>1
    <3>2. \A i, j \in 1..n : sessions[i] = sessions[j] => i = j
      BY DEF ShellInv, TabsKept
    <3>3. ASSUME NEW i \in 1..(n + 1) PROVE sessions'[i] < m + 1
      BY <2>4, <3>1, <3>3
    <3>4. ASSUME NEW i \in 1..(n + 1), NEW j \in 1..(n + 1), sessions'[i] = sessions'[j] PROVE i = j
      <4>1. CASE i \in 1..n /\ j \in 1..n
        BY <2>4, <3>2, <3>4, <4>1
      <4>2. CASE i \in 1..n /\ j = n + 1
        BY <2>4, <3>4, <4>2
      <4>3. CASE i = n + 1 /\ j \in 1..n
        BY <2>4, <3>4, <4>3
      <4> QED
        BY <3>1, <4>1, <4>2, <4>3
    <3> QED
      BY <3>3, <3>4
  <2>6. TabsKept'
    BY <1>1, <2>1, <2>3, <2>4, <2>5 DEF TabsKept
  <2>7. AnswerKept'
    BY <2>1, <2>2 DEF ShellInv, AnswerKept
  <2> QED
    BY <1>2, <2>6, <2>7 DEF ShellInv
<1>4. ASSUME NEW id \in Tabs, CloseSession(id) PROVE ShellInv'
  <2>1. PICK i \in 1..n : sessions[i] = id /\ sessions' = RemoveAt(sessions, i)
    BY <1>1, <1>4 DEF CloseSession
  <2>2. n > 1 /\ activeSessionId' = (IF activeSessionId = id THEN Last(sessions') ELSE activeSessionId)
        /\ UNCHANGED <<nextIdRef, unanswered, astray>>
    BY <1>4 DEF CloseSession
  <2>3. switched' <=> switched \/ unanswered = id
    <3>1. switched' = (switched \/ (unanswered = id))
      BY <1>4 DEF CloseSession
    <3> QED
      BY <3>1, Zenon
  <2>4. /\ sessions' \in Seq(Nat) /\ Len(sessions') = n - 1
        /\ \A j \in 1..(n - 1) : sessions'[j] = IF j < i THEN sessions[j] ELSE sessions[j + 1]
    <3>1. sessions \in Seq(Nat) /\ i \in 1..Len(sessions)
      BY <1>1
    <3>2. /\ RemoveAt(sessions, i) \in Seq(Nat) /\ Len(RemoveAt(sessions, i)) = Len(sessions) - 1
          /\ \A j \in 1..(Len(sessions) - 1) :
               RemoveAt(sessions, i)[j] = IF j < i THEN sessions[j] ELSE sessions[j + 1]
      BY <3>1, RemoveAtEffect
    <3> QED
      BY <2>1, <3>2
  <2>5. \A j \in 1..(n - 1) : \E k \in 1..n : sessions'[j] = sessions[k] /\ k = IF j < i THEN j ELSE j + 1
    BY <1>1, <2>2, <2>4
  <2>6. /\ \A j \in 1..(n - 1) : sessions'[j] < nextIdRef
        /\ \A j, k \in 1..(n - 1) : sessions'[j] = sessions'[k] => j = k
    <3>1. ASSUME NEW j \in 1..(n - 1) PROVE sessions'[j] < nextIdRef
      BY <2>5 DEF ShellInv, TabsKept
    <3>2. ASSUME NEW j \in 1..(n - 1), NEW k \in 1..(n - 1), sessions'[j] = sessions'[k] PROVE j = k
      <4>1. PICK a \in 1..n : sessions'[j] = sessions[a] /\ a = IF j < i THEN j ELSE j + 1
        BY <2>5
      <4>2. PICK b \in 1..n : sessions'[k] = sessions[b] /\ b = IF k < i THEN k ELSE k + 1
        BY <2>5
      <4>3. a = b
        BY <3>2, <4>1, <4>2 DEF ShellInv, TabsKept
      <4> QED
        BY <1>1, <4>1, <4>2, <4>3
    <3> QED
      BY <3>1, <3>2
  <2>7. \E j \in 1..(n - 1) : sessions'[j] = activeSessionId'
    <3>1. CASE activeSessionId = id
      <4>1. activeSessionId' = sessions'[n - 1]
        BY <2>2, <2>4, <3>1 DEF Last
      <4> QED
        BY <1>1, <2>2, <4>1
    <3>2. CASE activeSessionId # id
      <4>1. PICK k \in 1..n : sessions[k] = activeSessionId
        BY <1>1, <2>2 DEF ShellInv, TabsKept
      <4>2. k # i /\ activeSessionId' = activeSessionId
        BY <2>1, <2>2, <3>2, <4>1
      <4>3. CASE k < i
        <5>1. k \in 1..(n - 1)
          BY <1>1, <4>3
        <5> QED
          BY <2>4, <4>1, <4>2, <4>3, <5>1
      <4>4. CASE k > i
        <5>1. k - 1 \in 1..(n - 1) /\ ~(k - 1 < i) /\ (k - 1) + 1 = k
          BY <1>1, <4>4
        <5>2. sessions'[k - 1] = sessions[k]
          BY <2>4, <5>1
        <5> QED
          BY <4>1, <4>2, <5>1, <5>2
      <4> QED
        BY <1>1, <4>2, <4>3, <4>4
    <3> QED
      BY <3>1, <3>2
  <2>8. TabsKept'
    BY <2>2, <2>4, <2>6, <2>7 DEF ShellInv, TabsKept
  <2>9. AnswerKept'
    BY <2>2, <2>3 DEF ShellInv, AnswerKept
  <2> QED
    BY <1>2, <2>8, <2>9 DEF ShellInv
<1>5. ASSUME NEW id \in Tabs, ShowSession(id) PROVE ShellInv'
  <2>1. activeSessionId' = id /\ UNCHANGED <<sessions, nextIdRef, unanswered, astray>>
    BY <1>5 DEF ShowSession
  <2>2. switched' <=> switched \/ unanswered # 0
    <3>1. switched' = (switched \/ unanswered # 0)
      BY <1>5 DEF ShowSession
    <3> QED
      BY <3>1, Zenon
  <2>3. TabsKept'
    BY <1>1, <2>1 DEF ShellInv, TabsKept, Tabs
  <2>4. AnswerKept'
    BY <2>1, <2>2 DEF ShellInv, AnswerKept
  <2> QED
    BY <1>2, <2>3, <2>4 DEF ShellInv
<1> QED
  BY <1>3, <1>4, <1>5

LEMMA ShellInvNext == ASSUME ShellInv, [ShellNext]_shellVars PROVE ShellInv'
<1>1. ASSUME NEW k \in Sockets, SocketOpens(k) \/ \E code \in {"none", "denied", "failed"} : SocketCloses(k, code)
      PROVE  ShellInv'
  <2>1. SocketKept'
    BY <1>1, SocketEventsKeep DEF ShellInv
  <2>2. /\ UNCHANGED <<sessions, activeSessionId, nextIdRef, switched, astray>>
        /\ unanswered' = unanswered \/ unanswered' = 0
    BY <1>1 DEF SocketOpens, SocketCloses
  <2> QED
    BY <2>1, <2>2 DEF ShellInv, TabsKept, AnswerKept
<1>2. CASE TypeIn
  BY <1>2 DEF TypeIn, ShellInv, SocketKept, OneShell, TabsKept, AnswerKept
<1>3. CASE Output
  <2>1. /\ UNCHANGED <<shellShown, sock, wsRef, isConnected, shellError, sessions, activeSessionId, nextIdRef,
                       overtaken, quietEnd>>
        /\ unanswered # 0 /\ unanswered' = 0
    BY <1>3 DEF Output
  <2>2. astray' <=> astray \/ (unanswered # activeSessionId /\ ~switched)
    <3>1. astray' = (astray \/ (unanswered # activeSessionId /\ ~switched))
      BY <1>3 DEF Output
    <3> QED
      BY <3>1, Zenon
  <2>3. AnswerKept'
    BY <2>1, <2>2 DEF ShellInv, AnswerKept
  <2> QED
    BY <2>1, <2>3 DEF ShellInv, SocketKept, OneShell, TabsKept
<1>4. CASE UNCHANGED shellVars
  BY <1>4 DEF shellVars, ShellInv, SocketKept, OneShell, TabsKept, AnswerKept
<1> QED
  BY <1>1, <1>2, <1>3, <1>4, PageOfShellKeeps, TabsKeep DEF ShellNext

-----------------------------------------------------------------------------
(* LogTail, for any sockets.                                                *)

\* A socket was opened for what the effect wanted when it ran last, and since then only a
\* render can have changed that; outside of the page nothing is left of it.
TailInv ==
  /\ DOMAIN tail = Tails /\ tailRef \in Tails \cup {NoTail}
  /\ \A v \in {logPage, liveMode, reading, token, following, wanted, renewed, reconnecting} : v \in BOOLEAN
  /\ ~logPage => tailRef = NoTail /\ ~following /\ ~renewed /\ ~reconnecting /\ ~reading
  /\ tailRef # NoTail => wanted
  /\ logPage /\ ~renewed => (wanted <=> liveMode /\ token)
  /\ reconnecting => wanted
  /\ LogTailIsTrue

LEMMA TailInvNext == ASSUME TailInv, [LogTailNext]_logTailVars PROVE TailInv'
<1> USE NoTailAssumption
<1>1. \A k \in Tails : tailRef = NoTail => tail[k] = "none"
  BY DEF TailInv, LogTailIsTrue, OneTail
<1>2. CASE RunEffect
  <2>1. DOMAIN Dropped = Tails /\ \A k \in Tails : Dropped[k] = "none"
    BY DEF Dropped, TailInv, LogTailIsTrue, OneTail
  <2>2. wanted' \in BOOLEAN /\ ConnectTail(Dropped, wanted') /\ (wanted' <=> liveMode /\ token)
    BY <1>2 DEF RunEffect
  <2>3. /\ DOMAIN tail' = Tails /\ tailRef' \in Tails \cup {NoTail}
        /\ tailRef' # NoTail <=> wanted'
        /\ \A k \in Tails : tail'[k] # "none" => k = tailRef'
    BY <2>1, <2>2 DEF ConnectTail
  <2> QED
    BY <1>2, <2>2, <2>3 DEF RunEffect, TailInv, LogTailIsTrue, OneTail, TailComesBack, TailIsFleeting
<1>3. ASSUME NEW k \in Tails, TailOpens(k) PROVE TailInv'
  <2>1. DOMAIN tail' = Tails /\ \A j \in Tails : tail'[j] # "none" => tail[j] # "none"
    BY <1>3 DEF TailOpens, TailInv
  <2>2. k = tailRef /\ logPage
    BY <1>3 DEF TailOpens, TailInv, LogTailIsTrue, OneTail
  <2> QED
    BY <1>3, <2>1, <2>2 DEF TailOpens, TailInv, LogTailIsTrue, OneTail, TailComesBack, TailIsFleeting
<1>4. ASSUME NEW k \in Tails, TailEnds(k) PROVE TailInv'
  <2>1. k = tailRef /\ logPage /\ wanted
    BY <1>4 DEF TailEnds, TailInv, LogTailIsTrue, OneTail
  <2>2. DOMAIN tail' = Tails /\ \A j \in Tails : tail'[j] = "none"
    BY <1>4, <2>1 DEF TailEnds, TailInv, LogTailIsTrue, OneTail
  <2> QED
    BY <1>4, <2>1, <2>2 DEF TailEnds, TailInv, LogTailIsTrue, OneTail, TailComesBack, TailIsFleeting
<1>5. CASE ReconnectTail
  <2>1. CASE tailRef # NoTail
    BY <1>5, <2>1 DEF ReconnectTail, TailInv, LogTailIsTrue, OneTail, TailComesBack, TailIsFleeting
  <2>2. CASE tailRef = NoTail
    <3>1. /\ DOMAIN tail' = Tails /\ tailRef' \in Tails
          /\ \A k \in Tails : tail'[k] # "none" => k = tailRef'
      BY <1>1, <1>5, <2>2 DEF ReconnectTail, ConnectTail, TailInv
    <3> QED
      BY <1>5, <2>2, <3>1 DEF ReconnectTail, TailInv, LogTailIsTrue, OneTail, TailComesBack, TailIsFleeting
  <2> QED
    BY <2>1, <2>2
<1>6. CASE OpenLogs
  BY <1>6 DEF OpenLogs, TailInv, LogTailIsTrue, OneTail, TailComesBack, TailIsFleeting
<1>7. CASE LeaveLogs
  <2>1. DOMAIN tail' = Tails /\ \A k \in Tails : tail'[k] = "none"
    BY <1>7 DEF LeaveLogs, Dropped, TailInv, LogTailIsTrue, OneTail
  <2> QED
    BY <1>7, <2>1 DEF LeaveLogs, TailInv, LogTailIsTrue, OneTail, TailComesBack, TailIsFleeting
<1>8. ASSUME NEW v \in BOOLEAN, ReadLogs(v) \/ SetLive(v) \/ SetAutoRefresh(v) \/ SetToken(v) PROVE TailInv'
  <2>1. /\ UNCHANGED <<tail, tailRef, following, wanted, reconnecting, logPage>> /\ renewed' = logPage
        /\ liveMode' \in BOOLEAN /\ token' \in BOOLEAN
        /\ reading' \in BOOLEAN /\ (reading' => reading \/ logPage)
    BY <1>8 DEF ReadLogs, SetLive, SetAutoRefresh, SetToken, TailInv
  <2> QED
    BY <2>1 DEF TailInv, LogTailIsTrue, OneTail, TailComesBack, TailIsFleeting
<1>9. CASE LogsRead
  BY <1>9 DEF LogsRead, TailInv, LogTailIsTrue, OneTail, TailComesBack, TailIsFleeting
<1>10. CASE UNCHANGED logTailVars
  BY <1>10 DEF logTailVars, TailInv, LogTailIsTrue, OneTail, TailComesBack, TailIsFleeting
<1> QED
  BY <1>2, <1>3, <1>4, <1>5, <1>6, <1>7, <1>8, <1>9, <1>10 DEF LogTailNext

LEMMA TailInvFacts == /\ LogTailInit => TailInv
                      /\ TailInv => LogTailIsTrue
BY DEF LogTailInit, TailInv, LogTailIsTrue, OneTail, TailComesBack, TailIsFleeting

-----------------------------------------------------------------------------
(* The views that tell what they know of, together.                         *)

TrueInv == GaugesInv /\ TalkInv /\ ShellInv /\ TailInv

LEMMA TrueInvNext == ASSUME TrueInv, [ScreensNext]_screensVars PROVE TrueInv'
<1>1. /\ [GaugesNext]_gaugeVars /\ [AssistantNext]_assistantVars
      /\ [ShellNext]_shellVars /\ [LogTailNext]_logTailVars
  BY DEF ScreensNext, screensVars
<1> QED
  BY <1>1, GaugesInvNext, TalkInvNext, ShellInvNext, TailInvNext DEF TrueInv

\* A view does not say what is not so: the overviews of the nodes agree on a cluster that
\* they call operative, a conversation is that of the guest on screen, the badge of a
\* terminal is that of its one shell, and a live tail runs when it is asked for.  For any
\* finite set of hosts and any guests, conversations, sockets and bounds.
THEOREM ViewsSayWhatIs == ScreensSpec => []ViewsAreTrue
<1>1. ScreensInit => TrueInv
  BY GaugesInvFacts, TalkInvFacts, ShellInvFacts, TailInvFacts DEF ScreensInit, TrueInv
<1>2. TrueInv /\ [ScreensNext]_screensVars => TrueInv'
  BY TrueInvNext
<1>3. TrueInv => ViewsAreTrue
  BY GaugesInvFacts, TalkInvFacts, ShellInvFacts, TailInvFacts DEF TrueInv, ViewsAreTrue
<1> QED
  BY <1>1, <1>2, <1>3, PTL DEF ScreensSpec

\* A behaviour of the screens is one of the lists and of the forms, so that what is proved of
\* them holds there.
THEOREM ListsAndFormsKeepTheirPromises ==
  ScreensSpec => /\ [](QuietScreenIsOfItsSubject /\ QuietScreenIsCurrent) /\ ActsOnItsRows
                 /\ [](SubmitsForItsTarget /\ EditsAreKept)
<1>1. ScreensInit => ListInit /\ FormInit
  BY DEF ScreensInit
<1>2. [ScreensNext]_screensVars => [ListNext]_listVars /\ [FormNext]_formVars
  BY Zenon DEF ScreensNext, screensVars
<1>3. ScreensSpec => ListSpec /\ FormSpec
  BY <1>1, <1>2, PTL DEF ScreensSpec, ListSpec, FormSpec
<1> QED
  BY <1>3, RowsOfItsSubject, RowsKeepUp, ChangesItsRows, SubmitsAreMeant, NoEditIsLost, PTL

-----------------------------------------------------------------------------
(* RowOrder, for any rows: what an arrangement of some of the places is.    *)

StrictOrder(I, ahead) ==
  /\ \A i \in I : <<i, i>> \notin ahead
  /\ \A i, j \in I : i # j => <<i, j>> \in ahead \/ <<j, i>> \in ahead
  /\ \A i, j, k \in I : <<i, j>> \in ahead /\ <<j, k>> \in ahead => <<i, k>> \in ahead

\* The places of I by their numbers in the arrangement.
Numbering(p, I, ahead) ==
  /\ p \in [1..Cardinality(I) -> I]
  /\ \A k, l \in 1..Cardinality(I) : k < l => <<p[k], p[l]>> \in ahead
  /\ \A k, l \in 1..Cardinality(I) : p[k] = p[l] => k = l
  /\ \A i \in I : \E k \in 1..Cardinality(I) : p[k] = i

RankIn(I, ahead) == [i \in I |-> Cardinality({j \in I : <<j, i>> \in ahead})]

\* Places have as many before them as their rank says, each a different number.
LEMMA RanksAreNumbers ==
  ASSUME NEW I, IsFiniteSet(I), NEW ahead, StrictOrder(I, ahead)
  PROVE  LET rank == RankIn(I, ahead) IN
         /\ rank \in [I -> 0..(Cardinality(I) - 1)]
         /\ \A i, j \in I : <<i, j>> \in ahead => rank[i] < rank[j]
         /\ \A m \in 0..(Cardinality(I) - 1) : \E i \in I : rank[i] = m
<1> DEFINE n == Cardinality(I)
           rank == RankIn(I, ahead)
           Before(i) == {j \in I : <<j, i>> \in ahead}
<1>1. n \in Nat
  BY FS_CardinalityType
<1>2. ASSUME NEW i \in I
      PROVE  IsFiniteSet(Before(i)) /\ Cardinality(Before(i)) \in 0..(n - 1) /\ rank[i] = Cardinality(Before(i))
  <2>1. Before(i) \in SUBSET (I \ {i})
    BY DEF StrictOrder
  <2>2. IsFiniteSet(I \ {i}) /\ Cardinality(I \ {i}) = n - 1
    BY FS_RemoveElement
  <2>3. IsFiniteSet(Before(i)) /\ Cardinality(Before(i)) <= n - 1
    <3> DEFINE B == Before(i)
               R == I \ {i}
    <3>1. B \in SUBSET R /\ IsFiniteSet(R) /\ Cardinality(R) = n - 1
      BY <2>1, <2>2
    <3> HIDE DEF B, R, n
    <3>2. IsFiniteSet(B) /\ Cardinality(B) <= Cardinality(R)
      BY <3>1, FS_Subset
    <3>3. IsFiniteSet(B) /\ Cardinality(B) <= n - 1
      BY <3>1, <3>2
    <3> QED
      BY <3>3 DEF B
  <2>4. Cardinality(Before(i)) \in Nat
    BY <2>3, FS_CardinalityType
  <2>5. rank[i] = Cardinality(Before(i))
    BY DEF RankIn
  <2> QED
    BY <1>1, <2>3, <2>4, <2>5
<1>3. ASSUME NEW i \in I, NEW j \in I, <<i, j>> \in ahead PROVE rank[i] < rank[j]
  <2>1. Before(i) \in SUBSET Before(j)
    BY <1>3 DEF StrictOrder
  <2>2. i \in Before(j) /\ i \notin Before(i)
    BY <1>3 DEF StrictOrder
  <2>3. IsFiniteSet(Before(j)) /\ Cardinality(Before(i)) \in Nat /\ Cardinality(Before(j)) \in Nat
    <3> HIDE DEF Before
    <3> QED
      BY <1>1, <1>2
  <2>4. Cardinality(Before(i)) <= Cardinality(Before(j)) /\ Cardinality(Before(i)) # Cardinality(Before(j))
    <3> HIDE DEF Before
    <3> QED
      BY <2>1, <2>2, <2>3, FS_Subset
  <2>5. rank[i] = Cardinality(Before(i)) /\ rank[j] = Cardinality(Before(j))
    BY <1>2
  <2> HIDE DEF Before
  <2> QED
    BY <2>3, <2>4, <2>5
<1> HIDE DEF Before
<1>4. rank \in [I -> 0..(n - 1)]
  <2>1. rank = [i \in I |-> rank[i]]
    BY DEF RankIn
  <2> HIDE DEF rank
  <2> QED
    BY <1>2, <2>1
<1>5. \A i, j \in I : rank[i] = rank[j] => i = j
  <2>1. ASSUME NEW i \in I, NEW j \in I, rank[i] = rank[j], i # j PROVE FALSE
    <3>1. rank[i] < rank[j] \/ rank[j] < rank[i]
      BY <1>3, <2>1 DEF StrictOrder
    <3>2. rank[i] \in 0..(n - 1) /\ rank[j] \in 0..(n - 1)
      BY <1>4
    <3> QED
      BY <1>1, <2>1, <3>1, <3>2
  <2> QED
    BY <2>1
<1>6. rank \in Injection(I, 0..(n - 1))
  BY <1>4, <1>5 DEF Injection, IsInjective
<1>7. IsFiniteSet(0..(n - 1)) /\ Cardinality(0..(n - 1)) = n
  BY <1>1, FS_Interval
<1>8. rank \in Surjection(I, 0..(n - 1))
  BY <1>6, <1>7, FS_Injection
<1> QED
  BY <1>3, <1>4, <1>8 DEF Surjection

\* Some numbering of the places says which row stands where; the same by single rows.
IsArranged(s, I, ahead) ==
  \E p : Numbering(p, I, ahead) /\ Arrange(s, I, ahead) = [k \in 1..Cardinality(I) |-> s[p[k]]]

HasPlaces(s, I, ahead) ==
  \E p : Numbering(p, I, ahead) /\ \A k \in 1..Cardinality(I) : Arrange(s, I, ahead)[k] = s[p[k]]

LEMMA ArrangeEffect ==
  ASSUME NEW s, NEW I, IsFiniteSet(I), NEW ahead, StrictOrder(I, ahead)
  PROVE  IsArranged(s, I, ahead)
<1> DEFINE n == Cardinality(I)
           rank == RankIn(I, ahead)
           p == [k \in 1..n |-> CHOOSE i \in I : rank[i] = k - 1]
<1>1. n \in Nat
  BY FS_CardinalityType
<1>2. /\ rank \in [I -> 0..(n - 1)]
      /\ \A i, j \in I : <<i, j>> \in ahead => rank[i] < rank[j]
      /\ \A m \in 0..(n - 1) : \E i \in I : rank[i] = m
  BY RanksAreNumbers
<1>3. Arrange(s, I, ahead) = [k \in 1..n |-> s[p[k]]]
  BY DEF Arrange, RankIn
<1> HIDE DEF rank
<1>4. ASSUME NEW k \in 1..n PROVE p[k] \in I /\ rank[p[k]] = k - 1
  <2>1. k - 1 \in 0..(n - 1)
    BY <1>1
  <2>2. \E i \in I : rank[i] = k - 1
    BY <1>2, <2>1
  <2> QED
    BY <2>2
<1> HIDE DEF p
<1>5. p \in [1..n -> I]
  <2>1. p = [k \in 1..n |-> p[k]]
    BY DEF p
  <2> QED
    BY <1>4, <2>1
<1>6. ASSUME NEW k \in 1..n, NEW l \in 1..n, k < l PROVE <<p[k], p[l]>> \in ahead
  <2>1. rank[p[k]] < rank[p[l]] /\ ~(rank[p[l]] < rank[p[k]])
    BY <1>1, <1>4, <1>6
  <2>2. p[k] \in I /\ p[l] \in I /\ p[k] # p[l]
    BY <1>4, <2>1
  <2>3. ~(<<p[l], p[k]>> \in ahead)
    BY <1>2, <2>1, <2>2
  <2> QED
    BY <2>2, <2>3 DEF StrictOrder
<1>7. \A k, l \in 1..n : p[k] = p[l] => k = l
  BY <1>1, <1>4
<1>8. ASSUME NEW i \in I PROVE \E k \in 1..n : p[k] = i
  <2>1. PICK m \in 0..(n - 1) : rank[i] = m
    BY <1>2
  <2>2. m + 1 \in 1..n /\ (m + 1) - 1 = m
    BY <1>1
  <2>3. p[m + 1] \in I /\ rank[p[m + 1]] = m
    BY <1>4, <2>2
  <2>4. ASSUME p[m + 1] # i PROVE FALSE
    <3>1. rank[p[m + 1]] < rank[i] \/ rank[i] < rank[p[m + 1]]
      BY <1>2, <2>3, <2>4 DEF StrictOrder
    <3> QED
      BY <1>1, <2>1, <2>3, <3>1
  <2> QED
    BY <2>2, <2>4
<1>9. Numbering(p, I, ahead)
  BY <1>5, <1>6, <1>7, <1>8 DEF Numbering
<1> QED
  BY <1>3, <1>9 DEF IsArranged

LEMMA ArrangedRows ==
  ASSUME NEW S, NEW s \in Seq(S), NEW I \in SUBSET (DOMAIN s), NEW ahead, StrictOrder(I, ahead)
  PROVE  LET res == Arrange(s, I, ahead) IN
         /\ res \in Seq(S) /\ Len(res) = Cardinality(I) /\ Len(res) \in Nat
         /\ \A k \in DOMAIN res : \E i \in I : res[k] = s[i]
         /\ \A i \in I : \E k \in DOMAIN res : res[k] = s[i]
         /\ IsSet(s) => IsSet(res)
<1> DEFINE n == Cardinality(I)
           res == Arrange(s, I, ahead)
<1>1. IsFiniteSet(I) /\ n \in Nat
  <2>1. Len(s) \in Nat /\ DOMAIN s = 1..Len(s)
    OBVIOUS
  <2>2. IsFiniteSet(1..Len(s))
    BY <2>1, FS_Interval
  <2>3. IsFiniteSet(I)
    BY <2>1, <2>2, FS_Subset
  <2> QED
    BY <2>3, FS_CardinalityType
<1>2. PICK p : Numbering(p, I, ahead) /\ res = [k \in 1..n |-> s[p[k]]]
  <2>1. IsArranged(s, I, ahead)
    BY <1>1, ArrangeEffect
  <2> QED
    BY <2>1 DEF IsArranged
<1>3. /\ p \in [1..n -> I]
      /\ \A k, l \in 1..n : p[k] = p[l] => k = l
      /\ \A i \in I : \E k \in 1..n : p[k] = i
  BY <1>2 DEF Numbering
<1> HIDE DEF res, n
<1>4. \A k \in 1..n : p[k] \in I /\ s[p[k]] \in S
  BY <1>3
<1>5. res \in Seq(S) /\ Len(res) = n /\ DOMAIN res = 1..n
  BY <1>1, <1>2, <1>4
<1>6. \A k \in 1..n : res[k] = s[p[k]]
  BY <1>2
<1>7. /\ \A k \in DOMAIN res : \E i \in I : res[k] = s[i]
      /\ \A i \in I : \E k \in DOMAIN res : res[k] = s[i]
  <2>1. DOMAIN res = 1..n
    BY <1>5
  <2>2. ASSUME NEW k \in 1..n PROVE \E i \in I : res[k] = s[i]
    BY <1>4, <1>6, Zenon
  <2>3. ASSUME NEW i \in I PROVE \E k \in 1..n : res[k] = s[i]
    <3>1. PICK k \in 1..n : p[k] = i
      BY <1>3
    <3>2. res[k] = s[i]
      BY <1>6, <3>1
    <3> QED
      BY <3>2
  <2> QED
    BY <2>1, <2>2, <2>3, Zenon
<1>8. ASSUME IsSet(s) PROVE IsSet(res)
  <2>1. ASSUME NEW k \in 1..n, NEW l \in 1..n, k # l PROVE res[k] # res[l]
    <3>1. p[k] # p[l] /\ p[k] \in DOMAIN s /\ p[l] \in DOMAIN s
      BY <1>3, <2>1
    <3> QED
      BY <1>6, <1>8, <3>1 DEF IsSet
  <2> QED
    BY <1>5, <2>1 DEF IsSet
<1> QED
  BY <1>1, <1>5, <1>7, <1>8 DEF res, n

LEMMA PlacesInOrder == ASSUME NEW I \in SUBSET Int PROVE StrictOrder(I, {e \in I \X I : e[1] < e[2]})
BY DEF StrictOrder

\* A filter: the same rows, without repetitions if there were none.
LEMMA KeptRows ==
  ASSUME NEW S, NEW s \in Seq(S), NEW I \in SUBSET (DOMAIN s)
  PROVE  LET res == Kept(s, I) IN
         /\ res \in Seq(S)
         /\ \A k \in DOMAIN res : \E i \in I : res[k] = s[i]
         /\ \A i \in I : \E k \in DOMAIN res : res[k] = s[i]
         /\ IsSet(s) => IsSet(res)
<1> DEFINE ahead == {e \in I \X I : e[1] < e[2]}
<1>1. StrictOrder(I, ahead)
  BY PlacesInOrder
<1>2. Kept(s, I) = Arrange(s, I, ahead)
  BY DEF Kept
<1> HIDE DEF ahead
<1> QED
  BY <1>1, <1>2, ArrangedRows

\* A smallest element: it comes first in the arrangement of those up to some other one.
LEMMA MinOfPlaces ==
  ASSUME NEW T \in SUBSET Nat, T # {}
  PROVE  Min(T) \in T /\ \A y \in T : Min(T) <= y
<1>1. PICK t \in T : TRUE
  OBVIOUS
<1> DEFINE I == {x \in T : x <= t}
           ahead == {e \in I \X I : e[1] < e[2]}
           n == Cardinality(I)
<1>2. IsFiniteSet(I) /\ n \in Nat /\ n # 0
  <2>1. IsFiniteSet(I)
    BY <1>1, FS_BoundedSetOfNaturals
  <2>2. I # {}
    BY <1>1
  <2> QED
    BY <2>1, <2>2, FS_CardinalityType, FS_EmptySet
<1>3. StrictOrder(I, ahead)
  BY PlacesInOrder
<1>4. PICK p : Numbering(p, I, ahead)
  <2>1. IsArranged(<<>>, I, ahead)
    BY <1>2, <1>3, ArrangeEffect
  <2> QED
    BY <2>1 DEF IsArranged
<1>5. p[1] \in I /\ \A x \in I : p[1] <= x
  <2>1. 1 \in 1..n /\ p[1] \in I
    BY <1>2, <1>4 DEF Numbering
  <2>2. ASSUME NEW x \in I PROVE p[1] <= x
    <3>1. PICK k \in 1..n : p[k] = x
      BY <1>4 DEF Numbering
    <3>2. k = 1 \/ <<p[1], p[k]>> \in ahead
      BY <1>2, <1>4, <2>1 DEF Numbering
    <3>3. p[k] \in Nat /\ p[1] \in Nat
      BY <2>1, <3>1
    <3> QED
      BY <2>1, <3>1, <3>2, <3>3
  <2> QED
    BY <2>1, <2>2
<1>6. p[1] \in T /\ \A y \in T : p[1] <= y
  <2>1. p[1] \in T /\ p[1] <= t
    BY <1>1, <1>5
  <2>2. ASSUME NEW y \in T PROVE p[1] <= y
    <3>1. y \in Nat /\ t \in Nat /\ p[1] \in Nat
      BY <2>1
    <3>2. CASE y \in I
      <4> HIDE DEF I
      <4> QED
        BY <1>5, <3>2
    <3>3. CASE ~(y <= t)
      BY <2>1, <3>1, <3>3
    <3> QED
      BY <3>2, <3>3
  <2> QED
    BY <2>1, <2>2
<1>7. \E x \in T : \A y \in T : x <= y
  BY <1>6
<1> QED
  BY <1>7 DEF Min

\* A sort by score: no row scores more than one before it.
LEMMA RankedRows ==
  ASSUME NEW S, NEW s \in Seq(S), NEW match,
         \A i \in DOMAIN s : match[s[i].id] \in DOMAIN ScoreOf
  PROVE  LET res == Ranked(s, match) IN
         /\ res \in Seq(S)
         /\ \A k \in DOMAIN res : \E i \in DOMAIN s : res[k] = s[i]
         /\ \A k, l \in DOMAIN res : k < l => ScoreOf[match[res[k].id]] >= ScoreOf[match[res[l].id]]
         /\ IsSet(s) => IsSet(res)
<1> DEFINE score(i) == ScoreOf[match[s[i].id]]
           Ahead(i, j) == score(i) > score(j) \/ (score(i) = score(j) /\ i < j)
           I == {i \in DOMAIN s : score(i) > 0}
           ahead == {e \in I \X I : Ahead(e[1], e[2])}
           res == Ranked(s, match)
<1>1. res = Arrange(s, I, ahead)
  BY DEF Ranked
<1>2. \A i \in DOMAIN s : score(i) \in Nat
  BY DEF ScoreOf
<1> HIDE DEF score
<1>3. I \in SUBSET (DOMAIN s) /\ I \in SUBSET Nat
  OBVIOUS
<1>4. \A i, j \in I : <<i, j>> \in ahead <=> Ahead(i, j)
  OBVIOUS
<1>5. StrictOrder(I, ahead)
  <2>1. \A i \in I : score(i) \in Nat /\ i \in Nat
    BY <1>2, <1>3
  <2> HIDE DEF I, ahead
  <2> QED
    BY <1>4, <2>1 DEF StrictOrder
<1>6. IsFiniteSet(I)
  <2>1. Len(s) \in Nat /\ DOMAIN s = 1..Len(s)
    OBVIOUS
  <2>2. IsFiniteSet(1..Len(s))
    BY <2>1, FS_Interval
  <2> HIDE DEF I
  <2> QED
    BY <1>3, <2>1, <2>2, FS_Subset
<1> HIDE DEF I, ahead, res
<1>7. PICK p : Numbering(p, I, ahead) /\ res = [k \in 1..Cardinality(I) |-> s[p[k]]]
  <2>1. IsFiniteSet(I) /\ StrictOrder(I, ahead)
    BY <1>5, <1>6
  <2>2. IsArranged(s, I, ahead)
    BY <2>1, ArrangeEffect
  <2> QED
    BY <1>1, <2>2 DEF IsArranged
<1>8. ASSUME NEW k \in DOMAIN res, NEW l \in DOMAIN res, k < l
      PROVE  ScoreOf[match[res[k].id]] >= ScoreOf[match[res[l].id]]
  <2>1. res[k] = s[p[k]] /\ res[l] = s[p[l]] /\ p[k] \in I /\ p[l] \in I /\ <<p[k], p[l]>> \in ahead
    BY <1>7, <1>8 DEF Numbering
  <2>2. score(p[k]) \in Nat /\ score(p[l]) \in Nat
    BY <1>2, <1>3, <2>1
  <2>3. score(p[k]) >= score(p[l])
    BY <1>4, <2>1, <2>2
  <2> QED
    BY <2>1, <2>3 DEF score
<1>9. /\ res \in Seq(S) /\ (IsSet(s) => IsSet(res))
      /\ \A k \in DOMAIN res : \E i \in I : res[k] = s[i]
  <2>1. I \in SUBSET (DOMAIN s)
    BY <1>3
  <2>2. /\ res \in Seq(S) /\ Len(res) = Cardinality(I) /\ (IsSet(s) => IsSet(res))
        /\ \A k \in DOMAIN res : \E i \in I : res[k] = s[i]
    <3> HIDE DEF Ahead
    <3> QED
      BY <1>1, <1>5, <2>1, ArrangedRows
  <2> QED
    BY <2>2
<1> QED
  BY <1>3, <1>8, <1>9 DEF res

\* Groups: within each the rows keep their order, and the first of the first group is first.
LEMMA GroupedRows ==
  ASSUME NEW S, NEW s \in Seq(S), NEW place,
         \A i \in DOMAIN s : place[s[i].category] \in Nat,
         \A i, j \in DOMAIN s : place[s[i].category] = place[s[j].category] => s[i].category = s[j].category
  PROVE  LET res == GroupedBy(s, place) IN
         /\ res \in Seq(S) /\ (res = <<>> <=> s = <<>>)
         /\ IsSet(s) => IsSet(res)
         /\ \A match : (\A i, j \in DOMAIN s : i < j => ScoreOf[match[s[i].id]] >= ScoreOf[match[s[j].id]])
                         => OrderedInCategories(res, match)
         /\ \A k \in DOMAIN res : \E i \in DOMAIN s : res[k] = s[i]
         /\ s # <<>> /\ (\A i \in DOMAIN s : place[s[1].category] <= place[s[i].category]) => res[1] = s[1]
<1> DEFINE group(i) == place[s[i].category]
           Ahead(i, j) == group(i) < group(j) \/ (group(i) = group(j) /\ i < j)
           I == DOMAIN s
           ahead == {e \in I \X I : Ahead(e[1], e[2])}
           res == GroupedBy(s, place)
           n == Len(s)
<1>1. res = Arrange(s, I, ahead)
  BY DEF GroupedBy
<1>2. \A i \in I : group(i) \in Nat /\ i \in Nat
  OBVIOUS
<1>3. n \in Nat /\ I = 1..n /\ Cardinality(I) = n /\ IsFiniteSet(I)
  <2>1. n \in Nat /\ I = 1..n
    OBVIOUS
  <2> QED
    BY <2>1, FS_Interval
<1>4. \A i, j \in I : <<i, j>> \in ahead <=> Ahead(i, j)
  OBVIOUS
<1>5. \A i, j \in I : group(i) = group(j) => s[i].category = s[j].category
  OBVIOUS
<1>6. StrictOrder(I, ahead)
  <2> HIDE DEF I, ahead, group
  <2> QED
    BY <1>2, <1>4 DEF StrictOrder
<1> HIDE DEF ahead, res
<1>7. PICK p : Numbering(p, I, ahead) /\ res = [k \in 1..n |-> s[p[k]]]
  <2> HIDE DEF I, n
  <2>1. IsFiniteSet(I)
    BY <1>3
  <2>2. IsArranged(s, I, ahead)
    BY <1>6, <2>1, ArrangeEffect
  <2> QED
    BY <1>1, <1>3, <2>2 DEF IsArranged
<1>8. /\ p \in [1..n -> I]
      /\ \A k, l \in 1..n : k < l => <<p[k], p[l]>> \in ahead
      /\ \A i \in I : \E k \in 1..n : p[k] = i
  BY <1>3, <1>7 DEF Numbering
<1>9. /\ res \in Seq(S) /\ Len(res) = n /\ (IsSet(s) => IsSet(res))
      /\ \A k \in DOMAIN res : \E i \in I : res[k] = s[i]
  <2>1. I \in SUBSET (DOMAIN s)
    OBVIOUS
  <2> HIDE DEF I, n
  <2>2. /\ res \in Seq(S) /\ Len(res) = Cardinality(I) /\ (IsSet(s) => IsSet(res))
        /\ \A k \in DOMAIN res : \E i \in I : res[k] = s[i]
    BY <1>1, <1>6, <2>1, ArrangedRows
  <2> QED
    BY <1>3, <2>2
<1> HIDE DEF I, n
<1>10. res = <<>> <=> s = <<>>
  BY <1>3, <1>9 DEF n
<1>11. ASSUME NEW match,
              \A i, j \in I : i < j => ScoreOf[match[s[i].id]] >= ScoreOf[match[s[j].id]]
       PROVE  OrderedInCategories(res, match)
  <2>1. ASSUME NEW k \in 1..n, NEW l \in 1..n, k < l, res[k].category = res[l].category
        PROVE  ScoreOf[match[res[k].id]] >= ScoreOf[match[res[l].id]]
    <3>1. res[k] = s[p[k]] /\ res[l] = s[p[l]] /\ p[k] \in I /\ p[l] \in I /\ <<p[k], p[l]>> \in ahead
      BY <1>7, <1>8, <2>1
    <3>2. group(p[k]) = group(p[l])
      BY <2>1, <3>1
    <3>3. p[k] < p[l]
      <4> HIDE DEF group
      <4> QED
        BY <1>2, <1>4, <3>1, <3>2
    <3> QED
      BY <1>11, <3>1, <3>3
  <2>2. DOMAIN res = 1..n
    BY <1>9
  <2> QED
    BY <2>1, <2>2 DEF OrderedInCategories
<1>12. ASSUME s # <<>>, \A i \in I : group(1) <= group(i) PROVE res[1] = s[1]
  <2>1. 1 \in I /\ 1 \in 1..n
    BY <1>3, <1>12 DEF n
  <2>2. PICK m \in 1..n : p[m] = 1
    BY <1>8, <2>1
  <2>3. ASSUME m # 1 PROVE FALSE
    <3>1. <<p[1], 1>> \in ahead /\ p[1] \in I
      BY <1>3, <1>8, <2>1, <2>2, <2>3
    <3> HIDE DEF group
    <3>2. group(1) \in Nat /\ group(p[1]) \in Nat /\ p[1] \in 1..n
      BY <1>2, <1>3, <2>1, <3>1
    <3>3. Ahead(p[1], 1)
      BY <1>4, <2>1, <3>1
    <3> QED
      BY <1>3, <1>12, <3>1, <3>2, <3>3
  <2> QED
    BY <1>7, <2>1, <2>2, <2>3
<1> QED
  BY <1>9, <1>10, <1>11, <1>12 DEF res, I

\* x in front of a list without repetitions, cut off: no repetitions, and all of the same set.
LEMMA ToFrontRows ==
  ASSUME NEW S, NEW s \in Seq(S), IsSet(s), NEW x \in S, NEW n \in Nat
  PROVE  ToFront(s, x, n) \in Seq(S) /\ IsSet(ToFront(s, x, n))
<1> DEFINE rest == Kept(s, {i \in DOMAIN s : s[i] # x})
           new == <<x>> \o rest
           m == IF Len(new) < n THEN Len(new) ELSE n
<1>1. /\ rest \in Seq(S) /\ IsSet(rest)
      /\ \A k \in DOMAIN rest : rest[k] # x
  <2> DEFINE I == {i \in DOMAIN s : s[i] # x}
  <2>1. I \in SUBSET (DOMAIN s) /\ \A i \in I : s[i] # x
    OBVIOUS
  <2> HIDE DEF I
  <2>2. LET res == Kept(s, I) IN
        /\ res \in Seq(S) /\ IsSet(res)
        /\ \A k \in DOMAIN res : \E i \in I : res[k] = s[i]
    BY <2>1, KeptRows
  <2> QED
    BY <2>1, <2>2 DEF I
<1>2. ToFront(s, x, n) = SubSeq(new, 1, m)
  BY DEF ToFront
<1> HIDE DEF rest
<1>3. <<x>> \in Seq(S) /\ Len(<<x>>) = 1 /\ <<x>>[1] = x
  OBVIOUS
<1>4. Len(rest) \in Nat /\ DOMAIN rest = 1..Len(rest)
  BY <1>1, LenProperties
<1>5. /\ new \in Seq(S) /\ Len(new) = 1 + Len(rest)
      /\ \A i \in 1..(1 + Len(rest)) : new[i] = IF i <= 1 THEN <<x>>[i] ELSE rest[i - 1]
  BY <1>1, <1>3, ConcatProperties
<1> HIDE DEF new
<1>6. m \in Nat /\ m <= Len(new)
  BY <1>4, <1>5
<1> HIDE DEF m
<1>7. \A i \in 1..m : new[i] \in S
  <2>1. \A i \in 1..m : i \in 1..Len(new)
    BY <1>4, <1>5, <1>6
  <2> QED
    BY <1>5, <2>1, ElementOfSeq
<1>8. /\ SubSeq(new, 1, m) \in Seq(S)
      /\ Len(SubSeq(new, 1, m)) = (IF 1 <= m THEN m - 1 + 1 ELSE 0)
      /\ \A i \in 1..(m - 1 + 1) : SubSeq(new, 1, m)[i] = new[1 + i - 1]
  BY <1>6, <1>7, SubSeqProperties
<1>9. ASSUME NEW i \in 1..m, NEW j \in 1..m, i < j PROVE new[i] # new[j]
  <2>1. new[j] = rest[j - 1] /\ j - 1 \in DOMAIN rest
    BY <1>4, <1>5, <1>6, <1>9
  <2>2. CASE i = 1
    <3>1. new[i] = x
      BY <1>3, <1>4, <1>5, <1>6, <2>2
    <3> QED
      BY <1>1, <2>1, <3>1
  <2>3. CASE i # 1
    <3>1. new[i] = rest[i - 1] /\ i - 1 \in DOMAIN rest /\ i - 1 # j - 1
      BY <1>4, <1>5, <1>6, <1>9, <2>3
    <3> QED
      BY <1>1, <2>1, <3>1 DEF IsSet
  <2> QED
    BY <2>2, <2>3
<1> DEFINE res == SubSeq(new, 1, m)
<1>10. DOMAIN res = 1..m /\ \A i \in 1..m : res[i] = new[i]
  <2>1. Len(res) = m /\ DOMAIN res = 1..Len(res)
    BY <1>6, <1>8, LenProperties
  <2>2. \A i \in 1..m : i \in 1..(m - 1 + 1) /\ 1 + i - 1 = i
    BY <1>6
  <2> QED
    BY <1>8, <2>1, <2>2
<1> HIDE DEF res
<1>11. IsSet(res)
  <2>1. ASSUME NEW i \in 1..m, NEW j \in 1..m, i # j PROVE res[i] # res[j]
    <3>1. i < j \/ j < i
      BY <1>6, <2>1
    <3> QED
      BY <1>9, <1>10, <3>1
  <2> QED
    BY <1>10, <2>1 DEF IsSet
<1> QED
  BY <1>2, <1>8, <1>11 DEF res

\* Two lists without repetitions that have no row in common, one after the other.
LEMMA JoinedRows ==
  ASSUME NEW S, NEW s \in Seq(S), NEW t \in Seq(S), IsSet(s), IsSet(t),
         \A i \in DOMAIN s, j \in DOMAIN t : s[i] # t[j]
  PROVE  /\ s \o t \in Seq(S) /\ IsSet(s \o t)
         /\ Range(s \o t) = Range(s) \cup Range(t)
         /\ \A i \in DOMAIN s : i \in DOMAIN (s \o t) /\ (s \o t)[i] = s[i]
         /\ \A i \in DOMAIN (s \o t) : i \in DOMAIN s \/ (s \o t)[i] \in Range(t)
<1> DEFINE res == s \o t
<1>1. /\ res \in Seq(S) /\ Len(res) = Len(s) + Len(t)
      /\ \A i \in 1..(Len(s) + Len(t)) : res[i] = IF i <= Len(s) THEN s[i] ELSE t[i - Len(s)]
  BY ConcatProperties
<1>2. /\ Len(s) \in Nat /\ DOMAIN s = 1..Len(s) /\ Len(t) \in Nat /\ DOMAIN t = 1..Len(t)
      /\ DOMAIN res = 1..(Len(s) + Len(t))
  BY <1>1, LenProperties
<1> HIDE DEF res
<1>3. ASSUME NEW i \in DOMAIN res, NEW j \in DOMAIN res, i < j PROVE res[i] # res[j]
  <2>1. CASE j <= Len(s)
    <3>1. res[i] = s[i] /\ res[j] = s[j] /\ i \in DOMAIN s /\ j \in DOMAIN s
      BY <1>1, <1>2, <1>3, <2>1
    <3> QED
      BY <1>2, <1>3, <3>1 DEF IsSet
  <2>2. CASE i <= Len(s) /\ ~(j <= Len(s))
    <3>1. res[i] = s[i] /\ res[j] = t[j - Len(s)] /\ i \in DOMAIN s /\ j - Len(s) \in DOMAIN t
      BY <1>1, <1>2, <2>2
    <3> QED
      BY <3>1
  <2>3. CASE ~(i <= Len(s))
    <3>1. ~(j <= Len(s))
      BY <1>2, <1>3, <2>3
    <3>2. /\ res[i] = t[i - Len(s)] /\ res[j] = t[j - Len(s)]
          /\ i - Len(s) \in DOMAIN t /\ j - Len(s) \in DOMAIN t /\ i - Len(s) # j - Len(s)
      BY <1>1, <1>2, <1>3, <2>3, <3>1
    <3> QED
      BY <3>2 DEF IsSet
  <2> QED
    BY <1>2, <2>1, <2>2, <2>3
<1>4. IsSet(res)
  <2>1. ASSUME NEW i \in DOMAIN res, NEW j \in DOMAIN res, i # j PROVE res[i] # res[j]
    <3>1. i < j \/ j < i
      BY <1>2, <2>1
    <3> QED
      BY <1>3, <3>1
  <2> QED
    BY <2>1 DEF IsSet
<1>5. Range(res) = Range(s) \cup Range(t)
  <2>1. ASSUME NEW i \in DOMAIN res PROVE res[i] \in Range(s) \cup Range(t)
    <3>1. CASE i <= Len(s)
      BY <1>1, <1>2, <3>1 DEF Range
    <3>2. CASE ~(i <= Len(s))
      <4>1. i - Len(s) \in DOMAIN t /\ res[i] = t[i - Len(s)]
        BY <1>1, <1>2, <3>2
      <4> QED
        BY <4>1 DEF Range
    <3> QED
      BY <3>1, <3>2
  <2>2. ASSUME NEW i \in DOMAIN s PROVE s[i] \in Range(res)
    <3>1. i \in DOMAIN res /\ res[i] = s[i]
      BY <1>1, <1>2
    <3> QED
      BY <3>1 DEF Range
  <2>3. ASSUME NEW i \in DOMAIN t PROVE t[i] \in Range(res)
    <3>1. i + Len(s) \in DOMAIN res /\ ~(i + Len(s) <= Len(s)) /\ (i + Len(s)) - Len(s) = i
      BY <1>2
    <3>2. res[i + Len(s)] = t[i]
      BY <1>1, <1>2, <3>1
    <3> QED
      BY <3>1, <3>2 DEF Range
  <2> QED
    BY <2>1, <2>2, <2>3 DEF Range
<1>6. \A i \in DOMAIN s : i \in DOMAIN res /\ res[i] = s[i]
  BY <1>1, <1>2
<1>7. ASSUME NEW i \in DOMAIN res, i \notin DOMAIN s PROVE res[i] \in Range(t)
  <2>1. i - Len(s) \in DOMAIN t /\ res[i] = t[i - Len(s)]
    BY <1>1, <1>2, <1>7
  <2> QED
    BY <2>1 DEF Range
<1> QED
  BY <1>1, <1>4, <1>5, <1>6, <1>7 DEF res

\* The place of a category is that of its first row: a number, another one for each.
LEMMA FirstSeenPlaces ==
  ASSUME NEW S, NEW s \in Seq(S)
  PROVE  LET place == FirstSeen(s) IN
         /\ \A i \in DOMAIN s : place[s[i].category] \in Nat
         /\ \A i, j \in DOMAIN s : place[s[i].category] = place[s[j].category] => s[i].category = s[j].category
         /\ s # <<>> => \A i \in DOMAIN s : place[s[1].category] <= place[s[i].category]
<1> DEFINE place == FirstSeen(s)
           Of(c) == {i \in DOMAIN s : s[i].category = c}
<1>1. Len(s) \in Nat /\ DOMAIN s = 1..Len(s)
  BY LenProperties
<1>2. \A c : Of(c) \in SUBSET Nat /\ \A i \in Of(c) : s[i].category = c /\ i >= 1
  BY <1>1
<1>3. \A i \in DOMAIN s : i \in Of(s[i].category)
  OBVIOUS
<1>4. ASSUME NEW i \in DOMAIN s
      PROVE  /\ place[s[i].category] \in Of(s[i].category)
             /\ \A j \in Of(s[i].category) : place[s[i].category] <= j
  <2>1. place[s[i].category] = Min(Of(s[i].category))
    BY DEF FirstSeen
  <2> HIDE DEF place, Of
  <2> QED
    BY <1>2, <1>3, <2>1, MinOfPlaces
<1> HIDE DEF place, Of
<1>5. \A i \in DOMAIN s : place[s[i].category] \in Nat /\ place[s[i].category] >= 1
  BY <1>2, <1>4
<1>6. \A i, j \in DOMAIN s : place[s[i].category] = place[s[j].category] => s[i].category = s[j].category
  BY <1>2, <1>4
<1>7. ASSUME s # <<>>, NEW i \in DOMAIN s PROVE place[s[1].category] <= place[s[i].category]
  <2>1. 1 \in DOMAIN s
    BY <1>1, <1>7
  <2>2. place[s[1].category] <= 1
    BY <1>3, <1>4, <2>1
  <2> QED
    BY <1>5, <2>1, <2>2
<1> QED
  BY <1>5, <1>6, <1>7 DEF place

LEMMA ArrangedAt ==
  ASSUME NEW s, NEW I, IsFiniteSet(I), NEW ahead, StrictOrder(I, ahead)
  PROVE  /\ \A T : (\A k \in 1..Cardinality(I) : Arrange(s, I, ahead)[k] \in T)
                    => Arrange(s, I, ahead) \in [1..Cardinality(I) -> T]
         /\ HasPlaces(s, I, ahead)
<1>1. PICK p : Numbering(p, I, ahead) /\ Arrange(s, I, ahead) = [k \in 1..Cardinality(I) |-> s[p[k]]]
  <2>1. IsFiniteSet(I) /\ StrictOrder(I, ahead)
    OBVIOUS
  <2>2. IsArranged(s, I, ahead)
    BY <2>1, ArrangeEffect
  <2> QED
    BY <2>2 DEF IsArranged
<1>2. \A k \in 1..Cardinality(I) : Arrange(s, I, ahead)[k] = s[p[k]]
  BY <1>1
<1>3. \A T : (\A k \in 1..Cardinality(I) : Arrange(s, I, ahead)[k] \in T)
               => Arrange(s, I, ahead) \in [1..Cardinality(I) -> T]
  BY <1>1
<1>4. HasPlaces(s, I, ahead)
  BY <1>1, <1>2 DEF HasPlaces
<1> QED
  BY <1>3, <1>4

\* Rows of lists, each the first one of its list or after it.
AfterFirst(s, n, f) ==
  \A k \in DOMAIN s : \E i \in 1..n : \E j \in DOMAIN f[i] :
    s[k] = f[i][j] /\ (j = 1 \/ \E l \in 1..(k - 1) : s[l] = f[i][1])

\* Lists one after the other: all their rows.
LEMMA JoinedLists ==
  ASSUME NEW S, NEW n \in Nat, NEW f \in [1..n -> Seq(S)]
  PROVE  LET res == Joined(f) IN
         /\ res \in Seq(S)
         /\ AfterFirst(res, n, f)
         /\ \A i \in 1..n : Range(f[i]) \in SUBSET Range(res)
         /\ (/\ \A i \in 1..n : IsSet(f[i])
             /\ \A i, j \in 1..n : i # j => \A k \in DOMAIN f[i], l \in DOMAIN f[j] : f[i][k] # f[j][l])
              => IsSet(res)
<1> DEFINE Part(i) == {i} \X DOMAIN f[i]
           I == UNION {Part(i) : i \in DOMAIN f}
           Ahead(d, e) == d[1] < e[1] \/ (d[1] = e[1] /\ d[2] < e[2])
           ahead == {d \in I \X I : Ahead(d[1], d[2])}
           row == [e \in I |-> f[e[1]][e[2]]]
           N == Cardinality(I)
           res == Joined(f)
<1>1. res = Arrange(row, I, ahead)
  BY DEF Joined
<1>2. \A i \in 1..n : f[i] \in Seq(S) /\ Len(f[i]) \in Nat /\ DOMAIN f[i] = 1..Len(f[i])
  BY LenProperties
<1>3. /\ \A e \in I : /\ e[1] \in 1..n /\ e[2] \in DOMAIN f[e[1]] /\ e = <<e[1], e[2]>>
                      /\ e[1] \in Nat /\ e[2] \in Nat /\ e[2] >= 1 /\ <<e[1], 1>> \in I
      /\ \A i \in 1..n : \A j \in DOMAIN f[i] : <<i, j>> \in I
  BY <1>2
<1>4. IsFiniteSet(I)
  <2> DEFINE part == [i \in 1..n |-> Part(i)]
             T == {part[i] : i \in 1..n}
  <2>1. IsFiniteSet(1..n)
    BY FS_Interval
  <2>2. part \in Surjection(1..n, T)
    BY DEF Surjection
  <2>3. IsFiniteSet(T)
    <3> HIDE DEF part, T
    <3> QED
      BY <2>1, <2>2, FS_Surjection
  <2>4. ASSUME NEW i \in 1..n PROVE IsFiniteSet(Part(i))
    <3>1. IsFiniteSet({i})
      BY FS_Singleton
    <3>2. IsFiniteSet(DOMAIN f[i])
      <4>1. DOMAIN f[i] = 1..Len(f[i]) /\ Len(f[i]) \in Int
        BY <1>2
      <4>2. IsFiniteSet(1..Len(f[i]))
        BY <4>1, FS_Interval
      <4> QED
        BY <4>1, <4>2
    <3> QED
      BY <3>1, <3>2, FS_Product
  <2>5. \A x \in T : IsFiniteSet(x)
    <3> HIDE DEF Part
    <3> QED
      BY <2>4
  <2>6. I = UNION T
    <3> HIDE DEF Part
    <3> QED
      OBVIOUS
  <2> HIDE DEF T, I
  <2> QED
    BY <2>3, <2>5, <2>6, FS_UNION
<1> HIDE DEF I
<1>5. \A d, e \in I : <<d, e>> \in ahead <=> Ahead(d, e)
  OBVIOUS
<1> HIDE DEF ahead
<1>6. StrictOrder(I, ahead)
  <2>0. \A e \in I : e[1] \in Nat /\ e[2] \in Nat
    BY <1>3
  <2>1. \A i \in I : ~Ahead(i, i)
    BY <2>0
  <2>2. \A i, j \in I : i # j => Ahead(i, j) \/ Ahead(j, i)
    <3>1. ASSUME NEW i \in I, NEW j \in I, i # j PROVE i[1] # j[1] \/ i[2] # j[2]
      <4>1. i = <<i[1], i[2]>> /\ j = <<j[1], j[2]>>
        BY <1>3
      <4> QED
        BY <3>1, <4>1
    <3> QED
      BY <2>0, <3>1
  <2>3. \A i, j, k \in I : Ahead(i, j) /\ Ahead(j, k) => Ahead(i, k)
    BY <2>0
  <2> HIDE DEF Ahead
  <2>4. \A i \in I : <<i, i>> \notin ahead
    BY <1>5, <2>1
  <2>5. \A i, j \in I : i # j => <<i, j>> \in ahead \/ <<j, i>> \in ahead
    BY <1>5, <2>2
  <2>6. \A i, j, k \in I : <<i, j>> \in ahead /\ <<j, k>> \in ahead => <<i, k>> \in ahead
    BY <1>5, <2>3
  <2> QED
    BY <2>4, <2>5, <2>6 DEF StrictOrder
<1>7. N \in Nat
  BY <1>4, FS_CardinalityType
<1> HIDE DEF row, res
<1>8. /\ \A T : (\A k \in 1..N : res[k] \in T) => res \in [1..N -> T]
      /\ \E p : Numbering(p, I, ahead) /\ \A k \in 1..N : res[k] = row[p[k]]
  <2>0. IsFiniteSet(I) /\ StrictOrder(I, ahead)
    BY <1>4, <1>6
  <2>1. \A T : (\A k \in 1..Cardinality(I) : Arrange(row, I, ahead)[k] \in T)
                    => Arrange(row, I, ahead) \in [1..Cardinality(I) -> T]
    BY <2>0, ArrangedAt
  <2>2. HasPlaces(row, I, ahead)
    BY <2>0, ArrangedAt
  <2>3. res = Arrange(row, I, ahead) /\ N = Cardinality(I)
    BY <1>1
  <2> QED
    BY <2>1, <2>2, <2>3 DEF HasPlaces
<1>p. PICK p : Numbering(p, I, ahead) /\ \A k \in 1..N : res[k] = row[p[k]]
  BY <1>8
<1>9. /\ p \in [1..N -> I]
      /\ \A k, l \in 1..N : k < l => <<p[k], p[l]>> \in ahead
      /\ \A k, l \in 1..N : p[k] = p[l] => k = l
      /\ \A e \in I : \E k \in 1..N : p[k] = e
  BY <1>p DEF Numbering
<1> HIDE DEF N
<1>10. \A k \in 1..N : p[k] \in I /\ res[k] = f[p[k][1]][p[k][2]]
  BY <1>p, <1>9 DEF row
<1>11. res \in Seq(S) /\ DOMAIN res = 1..N
  <2>1. ASSUME NEW k \in 1..N PROVE row[p[k]] \in S
    <3>1. p[k] \in I /\ p[k][1] \in 1..n /\ p[k][2] \in DOMAIN f[p[k][1]]
      BY <1>3, <1>9
    <3>2. f[p[k][1]][p[k][2]] \in S
      BY <1>2, <3>1
    <3> QED
      BY <3>1, <3>2 DEF row
  <2>2. res \in [1..N -> S]
    BY <1>8, <1>p, <2>1
  <2> QED
    BY <1>7, <2>2
<1>12. ASSUME NEW k \in 1..N
       PROVE  \E i \in 1..n : \E j \in DOMAIN f[i] :
                res[k] = f[i][j] /\ (j = 1 \/ \E l \in 1..(k - 1) : res[l] = f[i][1])
  <2> DEFINE i == p[k][1]
             j == p[k][2]
  <2>1. i \in 1..n /\ j \in DOMAIN f[i] /\ p[k] = <<i, j>> /\ <<i, 1>> \in I /\ j \in Nat /\ j >= 1 /\ res[k] = f[i][j]
    BY <1>3, <1>10
  <2>2. ASSUME j # 1 PROVE \E l \in 1..(k - 1) : res[l] = f[i][1]
    <3>1. PICK l \in 1..N : p[l] = <<i, 1>>
      BY <1>9, <2>1
    <3>2. res[l] = f[i][1]
      BY <1>10, <3>1
    <3>3. l # k
      BY <2>1, <2>2, <3>1
    <3>4. ~(k < l)
      <4>1. ASSUME k < l PROVE FALSE
        <5>1. Ahead(p[k], p[l])
          <6> HIDE DEF Ahead
          <6> QED
            BY <1>5, <1>9, <1>10, <4>1
        <5>2. p[k][1] = i /\ p[k][2] = j /\ p[l][1] = i /\ p[l][2] = 1
          BY <3>1
        <5>3. i \in Nat
          BY <2>1
        <5> QED
          BY <2>1, <5>1, <5>2, <5>3
      <4> QED
        BY <4>1
    <3>5. l \in 1..(k - 1)
      BY <1>7, <3>1, <3>3, <3>4
    <3> QED
      BY <3>2, <3>5
  <2> QED
    BY <2>1, <2>2
<1>13. ASSUME NEW i \in 1..n, NEW j \in DOMAIN f[i] PROVE \E k \in 1..N : res[k] = f[i][j]
  <2>1. PICK k \in 1..N : p[k] = <<i, j>>
    BY <1>3, <1>9
  <2> QED
    BY <1>10, <2>1
<1>14. ASSUME \A i \in 1..n : IsSet(f[i]),
              \A i, j \in 1..n : i # j => \A k \in DOMAIN f[i], l \in DOMAIN f[j] : f[i][k] # f[j][l]
       PROVE  IsSet(res)
  <2>1. ASSUME NEW k \in 1..N, NEW l \in 1..N, k # l PROVE res[k] # res[l]
    <3>1. p[k] # p[l] /\ p[k] \in I /\ p[l] \in I
      BY <1>9, <2>1
    <3> DEFINE d == p[k]
               e == p[l]
    <3>2. /\ d[1] \in 1..n /\ d[2] \in DOMAIN f[d[1]] /\ e[1] \in 1..n /\ e[2] \in DOMAIN f[e[1]]
          /\ d[1] # e[1] \/ d[2] # e[2]
      BY <1>3, <3>1
    <3>3. res[k] = f[d[1]][d[2]] /\ res[l] = f[e[1]][e[2]]
      BY <1>10
    <3> HIDE DEF d, e
    <3> QED
      BY <1>14, <3>2, <3>3 DEF IsSet
  <2> QED
    BY <1>11, <2>1 DEF IsSet
<1>15. AfterFirst(res, n, f)
  BY <1>11, <1>12 DEF AfterFirst
<1>16. \A i \in 1..n : Range(f[i]) \in SUBSET Range(res)
  BY <1>11, <1>13 DEF Range
<1> QED
  BY <1>11, <1>14, <1>15, <1>16 DEF res

-----------------------------------------------------------------------------
(* SearchPalette.                                                           *)

PaletteRow == [id : {PaletteItems[i].id : i \in DOMAIN PaletteItems},
               path : PalettePaths,
               category : DOMAIN CategoryOrder]

\* What the palette keeps: paths of its rows, each once.
PaletteState ==
  /\ typedIn \in PaletteTerms \cup {Blank}
  /\ recentPaths \in Seq(PalettePaths) /\ IsSet(recentPaths)
  /\ activeIndex \in Int

LEMMA PaletteItemsAreRows ==
  /\ PaletteItems \in Seq(PaletteRow) /\ IsSet(PaletteItems)
  /\ \A i \in DOMAIN PaletteItems : PaletteItems[i].category # "recent"
<1> DEFINE names == {PaletteItems[i].id : i \in DOMAIN PaletteItems}
           kinds == DOMAIN CategoryOrder \ {"recent"}
           items == [id : names, path : PalettePaths, category : kinds]
<1>1. PaletteItems \in Seq(items)
  BY PaletteAssumption DEF PalettePaths
<1>2. items \in SUBSET PaletteRow
  BY DEF PaletteRow
<1>3. \A i \in DOMAIN PaletteItems : PaletteItems[i] \in items
  <2> HIDE DEF items
  <2> QED
    BY <1>1
<1>4. PaletteItems \in Seq(PaletteRow)
  <2> HIDE DEF items
  <2> QED
    BY <1>1, <1>2
<1>5. IsSet(PaletteItems)
  BY PaletteAssumption DEF IsSet
<1> QED
  BY <1>3, <1>4, <1>5

LEMMA KnownRows ==
  /\ KnownItems \in Seq(PaletteRow) /\ IsSet(KnownItems)
  /\ \A i \in DOMAIN KnownItems : KnownItems[i].category # "recent"
<1> DEFINE I == {i \in DOMAIN PaletteItems : PaletteItems[i].category = "nodes" => nodesKnown}
<1>1. I \in SUBSET (DOMAIN PaletteItems)
  OBVIOUS
<1>2. KnownItems = Kept(PaletteItems, I)
  BY DEF KnownItems
<1> HIDE DEF I
<1>3. LET res == Kept(PaletteItems, I) IN
      /\ res \in Seq(PaletteRow) /\ IsSet(res)
      /\ \A k \in DOMAIN res : \E i \in I : res[k] = PaletteItems[i]
  BY <1>1, PaletteItemsAreRows, KeptRows
<1> QED
  BY <1>1, <1>2, <1>3, PaletteItemsAreRows

\* A path that was visited is shown by one row, which has this path and is marked as recent.
LEMMA RecentRowsOfPaths ==
  ASSUME NEW items \in Seq(PaletteRow), recentPaths \in Seq(PalettePaths), IsSet(recentPaths)
  PROVE  /\ RecentRows(items) \in Seq(PaletteRow) /\ IsSet(RecentRows(items))
         /\ \A k \in DOMAIN RecentRows(items) : RecentRows(items)[k].category = "recent"
<1> DEFINE At(path) == {j \in DOMAIN items : items[j].path = path /\ items[j].category # "actions"}
           I == {i \in DOMAIN recentPaths : At(recentPaths[i]) # {}}
           paths == Kept(recentPaths, I)
           Row(k) == [items[Min(At(paths[k]))] EXCEPT !.category = "recent"]
           res == [k \in DOMAIN paths |-> Row(k)]
<1>1. RecentRows(items) = res
  BY DEF RecentRows
<1>2. I \in SUBSET (DOMAIN recentPaths) /\ \A i \in I : At(recentPaths[i]) # {}
  OBVIOUS
<1>3. \A path : At(path) \in SUBSET Nat
  OBVIOUS
<1>4. \A path : \A j \in At(path) : items[j] \in PaletteRow /\ items[j].path = path
  OBVIOUS
<1> HIDE DEF At, I
<1>5. /\ paths \in Seq(PalettePaths) /\ IsSet(paths)
      /\ \A k \in DOMAIN paths : \E i \in I : paths[k] = recentPaths[i]
  BY <1>2, KeptRows
<1> HIDE DEF paths
<1>6. ASSUME NEW k \in DOMAIN paths PROVE Row(k) \in PaletteRow /\ Row(k).path = paths[k] /\ Row(k).category = "recent"
  <2>1. At(paths[k]) # {}
    BY <1>2, <1>5
  <2>2. Min(At(paths[k])) \in At(paths[k])
    BY <1>3, <2>1, MinOfPlaces
  <2> DEFINE row == items[Min(At(paths[k]))]
  <2>3. row \in PaletteRow /\ row.path = paths[k]
    BY <1>4, <2>2
  <2> HIDE DEF row
  <2>4. /\ [row EXCEPT !.category = "recent"] \in PaletteRow
        /\ [row EXCEPT !.category = "recent"].path = paths[k]
        /\ [row EXCEPT !.category = "recent"].category = "recent"
    BY <2>3 DEF PaletteRow, CategoryOrder
  <2> QED
    BY <2>4 DEF row
<1> HIDE DEF Row
<1>7. Len(paths) \in Nat /\ DOMAIN paths = 1..Len(paths)
  BY <1>5, LenProperties
<1>8. res \in Seq(PaletteRow) /\ DOMAIN res = DOMAIN paths /\ \A k \in DOMAIN paths : res[k] = Row(k)
  BY <1>6, <1>7
<1> HIDE DEF res
<1>9. IsSet(res)
  <2>1. ASSUME NEW k \in DOMAIN paths, NEW l \in DOMAIN paths, k # l PROVE res[k] # res[l]
    <3>1. paths[k] # paths[l]
      BY <1>5, <2>1 DEF IsSet
    <3>2. res[k].path = paths[k] /\ res[l].path = paths[l]
      BY <1>6, <1>8
    <3> QED
      BY <3>1, <3>2
  <2> QED
    BY <1>8, <2>1 DEF IsSet
<1> QED
  BY <1>1, <1>6, <1>8, <1>9

\* The rows that are shown: each once, and of one category the better match first.
LEMMA PaletteShows ==
  ASSUME PaletteState
  PROVE  /\ PaletteRows \in Seq(PaletteRow) /\ IsSet(PaletteRows)
         /\ typedIn # Blank => OrderedInCategories(PaletteRows, typedIn)
<1>1. AllRows \in Seq(PaletteRow) /\ IsSet(AllRows)
  <2>1. /\ RecentRows(KnownItems) \in Seq(PaletteRow) /\ IsSet(RecentRows(KnownItems))
        /\ \A k \in DOMAIN RecentRows(KnownItems) : RecentRows(KnownItems)[k].category = "recent"
    BY KnownRows, RecentRowsOfPaths DEF PaletteState
  <2>2. AllRows = RecentRows(KnownItems) \o KnownItems
    BY DEF AllRows
  <2>3. \A i \in DOMAIN RecentRows(KnownItems), j \in DOMAIN KnownItems : RecentRows(KnownItems)[i] # KnownItems[j]
    BY <2>1, KnownRows
  <2> QED
    BY <2>1, <2>2, <2>3, KnownRows, JoinedRows
<1>2. /\ Found \in Seq(PaletteRow) /\ IsSet(Found)
      /\ typedIn # Blank =>
           \A k, l \in DOMAIN Found : k < l => ScoreOf[typedIn[Found[k].id]] >= ScoreOf[typedIn[Found[l].id]]
  <2>1. CASE typedIn = Blank
    <3> DEFINE I == {i \in DOMAIN AllRows : AllRows[i].category \in {"recent", "navigation", "actions"}}
    <3>1. I \in SUBSET (DOMAIN AllRows)
      OBVIOUS
    <3>2. Found = Kept(AllRows, I)
      BY <2>1 DEF Found
    <3> HIDE DEF I
    <3> QED
      BY <1>1, <2>1, <3>1, <3>2, KeptRows
  <2>2. CASE typedIn # Blank
    <3>1. \A i \in DOMAIN AllRows : typedIn[AllRows[i].id] \in DOMAIN ScoreOf
      <4>1. typedIn \in [{PaletteItems[i].id : i \in DOMAIN PaletteItems} -> DOMAIN ScoreOf]
        BY <2>2, PaletteAssumption DEF PaletteState
      <4>2. \A i \in DOMAIN AllRows : AllRows[i].id \in {PaletteItems[j].id : j \in DOMAIN PaletteItems}
        <5>1. \A i \in DOMAIN AllRows : AllRows[i] \in PaletteRow
          BY <1>1
        <5> QED
          BY <5>1 DEF PaletteRow
      <4> QED
        BY <4>1, <4>2
    <3>2. Found = Ranked(AllRows, typedIn)
      BY <2>2 DEF Found
    <3> QED
      BY <1>1, <3>1, <3>2, RankedRows
  <2> QED
    BY <2>1, <2>2
<1>3. /\ \A i \in DOMAIN Found : CategoryOrder[Found[i].category] \in Nat
      /\ \A i, j \in DOMAIN Found : CategoryOrder[Found[i].category] = CategoryOrder[Found[j].category]
                                      => Found[i].category = Found[j].category
  <2>1. \A i \in DOMAIN Found : Found[i].category \in DOMAIN CategoryOrder
    <3>1. \A i \in DOMAIN Found : Found[i] \in PaletteRow
      BY <1>2
    <3> QED
      BY <3>1 DEF PaletteRow
  <2>2. \A c \in DOMAIN CategoryOrder : CategoryOrder[c] \in Nat
    BY DEF CategoryOrder
  <2>3. \A c, d \in DOMAIN CategoryOrder : CategoryOrder[c] = CategoryOrder[d] => c = d
    BY DEF CategoryOrder
  <2> QED
    BY <2>1, <2>2, <2>3
<1>4. /\ PaletteRows \in Seq(PaletteRow) /\ IsSet(PaletteRows)
      /\ \A match : (\A i, j \in DOMAIN Found : i < j => ScoreOf[match[Found[i].id]] >= ScoreOf[match[Found[j].id]])
                      => OrderedInCategories(PaletteRows, match)
  BY <1>2, <1>3, GroupedRows DEF PaletteRows
<1> QED
  BY <1>2, <1>4

LEMMA ShownAreRows == PaletteState => PaletteRows \in Seq(PaletteRow)
BY PaletteShows

-----------------------------------------------------------------------------
(* Inductive: the row that is marked is one of those shown since something  *)
(* was typed.                                                               *)

PaletteInv ==
  /\ PaletteState
  /\ paletteOpen /\ ~rowsMoved /\ PaletteRows # <<>> => activeIndex + 1 \in DOMAIN PaletteRows

LEMMA PaletteInitInv == PaletteInit => PaletteInv
<1> SUFFICES ASSUME PaletteInit PROVE PaletteInv
  OBVIOUS
<1>1. recentPaths \in Seq(PalettePaths) /\ IsSet(recentPaths)
  BY DEF PaletteInit, IsSet
<1> QED
  BY <1>1 DEF PaletteInit, PaletteInv, PaletteState

LEMMA PaletteNextInv == PaletteInv /\ (PaletteNext \/ UNCHANGED paletteVars) => PaletteInv'
<1> SUFFICES ASSUME PaletteInv, PaletteNext \/ UNCHANGED paletteVars PROVE PaletteInv'
  OBVIOUS
<1>0. PaletteState
  BY DEF PaletteInv
<1>1. PaletteRows \in Seq(PaletteRow)
  BY <1>0, PaletteShows
<1>2. Len(PaletteRows) \in Nat /\ DOMAIN PaletteRows = 1..Len(PaletteRows)
      /\ (PaletteRows # <<>> => Len(PaletteRows) >= 1)
  BY <1>1, LenProperties, EmptySeq
\* What depends on the rows alone.
<1>3. ASSUME UNCHANGED <<typedIn, recentPaths, nodesKnown>>
      PROVE  PaletteRows' = PaletteRows
  BY <1>3 DEF PaletteRows, Found, AllRows, KnownItems, RecentRows
<1>4. ASSUME PaletteState', activeIndex' = 0 PROVE PaletteInv'
  <2>1. PaletteRows' \in Seq(PaletteRow)
    <3>1. (PaletteState => PaletteRows \in Seq(PaletteRow))'
      BY ShownAreRows, PTL
    <3> QED
      BY <1>4, <3>1
  <2>2. /\ DOMAIN PaletteRows' = 1..Len(PaletteRows') /\ Len(PaletteRows') \in Nat
        /\ (PaletteRows' # <<>> => Len(PaletteRows') >= 1)
    BY <2>1, LenProperties, EmptySeq
  <2> QED
    BY <1>4, <2>2 DEF PaletteInv
<1>5. CASE TogglePalette
  <2>1. CASE paletteOpen
    BY <1>0, <1>5, <2>1 DEF TogglePalette, PaletteInv, PaletteState
  <2>2. CASE ~paletteOpen
    <3>1. PaletteState' /\ activeIndex' = 0
      BY <1>0, <1>5, <2>2 DEF TogglePalette, PaletteState
    <3> QED
      BY <1>4, <3>1
  <2> QED
    BY <2>1, <2>2
<1>6. ASSUME NEW t \in PaletteTerms \cup {Blank}, TypeInPalette(t) PROVE PaletteInv'
  <2>1. PaletteState' /\ activeIndex' = 0
    BY <1>0, <1>6 DEF TypeInPalette, PaletteState
  <2> QED
    BY <1>4, <2>1
<1>7. ASSUME NEW up \in BOOLEAN, MovePalette(up) PROVE PaletteInv'
  <2> DEFINE last == Len(PaletteRows) - 1
  <2>1. /\ paletteOpen /\ paletteOpen' /\ rowsMoved' = rowsMoved
        /\ UNCHANGED <<typedIn, recentPaths, nodesKnown>>
        /\ activeIndex' = IF up THEN (IF activeIndex < 1 THEN 0 ELSE activeIndex - 1)
                          ELSE (IF activeIndex + 1 < last THEN activeIndex + 1 ELSE last)
    BY <1>7 DEF MovePalette
  <2>2. PaletteRows' = PaletteRows
    BY <1>3, <2>1
  <2>3. activeIndex \in Int /\ last \in Int /\ activeIndex' \in Int
    BY <1>0, <1>2, <2>1 DEF PaletteState
  <2>4. PaletteState'
    BY <1>0, <2>1, <2>3 DEF PaletteState
  <2>5. ASSUME ~rowsMoved, PaletteRows # <<>> PROVE activeIndex' + 1 \in DOMAIN PaletteRows
    <3>1. activeIndex + 1 \in 1..Len(PaletteRows) /\ Len(PaletteRows) >= 1
      BY <1>2, <2>1, <2>5 DEF PaletteInv
    <3> QED
      BY <1>2, <2>1, <2>3, <3>1
  <2> QED
    BY <2>1, <2>2, <2>4, <2>5 DEF PaletteInv
<1>8. ASSUME NEW i \in 0..(2 * Len(PaletteItems) - 1), PointAt(i) PROVE PaletteInv'
  <2>1. PaletteRows' = PaletteRows
    BY <1>3, <1>8 DEF PointAt
  <2>2. i \in Int
    <3>1. Len(PaletteItems) \in Nat
      BY PaletteItemsAreRows, LenProperties
    <3> QED
      BY <3>1
  <2> QED
    BY <1>0, <1>8, <2>1, <2>2 DEF PointAt, PaletteInv, PaletteState
<1>9. ASSUME NEW i \in DOMAIN PaletteRows, Execute(PaletteRows[i]) PROVE PaletteInv'
  <2>1. PaletteRows[i].path \in PalettePaths
    <3>1. PaletteRows[i] \in PaletteRow
      BY <1>1, <1>9
    <3> QED
      BY <3>1 DEF PaletteRow
  <2>2. recentPaths' \in Seq(PalettePaths) /\ IsSet(recentPaths')
    <3>1. MaxRecent \in Nat
      BY PaletteAssumption
    <3> QED
      BY <1>0, <1>9, <2>1, <3>1, ToFrontRows DEF Execute, PaletteState
  <2>3. paletteOpen' = FALSE /\ UNCHANGED <<typedIn, activeIndex>>
    BY <1>9 DEF Execute
  <2> QED
    BY <1>0, <2>2, <2>3 DEF PaletteInv, PaletteState, IsSet
<1>10. CASE EnterInPalette
  BY <1>9, <1>10 DEF EnterInPalette
<1>11. CASE ClickInPalette
  BY <1>9, <1>11 DEF ClickInPalette
<1>12. CASE NodesChange
  BY <1>0, <1>12 DEF NodesChange, PaletteInv, PaletteState
<1>13. CASE UNCHANGED paletteVars
  <2>1. PaletteRows' = PaletteRows
    BY <1>3, <1>13 DEF paletteVars
  <2> QED
    BY <1>0, <1>13, <2>1 DEF paletteVars, PaletteInv, PaletteState
<1> QED
  BY <1>5, <1>6, <1>7, <1>8, <1>10, <1>11, <1>12, <1>13 DEF PaletteNext

LEMMA PaletteInvUsable == PaletteInv => PaletteIsUsable
<1> SUFFICES ASSUME PaletteInv PROVE PaletteIsUsable
  OBVIOUS
<1>1. PaletteState
  BY DEF PaletteInv
<1>2. IsSet(PaletteRows) /\ (typedIn # Blank => OrderedInCategories(PaletteRows, typedIn))
  BY <1>1, PaletteShows
<1> QED
  BY <1>1, <1>2 DEF PaletteInv, PaletteState, PaletteIsUsable

-----------------------------------------------------------------------------
(* SearchPage.                                                              *)

SearchRow == [id : {SearchItems[i].id : i \in DOMAIN SearchItems},
              category : {SearchItems[i].category : i \in DOMAIN SearchItems}]

SearchState ==
  /\ query \in Terms \cup {Blank} /\ debouncedQuery \in Terms \cup {Blank}
  /\ recentSearches \in Seq(Terms) /\ IsSet(recentSearches)
  /\ selectedIndex \in Int

LEMMA SearchRowsOfCategory == InCategory \in Seq(SearchRow) /\ IsSet(InCategory)
<1>1. SearchItems \in Seq(SearchRow) /\ IsSet(SearchItems)
  BY SearchAssumption DEF SearchRow, IsSet
<1>2. AllItems \in Seq(SearchRow) /\ IsSet(AllItems)
  <2> DEFINE I == {i \in DOMAIN SearchItems : SearchItems[i].category \in {"nodes", "vms"} => listed}
  <2>1. I \in SUBSET (DOMAIN SearchItems)
    OBVIOUS
  <2>2. AllItems = Kept(SearchItems, I)
    BY DEF AllItems
  <2> HIDE DEF I
  <2> QED
    BY <1>1, <2>1, <2>2, KeptRows
<1> DEFINE I == {i \in DOMAIN AllItems : activeCategory \in {"all", AllItems[i].category}}
<1>3. I \in SUBSET (DOMAIN AllItems)
  OBVIOUS
<1>4. InCategory = Kept(AllItems, I)
  BY DEF InCategory
<1> HIDE DEF I
<1> QED
  BY <1>2, <1>3, <1>4, KeptRows

\* The results, and how they are shown: each once, of one category the better match first,
\* and first of all one that nothing matches better.
LEMMA SearchShows ==
  ASSUME SearchState
  PROVE  /\ FlatResults \in Seq(SearchRow) /\ IsSet(FlatResults)
         /\ debouncedQuery # Blank =>
              LET match == MatchesOf[debouncedQuery] IN
              /\ OrderedInCategories(FlatResults, match)
              /\ \A i \in DOMAIN FlatResults :
                   ScoreOf[match[FlatResults[1].id]] >= ScoreOf[match[FlatResults[i].id]]
<1> DEFINE match == MatchesOf[debouncedQuery]
           Score(row) == ScoreOf[match[row.id]]
           place == FirstSeen(Results)
<1>1. debouncedQuery # Blank => \A row \in SearchRow : match[row.id] \in DOMAIN ScoreOf /\ Score(row) \in Nat
  <2>1. debouncedQuery # Blank => match \in [{SearchItems[i].id : i \in DOMAIN SearchItems} -> DOMAIN ScoreOf]
    BY SearchAssumption DEF SearchState, Terms
  <2>2. \A row \in SearchRow : row.id \in {SearchItems[i].id : i \in DOMAIN SearchItems}
    BY DEF SearchRow
  <2>3. \A m \in DOMAIN ScoreOf : ScoreOf[m] \in Nat
    BY DEF ScoreOf
  <2> QED
    BY <2>1, <2>2, <2>3
<1>2. /\ Results \in Seq(SearchRow) /\ IsSet(Results)
      /\ debouncedQuery # Blank =>
           \A k, l \in DOMAIN Results : k < l => ScoreOf[match[Results[k].id]] >= ScoreOf[match[Results[l].id]]
  <2>1. CASE debouncedQuery = Blank
    BY <2>1, SearchRowsOfCategory DEF Results
  <2>2. CASE debouncedQuery # Blank
    <3>1. Results = Ranked(InCategory, match)
      BY <2>2 DEF Results
    <3>2. \A i \in DOMAIN InCategory : match[InCategory[i].id] \in DOMAIN ScoreOf
      <4>1. \A i \in DOMAIN InCategory : InCategory[i] \in SearchRow
        BY SearchRowsOfCategory
      <4> QED
        BY <1>1, <2>2, <4>1
    <3> HIDE DEF match
    <3> QED
      BY <2>2, <3>1, <3>2, SearchRowsOfCategory, RankedRows
  <2> QED
    BY <2>1, <2>2
<1>3. FlatResults = GroupedBy(Results, place)
  BY DEF FlatResults
<1>4. /\ \A i \in DOMAIN Results : place[Results[i].category] \in Nat
      /\ \A i, j \in DOMAIN Results :
           place[Results[i].category] = place[Results[j].category] => Results[i].category = Results[j].category
      /\ Results # <<>> => \A i \in DOMAIN Results : place[Results[1].category] <= place[Results[i].category]
  BY <1>2, FirstSeenPlaces
<1> HIDE DEF place, match
<1>5. /\ FlatResults \in Seq(SearchRow) /\ IsSet(FlatResults)
      /\ FlatResults = <<>> <=> Results = <<>>
      /\ debouncedQuery # Blank => OrderedInCategories(FlatResults, match)
      /\ \A k \in DOMAIN FlatResults : \E i \in DOMAIN Results : FlatResults[k] = Results[i]
      /\ Results # <<>> => FlatResults[1] = Results[1]
  <2>1. LET res == GroupedBy(Results, place) IN
        /\ res \in Seq(SearchRow) /\ (res = <<>> <=> Results = <<>>)
        /\ IsSet(Results) => IsSet(res)
        /\ \A m : (\A i, j \in DOMAIN Results : i < j => ScoreOf[m[Results[i].id]] >= ScoreOf[m[Results[j].id]])
                    => OrderedInCategories(res, m)
        /\ \A k \in DOMAIN res : \E i \in DOMAIN Results : res[k] = Results[i]
        /\ Results # <<>> /\ (\A i \in DOMAIN Results : place[Results[1].category] <= place[Results[i].category])
             => res[1] = Results[1]
    BY <1>2, <1>4, GroupedRows
  <2> QED
    BY <1>2, <1>3, <1>4, <2>1
<1>6. ASSUME debouncedQuery # Blank, NEW k \in DOMAIN FlatResults PROVE Score(FlatResults[1]) >= Score(FlatResults[k])
  <2>1. PICK i \in DOMAIN Results : FlatResults[k] = Results[i]
    BY <1>5, <1>6
  <2>2. Len(Results) \in Nat /\ DOMAIN Results = 1..Len(Results)
    BY <1>2, LenProperties
  <2>3. 1 \in DOMAIN Results /\ Results # <<>>
    BY <2>1, <2>2
  <2>4. FlatResults[1] = Results[1]
    BY <1>5, <2>3
  <2>5. Score(Results[1]) \in Nat
    <3>1. Results[1] \in SearchRow
      BY <1>2, <2>3
    <3> QED
      BY <1>1, <1>6, <3>1 DEF match
  <2>6. Score(Results[1]) >= Score(Results[i])
    <3>1. i = 1 \/ 1 < i
      BY <2>1, <2>2
    <3>2. CASE i = 1
      <4> HIDE DEF Score
      <4> QED
        BY <2>5, <3>2
    <3>3. CASE 1 < i
      BY <1>2, <1>6, <2>1, <2>3, <3>3
    <3> QED
      BY <3>1, <3>2, <3>3
  <2> QED
    BY <2>1, <2>4, <2>6
<1> QED
  BY <1>5, <1>6 DEF match

LEMMA FlatResultsAreRows == SearchState => FlatResults \in Seq(SearchRow)
BY SearchShows

-----------------------------------------------------------------------------
(* Inductive: the row that is marked is one of those that are shown.        *)

SearchInv ==
  /\ SearchState
  /\ ~itemsMoved /\ FlatResults # <<>> => selectedIndex \in -1..(Len(FlatResults) - 1)

LEMMA SearchInitInv == SearchInit => SearchInv
<1> SUFFICES ASSUME SearchInit PROVE SearchInv
  OBVIOUS
<1>1. recentSearches \in Seq(Terms) /\ IsSet(recentSearches)
  BY DEF SearchInit, IsSet
<1>2. SearchState
  BY <1>1 DEF SearchInit, SearchState
<1>3. Len(FlatResults) \in Nat
  BY <1>2, FlatResultsAreRows, LenProperties
<1> QED
  BY <1>2, <1>3 DEF SearchInit, SearchInv

LEMMA SearchNextInv == SearchInv /\ (SearchNext \/ UNCHANGED searchVars) => SearchInv'
<1> SUFFICES ASSUME SearchInv, SearchNext \/ UNCHANGED searchVars PROVE SearchInv'
  OBVIOUS
<1>0. SearchState
  BY DEF SearchInv
<1>1. FlatResults \in Seq(SearchRow)
  BY <1>0, FlatResultsAreRows
<1>2. Len(FlatResults) \in Nat /\ (FlatResults # <<>> => Len(FlatResults) >= 1)
  BY <1>1, LenProperties, EmptySeq
<1>3. ASSUME UNCHANGED <<debouncedQuery, activeCategory, listed>> PROVE FlatResults' = FlatResults
  BY <1>3 DEF FlatResults, Results, InCategory, AllItems
<1>4. ASSUME SearchState', UNCHANGED <<debouncedQuery, activeCategory, selectedIndex, listed, itemsMoved>>
      PROVE  SearchInv'
  <2>1. FlatResults' = FlatResults
    BY <1>3, <1>4
  <2> QED
    BY <1>4, <2>1 DEF SearchInv
<1>5. ASSUME SearchState', NoMark PROVE SearchInv'
  <2>1. (SearchState => FlatResults \in Seq(SearchRow))'
    BY FlatResultsAreRows, PTL
  <2>2. Len(FlatResults') \in Nat /\ (FlatResults' # <<>> => Len(FlatResults') >= 1)
    BY <1>5, <2>1, LenProperties, EmptySeq
  <2>3. selectedIndex' = -1
    BY <1>5 DEF NoMark
  <2> QED
    BY <1>5, <2>2, <2>3 DEF SearchInv
<1>6. ASSUME NEW q \in Terms \cup {Blank}, SetQuery(q) PROVE SearchInv'
  <2>1. SearchState'
    BY <1>0, <1>6 DEF SetQuery, SearchState
  <2> QED
    BY <1>4, <1>6, <2>1 DEF SetQuery
<1>7. ASSUME NEW i \in DOMAIN recentSearches, SearchAgain(i) PROVE SearchInv'
  <2>1. recentSearches[i] \in Terms
    BY <1>0, <1>7 DEF SearchState
  <2> QED
    BY <1>6, <1>7, <2>1 DEF SearchAgain
<1>8. ASSUME NEW i \in DOMAIN recentSearches, RemoveSearch(i) PROVE SearchInv'
  <2> DEFINE I == {j \in DOMAIN recentSearches : recentSearches[j] # recentSearches[i]}
  <2>1. I \in SUBSET (DOMAIN recentSearches)
    OBVIOUS
  <2>2. recentSearches' = Kept(recentSearches, I)
    BY <1>8 DEF RemoveSearch
  <2> HIDE DEF I
  <2>3. recentSearches' \in Seq(Terms) /\ IsSet(recentSearches')
    BY <1>0, <2>1, <2>2, KeptRows DEF SearchState
  <2>4. SearchState'
    BY <1>0, <1>8, <2>3 DEF RemoveSearch, SearchState, IsSet
  <2> QED
    BY <1>4, <1>8, <2>4 DEF RemoveSearch
<1>9. CASE Debounce
  <2>1. SearchState'
    BY <1>0, <1>9 DEF Debounce, NoMark, SearchState
  <2> QED
    BY <1>5, <1>9, <2>1 DEF Debounce
<1>10. ASSUME NEW c \in SearchCategories \cup {"all"}, SetCategory(c) PROVE SearchInv'
  <2>1. SearchState'
    BY <1>0, <1>10 DEF SetCategory, NoMark, SearchState
  <2> QED
    BY <1>5, <1>10, <2>1 DEF SetCategory
<1>11. ASSUME NEW up \in BOOLEAN, MoveMark(up) PROVE SearchInv'
  <2> DEFINE last == Len(FlatResults) - 1
  <2>1. /\ itemsMoved' = itemsMoved
        /\ UNCHANGED <<query, debouncedQuery, activeCategory, recentSearches, listed>>
        /\ selectedIndex' = IF up THEN (IF selectedIndex > 0 THEN selectedIndex - 1 ELSE last)
                            ELSE (IF selectedIndex < last THEN selectedIndex + 1 ELSE 0)
    BY <1>11 DEF MoveMark
  <2>2. FlatResults' = FlatResults
    BY <1>3, <2>1
  <2>3. selectedIndex \in Int /\ selectedIndex' \in Int
    BY <1>0, <1>2, <2>1 DEF SearchState
  <2>4. SearchState'
    BY <1>0, <2>1, <2>3 DEF SearchState
  <2>5. ASSUME ~itemsMoved, FlatResults # <<>> PROVE selectedIndex' \in -1..(Len(FlatResults) - 1)
    <3>1. selectedIndex \in -1..(Len(FlatResults) - 1) /\ Len(FlatResults) >= 1
      BY <1>2, <2>5 DEF SearchInv
    <3> QED
      BY <1>2, <2>1, <2>3, <3>1
  <2> QED
    BY <2>1, <2>2, <2>4, <2>5 DEF SearchInv
<1>12. ASSUME HandleSelect PROVE SearchInv'
  <2>1. recentSearches' \in Seq(Terms) /\ IsSet(recentSearches')
    <3>1. CASE query = Blank
      BY <1>0, <1>12, <3>1 DEF HandleSelect, SearchState
    <3>2. CASE query # Blank
      <4>1. query \in Terms /\ MaxSearches \in Nat
        BY <1>0, <3>2, SearchAssumption DEF SearchState
      <4>2. recentSearches' = ToFront(recentSearches, query, MaxSearches)
        BY <1>12, <3>2 DEF HandleSelect
      <4> QED
        BY <1>0, <4>1, <4>2, ToFrontRows DEF SearchState
    <3> QED
      BY <3>1, <3>2
  <2>2. query' = Blank /\ debouncedQuery' = Blank /\ NoMark
    BY <1>12 DEF HandleSelect
  <2>3. SearchState'
    BY <2>1, <2>2 DEF NoMark, SearchState, IsSet
  <2> QED
    BY <1>5, <2>2, <2>3
<1>13. CASE EnterInSearch
  BY <1>12, <1>13 DEF EnterInSearch
<1>14. CASE ClickInSearch
  BY <1>12, <1>14 DEF ClickInSearch
<1>15. CASE ClearSearches
  <2>1. recentSearches' = <<>>
    BY <1>15 DEF ClearSearches
  <2>2. recentSearches' \in Seq(Terms) /\ IsSet(recentSearches')
    BY <2>1 DEF IsSet
  <2>3. SearchState'
    BY <1>0, <1>15, <2>2 DEF ClearSearches, SearchState, IsSet
  <2> QED
    BY <1>4, <1>15, <2>3 DEF ClearSearches
<1>16. CASE ItemsChange
  BY <1>0, <1>16 DEF ItemsChange, SearchInv, SearchState
<1>17. CASE UNCHANGED searchVars
  <2>1. SearchState'
    BY <1>0, <1>17 DEF searchVars, SearchState
  <2> QED
    BY <1>4, <1>17, <2>1 DEF searchVars
<1> QED
  BY <1>6, <1>7, <1>8, <1>9, <1>10, <1>11, <1>13, <1>14, <1>15, <1>16, <1>17 DEF SearchNext

LEMMA SearchInvOpensBest == SearchInv => EnterOpensBest
<1> SUFFICES ASSUME SearchInv PROVE EnterOpensBest
  OBVIOUS
<1>0. SearchState
  BY DEF SearchInv
<1>1. /\ FlatResults \in Seq(SearchRow) /\ IsSet(FlatResults)
      /\ debouncedQuery # Blank =>
           /\ OrderedInCategories(FlatResults, MatchesOf[debouncedQuery])
           /\ \A i \in DOMAIN FlatResults :
                ScoreOf[MatchesOf[debouncedQuery][FlatResults[1].id]]
                  >= ScoreOf[MatchesOf[debouncedQuery][FlatResults[i].id]]
  BY <1>0, SearchShows
<1>2. /\ Len(FlatResults) \in Nat /\ DOMAIN FlatResults = 1..Len(FlatResults)
      /\ (FlatResults # <<>> => Len(FlatResults) >= 1)
  BY <1>1, LenProperties, EmptySeq
<1>3. ASSUME FlatResults # <<>>, ~itemsMoved PROVE Target \in DOMAIN FlatResults
  <2>1. selectedIndex \in -1..(Len(FlatResults) - 1) /\ selectedIndex \in Int
    BY <1>0, <1>3 DEF SearchInv, SearchState
  <2> QED
    BY <1>2, <1>3, <2>1 DEF Target
<1>4. ASSUME query # Blank, query = debouncedQuery, selectedIndex = -1, NEW i \in DOMAIN FlatResults
      PROVE  ScoreOf[MatchesOf[query][FlatResults[Target].id]] >= ScoreOf[MatchesOf[query][FlatResults[i].id]]
  <2>1. Target = 1
    BY <1>4 DEF Target
  <2> QED
    BY <1>1, <1>4, <2>1
<1> QED
  BY <1>0, <1>1, <1>3, <1>4 DEF SearchState, EnterOpensBest

-----------------------------------------------------------------------------
(* TopologyMap.                                                             *)

\* A filter of a list.
LEMMA OnlyRows ==
  ASSUME NEW S, NEW s \in Seq(S), NEW W
  PROVE  /\ Only(s, W) \in Seq(S) /\ Range(Only(s, W)) = Range(s) \cap W
         /\ IsSet(s) => IsSet(Only(s, W))
<1> DEFINE I == {j \in DOMAIN s : s[j] \in W}
           res == Kept(s, I)
<1>1. I \in SUBSET (DOMAIN s)
  OBVIOUS
<1>2. Only(s, W) = res
  BY DEF Only
<1>3. /\ \A i \in I : i \in DOMAIN s /\ s[i] \in W
      /\ \A i \in DOMAIN s : s[i] \in W => i \in I
  OBVIOUS
<1> HIDE DEF I
<1>4. /\ res \in Seq(S) /\ (IsSet(s) => IsSet(res))
      /\ \A k \in DOMAIN res : \E i \in I : res[k] = s[i]
      /\ \A i \in I : \E k \in DOMAIN res : res[k] = s[i]
  BY <1>1, KeptRows
<1> HIDE DEF res
<1>5. Range(res) = Range(s) \cap W
  BY <1>3, <1>4 DEF Range
<1> QED
  BY <1>2, <1>4, <1>5

\* A list, and what else is in another one: each once.
LEMMA AddedRows ==
  ASSUME NEW S, NEW s \in Seq(S), NEW t \in Seq(S), IsSet(s)
  PROVE  /\ AddMissing(s, t) \in Seq(S) /\ IsSet(AddMissing(s, t))
         /\ Range(AddMissing(s, t)) = Range(s) \cup Range(t)
<1> DEFINE I == {j \in DOMAIN t : t[j] \notin Range(s) /\ \A i \in 1..(j - 1) : t[i] # t[j]}
           res == Kept(t, I)
<1>1. I \in SUBSET (DOMAIN t)
  OBVIOUS
<1>2. AddMissing(s, t) = s \o res
  BY DEF AddMissing
<1>3. Len(t) \in Nat /\ DOMAIN t = 1..Len(t)
  BY LenProperties
<1>4. \A i, j \in I : i # j => t[i] # t[j]
  <2>1. ASSUME NEW i \in I, NEW j \in I, i < j PROVE t[i] # t[j]
    BY <1>3, <2>1
  <2>2. ASSUME NEW i \in I, NEW j \in I, i # j PROVE i < j \/ j < i
    BY <1>3, <2>2
  <2> HIDE DEF I
  <2> QED
    BY <2>1, <2>2
<1>5. \A j \in DOMAIN t : t[j] \in Range(s) \/ \E i \in I : t[i] = t[j]
  <2> SUFFICES ASSUME NEW j \in DOMAIN t, t[j] \notin Range(s) PROVE \E i \in I : t[i] = t[j]
    OBVIOUS
  <2> DEFINE Same == {i \in DOMAIN t : t[i] = t[j]}
             m == Min(Same)
  <2>1. Same \in SUBSET Nat /\ Same # {}
    BY <1>3
  <2>2. m \in Same /\ \A i \in Same : m <= i
    <3> HIDE DEF Same
    <3> QED
      BY <2>1, MinOfPlaces
  <2> HIDE DEF m
  <2>3. m \in DOMAIN t /\ t[m] = t[j]
    BY <2>2
  <2>4. ASSUME NEW i \in 1..(m - 1) PROVE t[i] # t[m]
    <3>1. i \in DOMAIN t /\ ~(m <= i)
      BY <1>3, <2>3
    <3>2. i \notin Same
      <4> HIDE DEF Same
      <4> QED
        BY <2>2, <3>1
    <3> QED
      BY <2>3, <3>1, <3>2
  <2>5. m \in I
    BY <2>3, <2>4
  <2> QED
    BY <2>3, <2>5
<1>6. \A i \in I : t[i] \notin Range(s) /\ i \in DOMAIN t
  OBVIOUS
<1> HIDE DEF I
<1> DEFINE n == Cardinality(I)
           ahead == {e \in I \X I : e[1] < e[2]}
<1>7. IsFiniteSet(I) /\ n \in Nat
  <2>1. IsFiniteSet(1..Len(t))
    BY <1>3, FS_Interval
  <2>2. IsFiniteSet(I)
    BY <1>1, <1>3, <2>1, FS_Subset
  <2> QED
    BY <2>2, FS_CardinalityType
<1>8. StrictOrder(I, ahead)
  <2>1. I \in SUBSET Int
    BY <1>1, <1>3
  <2> QED
    BY <2>1, PlacesInOrder
<1>9. res = Arrange(t, I, ahead)
  BY DEF Kept
<1> HIDE DEF ahead
<1>10. /\ res \in Seq(S) /\ DOMAIN res = 1..n
       /\ \A k \in DOMAIN res : \E i \in I : res[k] = t[i]
       /\ \A i \in I : \E k \in DOMAIN res : res[k] = t[i]
  <2>1. /\ res \in Seq(S) /\ Len(res) = Cardinality(I)
        /\ \A k \in DOMAIN res : \E i \in I : res[k] = t[i]
        /\ \A i \in I : \E k \in DOMAIN res : res[k] = t[i]
    BY <1>1, <1>8, <1>9, ArrangedRows
  <2> HIDE DEF res
  <2> QED
    BY <2>1, LenProperties
<1>11. IsSet(res)
  <2>1. PICK p : Numbering(p, I, ahead) /\ \A k \in 1..n : Arrange(t, I, ahead)[k] = t[p[k]]
    <3>1. HasPlaces(t, I, ahead)
      BY <1>7, <1>8, ArrangedAt
    <3> QED
      BY <3>1 DEF HasPlaces
  <2>2. ASSUME NEW k \in 1..n, NEW l \in 1..n, k # l PROVE res[k] # res[l]
    <3>1. p[k] \in I /\ p[l] \in I /\ p[k] # p[l]
      BY <2>1, <2>2 DEF Numbering
    <3>2. res[k] = t[p[k]] /\ res[l] = t[p[l]]
      BY <1>9, <2>1
    <3> QED
      BY <1>4, <3>1, <3>2
  <2> HIDE DEF res
  <2> QED
    BY <1>10, <2>2 DEF IsSet
<1> HIDE DEF res, n
<1>12. \A i \in DOMAIN s, j \in DOMAIN res : s[i] # res[j]
  BY <1>6, <1>10 DEF Range
<1>13. s \o res \in Seq(S) /\ IsSet(s \o res) /\ Range(s \o res) = Range(s) \cup Range(res)
  <2>1. res \in Seq(S)
    BY <1>10
  <2> QED
    BY <1>11, <1>12, <2>1, JoinedRows
<1>14. Range(s) \cup Range(res) = Range(s) \cup Range(t)
  BY <1>5, <1>6, <1>10 DEF Range
<1> QED
  BY <1>2, <1>13, <1>14

\* The ids tell the things apart, and no host or NoParent is one of them.
LEMMA ThingsByIds ==
  /\ MapThings \in Seq(MapThing) /\ IsSet(MapThings)
  /\ \A t, u \in Range(MapThings) : t.id = u.id => t = u
  /\ \A t \in Range(MapThings) : /\ t \in MapThing /\ t.host \in Range(MapHosts)
                                 /\ t.id \notin Range(MapHosts) /\ t.id # NoParent
<1>1. MapThings \in Seq(MapThing)
  BY MapAssumption
<1>2. \A i \in DOMAIN MapThings : MapThings[i] \in MapThing
  BY <1>1
<1>3. IsSet(MapThings)
  BY MapAssumption DEF IsSet
<1>4. ASSUME NEW t \in Range(MapThings), NEW u \in Range(MapThings), t.id = u.id PROVE t = u
  <2>1. PICK i \in DOMAIN MapThings : t = MapThings[i]
    BY DEF Range
  <2>2. PICK j \in DOMAIN MapThings : u = MapThings[j]
    BY DEF Range
  <2> QED
    BY <1>4, <2>1, <2>2, MapAssumption
<1>5. ASSUME NEW t \in Range(MapThings)
      PROVE  t \in MapThing /\ t.host \in Range(MapHosts) /\ t.id \notin Range(MapHosts) /\ t.id # NoParent
  <2>1. PICK i \in DOMAIN MapThings : t = MapThings[i]
    BY DEF Range
  <2>2. t \in MapThing
    BY <1>2, <2>1
  <2>3. t.host \in Range(MapHosts)
    BY <2>2 DEF MapThing
  <2>4. t.id \notin Range(MapHosts) \cup {NoParent}
    BY <2>1, MapAssumption
  <2> QED
    BY <2>2, <2>3, <2>4
<1> QED
  BY <1>1, <1>3, <1>4, <1>5

GraphOK(G) ==
  /\ G.hosts \in Seq(Range(MapHosts)) /\ IsSet(G.hosts)
  /\ G.things \in Seq(Range(MapThings)) /\ IsSet(G.things)
  /\ \A t \in Range(G.things) : t.host \in Range(G.hosts)

LEMMA GraphsAreOK ==
  ASSUME NEW H \in SUBSET (DOMAIN MapHosts), NEW G \in GraphsOf(H)
  PROVE  GraphOK(G)
<1> DEFINE J == {j \in DOMAIN MapThings : \E i \in H : MapThings[j].host = MapHosts[i]}
<1>1. PICK T \in SUBSET J : G.hosts = Kept(MapHosts, H) /\ G.things = Kept(MapThings, T)
  BY DEF GraphsOf
<1>2. T \in SUBSET (DOMAIN MapThings) /\ \A j \in T : \E i \in H : MapThings[j].host = MapHosts[i]
  OBVIOUS
<1>3. MapThings \in Seq(Range(MapThings)) /\ IsSet(MapThings)
  <2>1. Len(MapThings) \in Nat /\ MapThings \in [1..Len(MapThings) -> MapThing]
    BY ThingsByIds, LenProperties
  <2>2. MapThings \in [1..Len(MapThings) -> Range(MapThings)]
    BY <2>1 DEF Range
  <2> QED
    BY <2>1, <2>2, ThingsByIds
<1>4. MapHosts \in Seq(Range(MapHosts)) /\ IsSet(MapHosts)
  BY MapAssumption
<1>5. /\ G.hosts \in Seq(Range(MapHosts)) /\ IsSet(G.hosts)
      /\ \A i \in H : \E k \in DOMAIN G.hosts : G.hosts[k] = MapHosts[i]
  BY <1>1, <1>4, KeptRows
<1>6. /\ G.things \in Seq(Range(MapThings)) /\ IsSet(G.things)
      /\ \A k \in DOMAIN G.things : \E j \in T : G.things[k] = MapThings[j]
  BY <1>1, <1>2, <1>3, KeptRows
<1>7. ASSUME NEW t \in Range(G.things) PROVE t.host \in Range(G.hosts)
  <2>1. PICK k \in DOMAIN G.things : t = G.things[k]
    BY DEF Range
  <2>2. PICK j \in T : t = MapThings[j]
    BY <1>6, <2>1
  <2>3. PICK i \in H : t.host = MapHosts[i]
    BY <1>2, <2>2
  <2> QED
    BY <1>5, <2>3 DEF Range
<1> QED
  BY <1>5, <1>6, <1>7 DEF GraphOK

MapRow == [id : Range(MapHosts) \cup {t.id : t \in Range(MapThings)}, in : Range(MapHosts) \cup {NoParent}]

\* Things drawn in one place: a row for each.
LEMMA InsideRows ==
  ASSUME NEW s \in Seq(Range(MapThings)), IsSet(s), NEW h \in Range(MapHosts) \cup {NoParent}
  PROVE  /\ Inside(h, s) \in Seq(MapRow) /\ IsSet(Inside(h, s))
         /\ Range(Inside(h, s)) = {[id |-> t.id, in |-> h] : t \in Range(s)}
<1> DEFINE res == Inside(h, s)
<1>1. Len(s) \in Nat /\ DOMAIN s = 1..Len(s) /\ \A i \in DOMAIN s : s[i] \in Range(MapThings)
  BY LenProperties, ElementOfSeq
<1>2. DOMAIN res = DOMAIN s /\ \A i \in DOMAIN s : res[i] = [id |-> s[i].id, in |-> h]
  BY DEF Inside
<1>3. \A i \in DOMAIN s : res[i] \in MapRow
  BY <1>1, <1>2 DEF MapRow
<1>4. res \in [1..Len(s) -> MapRow]
  <2>1. res = [i \in 1..Len(s) |-> res[i]]
    BY <1>1 DEF Inside
  <2> HIDE DEF res
  <2> QED
    BY <1>1, <1>3, <2>1
<1>5. res \in Seq(MapRow)
  BY <1>1, <1>4
<1> HIDE DEF res
<1>6. IsSet(res)
  <2>1. ASSUME NEW i \in DOMAIN s, NEW j \in DOMAIN s, i # j PROVE res[i] # res[j]
    <3>1. s[i] # s[j] /\ s[i] \in Range(MapThings) /\ s[j] \in Range(MapThings)
      BY <1>1, <2>1 DEF IsSet
    <3>2. s[i].id # s[j].id
      BY <3>1, ThingsByIds
    <3>3. res[i].id = s[i].id /\ res[j].id = s[j].id
      BY <1>2
    <3> QED
      BY <3>2, <3>3
  <2> QED
    BY <1>2, <2>1 DEF IsSet
<1>7. Range(res) = {[id |-> t.id, in |-> h] : t \in Range(s)}
  BY <1>2 DEF Range
<1> QED
  BY <1>5, <1>6, <1>7 DEF res

LEMMA HostRowsDrawn ==
  ASSUME GraphOK(graph)
  PROVE  /\ HostRows \in Seq(MapRow) /\ IsSet(HostRows)
         /\ Range(HostRows) = {HostRow(h) : h \in Range(graph.hosts)}
<1>1. Len(graph.hosts) \in Nat /\ DOMAIN graph.hosts = 1..Len(graph.hosts)
      /\ \A i \in DOMAIN graph.hosts : graph.hosts[i] \in Range(MapHosts)
  BY LenProperties, ElementOfSeq DEF GraphOK
<1>2. DOMAIN HostRows = DOMAIN graph.hosts /\ \A i \in DOMAIN graph.hosts : HostRows[i] = HostRow(graph.hosts[i])
  BY DEF HostRows
<1>3. \A i \in DOMAIN graph.hosts : HostRows[i] \in MapRow /\ HostRows[i].id = graph.hosts[i]
  <2>1. \A h \in Range(MapHosts) : HostRow(h) \in MapRow /\ HostRow(h).id = h
    BY DEF MapRow, HostRow
  <2> QED
    BY <1>1, <1>2, <2>1
<1>4. HostRows \in [1..Len(graph.hosts) -> MapRow]
  <2>1. HostRows = [i \in 1..Len(graph.hosts) |-> HostRows[i]]
    BY <1>1 DEF HostRows
  <2> QED
    BY <1>1, <1>3, <2>1
<1>5. HostRows \in Seq(MapRow)
  BY <1>1, <1>4
<1>6. IsSet(HostRows)
  BY <1>2, <1>3 DEF IsSet, GraphOK
<1>7. Range(HostRows) = {HostRow(h) : h \in Range(graph.hosts)}
  BY <1>2 DEF Range
<1> QED
  BY <1>5, <1>6, <1>7

\* The things of a host, each once.
LEMMA ChildrenOfHost ==
  ASSUME GraphOK(graph), NEW h, NEW types
  PROVE  /\ Children(h, types) \in Seq(Range(MapThings)) /\ IsSet(Children(h, types))
         /\ Range(Children(h, types)) = OfHost(h) \cap OfType(types)
<1> DEFINE leads == OfHost(h) \cap OfType(types)
           known == {t \in leads : Label(t) \in {"runs", "has_storage", "has_network"}}
<1>1. leads \in SUBSET Range(graph.things) /\ known \in SUBSET leads
  BY DEF OfHost
<1>2. Children(h, types) = AddMissing(Only(graph.things, known), Only(graph.things, leads))
  BY DEF Children
<1> HIDE DEF leads, known
<1>3. graph.things \in Seq(Range(MapThings)) /\ IsSet(graph.things)
  BY DEF GraphOK
<1>4. /\ Only(graph.things, known) \in Seq(Range(MapThings)) /\ IsSet(Only(graph.things, known))
      /\ Range(Only(graph.things, known)) = Range(graph.things) \cap known
  BY <1>3, OnlyRows
<1>5. /\ Only(graph.things, leads) \in Seq(Range(MapThings)) /\ IsSet(Only(graph.things, leads))
      /\ Range(Only(graph.things, leads)) = Range(graph.things) \cap leads
  BY <1>3, OnlyRows
<1>6. /\ Children(h, types) \in Seq(Range(MapThings)) /\ IsSet(Children(h, types))
      /\ Range(Children(h, types)) = Range(Only(graph.things, known)) \cup Range(Only(graph.things, leads))
  BY <1>2, <1>4, <1>5, AddedRows
<1>7. (Range(graph.things) \cap known) \cup (Range(graph.things) \cap leads) = leads
  BY <1>1
<1> QED
  BY <1>4, <1>5, <1>6, <1>7 DEF leads

\* A host with what is drawn inside of it.
LEMMA HostGroupRows ==
  ASSUME GraphOK(graph), NEW h \in Range(graph.hosts)
  PROVE  LET res == HostGroup(h)
             inner == OfHost(h) \cap OfType(Guest) \cap (IF h \in expandedHosts THEN Passing ELSE {}) IN
         /\ res \in Seq(MapRow) /\ IsSet(res) /\ 1 \in DOMAIN res /\ res[1] = HostRow(h)
         /\ Range(res) = {HostRow(h)} \cup {[id |-> t.id, in |-> h] : t \in inner}
<1> DEFINE among == IF h \in expandedHosts THEN Passing ELSE {}
           inner == OfHost(h) \cap OfType(Guest) \cap among
           guests == Only(Children(h, Guest), among)
           res == HostGroup(h)
<1>1. res = <<HostRow(h)>> \o Inside(h, guests)
  BY DEF HostGroup
<1>2. h \in Range(MapHosts) /\ h # NoParent
  <2>1. PICK i \in DOMAIN graph.hosts : h = graph.hosts[i]
    BY DEF Range
  <2>2. graph.hosts \in Seq(Range(MapHosts))
    BY DEF GraphOK
  <2> QED
    BY <2>1, <2>2, MapAssumption
<1> HIDE DEF among
<1>3. guests \in Seq(Range(MapThings)) /\ IsSet(guests) /\ Range(guests) = inner
  <2>1. /\ Children(h, Guest) \in Seq(Range(MapThings)) /\ IsSet(Children(h, Guest))
        /\ Range(Children(h, Guest)) = OfHost(h) \cap OfType(Guest)
    BY ChildrenOfHost
  <2> QED
    BY <2>1, OnlyRows
<1> HIDE DEF guests, inner
<1>4. /\ Inside(h, guests) \in Seq(MapRow) /\ IsSet(Inside(h, guests))
      /\ Range(Inside(h, guests)) = {[id |-> t.id, in |-> h] : t \in inner}
  BY <1>2, <1>3, InsideRows
<1> DEFINE first == <<HostRow(h)>>
<1>5. /\ first \in Seq(MapRow) /\ IsSet(first) /\ Range(first) = {HostRow(h)}
      /\ 1 \in DOMAIN first /\ first[1] = HostRow(h) /\ DOMAIN first = {1}
  <2>1. HostRow(h) \in MapRow
    BY <1>2 DEF MapRow, HostRow
  <2>2. DOMAIN first = {1} /\ first[1] = HostRow(h) /\ first \in Seq(MapRow)
    BY <2>1
  <2> HIDE DEF first
  <2> QED
    BY <2>2 DEF IsSet, Range
<1>6. \A i \in DOMAIN first, j \in DOMAIN Inside(h, guests) : first[i] # Inside(h, guests)[j]
  <2>1. \A j \in DOMAIN Inside(h, guests) : Inside(h, guests)[j].in = h
    BY DEF Inside
  <2>2. HostRow(h).in = NoParent
    BY DEF HostRow
  <2> QED
    BY <1>2, <1>5, <2>1, <2>2
<1> HIDE DEF first
<1>7. /\ first \o Inside(h, guests) \in Seq(MapRow) /\ IsSet(first \o Inside(h, guests))
      /\ Range(first \o Inside(h, guests)) = Range(first) \cup Range(Inside(h, guests))
      /\ \A i \in DOMAIN first : i \in DOMAIN (first \o Inside(h, guests)) /\ (first \o Inside(h, guests))[i] = first[i]
  <2>1. first \in Seq(MapRow) /\ IsSet(first)
    BY <1>5
  <2>2. Inside(h, guests) \in Seq(MapRow) /\ IsSet(Inside(h, guests))
    BY <1>4
  <2> QED
    BY <1>6, <2>1, <2>2, JoinedRows
<1>8. res = first \o Inside(h, guests)
  BY <1>1 DEF first
<1> HIDE DEF res
<1>9. res \in Seq(MapRow) /\ IsSet(res) /\ 1 \in DOMAIN res /\ res[1] = HostRow(h)
  BY <1>5, <1>7, <1>8
<1>10. Range(res) = {HostRow(h)} \cup {[id |-> t.id, in |-> h] : t \in inner}
  BY <1>4, <1>5, <1>7, <1>8
<1> QED
  BY <1>9, <1>10 DEF res, inner, among

\* What is drawn as it should be: each thing once, and what is inside of a host after it.
Drawn(things) ==
  /\ things \in Seq(MapRow) /\ IsSet(things)
  /\ \A h \in Range(graph.hosts) : HostRow(h) \in Range(things)
  /\ \A r, q \in Range(things) : r.id = q.id => r.in = q.in
  /\ \A k \in DOMAIN things : things[k].in # NoParent =>
       /\ \E l \in 1..(k - 1) : things[l].id = things[k].in
       /\ \E t \in Range(graph.things) : t.id = things[k].id /\ t.host = things[k].in

LEMMA GraphThings ==
  ASSUME GraphOK(graph)
  PROVE  /\ Range(graph.things) \in SUBSET Range(MapThings) /\ Range(graph.hosts) \in SUBSET Range(MapHosts)
         /\ \A t \in Range(graph.things) : t.host \in Range(graph.hosts) /\ t.id \notin Range(graph.hosts)
<1>1. Range(graph.things) \in SUBSET Range(MapThings)
  <2>1. \A k \in DOMAIN graph.things : graph.things[k] \in Range(MapThings)
    BY DEF GraphOK
  <2> QED
    BY <2>1 DEF Range
<1>2. Range(graph.hosts) \in SUBSET Range(MapHosts)
  <2>1. \A k \in DOMAIN graph.hosts : graph.hosts[k] \in Range(MapHosts)
    BY DEF GraphOK
  <2> QED
    BY <2>1 DEF Range
<1>3. \A t \in Range(graph.things) : t.host \in Range(graph.hosts)
  BY DEF GraphOK
<1>4. \A t \in Range(MapThings) : t.id \notin Range(MapHosts)
  BY ThingsByIds
<1> QED
  BY <1>1, <1>2, <1>3, <1>4

LEMMA ClusterShows ==
  ASSUME GraphOK(graph)
  PROVE  Drawn(ClusterNodes)
<1>1. /\ ClusterNodes \in Seq(MapRow) /\ IsSet(ClusterNodes)
      /\ Range(ClusterNodes) = {HostRow(h) : h \in Range(graph.hosts)}
  BY HostRowsDrawn DEF ClusterNodes
<1>2. \A r \in Range(ClusterNodes) : r.in = NoParent
  BY <1>1 DEF HostRow
<1>3. \A k \in DOMAIN ClusterNodes : ClusterNodes[k] \in Range(ClusterNodes)
  BY DEF Range
<1>4. \A h \in Range(graph.hosts) : HostRow(h) \in Range(ClusterNodes)
  BY <1>1
<1> QED
  BY <1>1, <1>2, <1>3, <1>4 DEF Drawn

LEMMA PlacedGuestRows ==
  ASSUME GraphOK(graph)
  PROVE  /\ PlacedGuests \in Seq(Range(MapThings)) /\ IsSet(PlacedGuests)
         /\ Range(PlacedGuests) = OfType(Guest)
<1> DEFINE n == Len(graph.hosts)
           S == Range(MapThings)
           W(i) == OfHost(graph.hosts[i]) \cap OfType(Guest)
           f == [i \in DOMAIN graph.hosts |-> Only(graph.things, W(i))]
           first == Joined(f)
           all == Only(graph.things, OfType(Guest))
<1>1. PlacedGuests = AddMissing(first, all)
  BY DEF PlacedGuests
<1>2. n \in Nat /\ DOMAIN graph.hosts = 1..n
  BY LenProperties DEF GraphOK
<1>3. graph.things \in Seq(S) /\ IsSet(graph.things)
  BY DEF GraphOK
<1>4. \A i \in 1..n : f[i] = Only(graph.things, W(i))
  BY <1>2
<1>5. \A i \in 1..n : W(i) \in SUBSET OfType(Guest) /\ \A t \in W(i) : t.host = graph.hosts[i]
  BY DEF OfHost
<1>6. \A i, j \in 1..n : i # j => graph.hosts[i] # graph.hosts[j]
  BY <1>2 DEF GraphOK, IsSet
<1>7. \A i \in 1..n : f[i] \in Seq(S) /\ IsSet(f[i]) /\ Range(f[i]) = Range(graph.things) \cap W(i)
  <2> HIDE DEF W, f
  <2> QED
    BY <1>3, <1>4, OnlyRows
<1>8. f \in [1..n -> Seq(S)]
  <2>1. f = [i \in 1..n |-> f[i]]
    BY <1>2
  <2> HIDE DEF f
  <2> QED
    BY <1>7, <2>1
<1> HIDE DEF f, W, n, S
<1>9. \A i \in 1..n : \A k \in DOMAIN f[i] : f[i][k] \in W(i)
  BY <1>7 DEF Range
<1>10. \A i, j \in 1..n : i # j => \A k \in DOMAIN f[i], l \in DOMAIN f[j] : f[i][k] # f[j][l]
  BY <1>5, <1>6, <1>9
<1>11. /\ first \in Seq(S) /\ IsSet(first)
       /\ \A k \in DOMAIN first : \E i \in 1..n : \E j \in DOMAIN f[i] : first[k] = f[i][j]
  <2>1. n \in Nat /\ f \in [1..n -> Seq(S)]
    BY <1>2, <1>8
  <2>2. first \in Seq(S)
    BY <2>1, JoinedLists
  <2>3. \A k \in DOMAIN first : \E i \in 1..n : \E j \in DOMAIN f[i] : first[k] = f[i][j]
    <3>1. AfterFirst(first, n, f)
      BY <2>1, JoinedLists
    <3> QED
      BY <3>1 DEF AfterFirst
  <2>4. (/\ \A i \in 1..n : IsSet(f[i])
         /\ \A i, j \in 1..n : i # j => \A k \in DOMAIN f[i], l \in DOMAIN f[j] : f[i][k] # f[j][l])
           => IsSet(first)
    BY <2>1, JoinedLists
  <2> QED
    BY <1>7, <1>10, <2>2, <2>3, <2>4
<1> HIDE DEF first
<1>12. Range(first) \in SUBSET OfType(Guest)
  BY <1>5, <1>9, <1>11 DEF Range
<1>13. /\ all \in Seq(S) /\ Range(all) = OfType(Guest)
  <2>1. OfType(Guest) \in SUBSET Range(graph.things)
    BY DEF OfType
  <2>2. all \in Seq(S) /\ Range(all) = Range(graph.things) \cap OfType(Guest)
    BY <1>3, OnlyRows
  <2> QED
    BY <2>1, <2>2
<1> HIDE DEF all
<1>14. /\ AddMissing(first, all) \in Seq(S) /\ IsSet(AddMissing(first, all))
       /\ Range(AddMissing(first, all)) = Range(first) \cup Range(all)
  BY <1>11, <1>13, AddedRows
<1> QED
  BY <1>1, <1>12, <1>13, <1>14 DEF S

\* The network view: everything side by side.
LEMMA NetworkShows ==
  ASSUME GraphOK(graph)
  PROVE  /\ Drawn(NetworkNodes)
         /\ \A t \in OfType(Guest \cup {"network"}) : \E r \in Range(NetworkNodes) : r.id = t.id
<1> DEFINE bridges == Inside(NoParent, Only(graph.things, OfType({"network"})))
           guests == Inside(NoParent, PlacedGuests)
           right == HostRows \o guests
           Beside(X) == {[id |-> t.id, in |-> NoParent] : t \in X}
<1>1. NetworkNodes = bridges \o right
  BY DEF NetworkNodes
<1>2. /\ bridges \in Seq(MapRow) /\ IsSet(bridges)
      /\ Range(bridges) = Beside(OfType({"network"}))
  <2>1. graph.things \in Seq(Range(MapThings)) /\ IsSet(graph.things)
    BY DEF GraphOK
  <2>2. OfType({"network"}) \in SUBSET Range(graph.things)
    BY DEF OfType
  <2>3. /\ Only(graph.things, OfType({"network"})) \in Seq(Range(MapThings))
        /\ IsSet(Only(graph.things, OfType({"network"})))
        /\ Range(Only(graph.things, OfType({"network"}))) = Range(graph.things) \cap OfType({"network"})
    BY <2>1, OnlyRows
  <2>4. Range(graph.things) \cap OfType({"network"}) = OfType({"network"})
    BY <2>2
  <2> QED
    BY <2>3, <2>4, InsideRows
<1>3. guests \in Seq(MapRow) /\ IsSet(guests) /\ Range(guests) = Beside(OfType(Guest))
  BY PlacedGuestRows, InsideRows
<1>4. HostRows \in Seq(MapRow) /\ IsSet(HostRows) /\ Range(HostRows) = {HostRow(h) : h \in Range(graph.hosts)}
  BY HostRowsDrawn
<1> HIDE DEF bridges, guests
<1>5. \A t \in OfType({"network"}) : /\ t \in Range(MapThings) /\ t.id \notin Range(graph.hosts)
                                     /\ \A u \in OfType(Guest) : t.id # u.id
  <2>1. \A t \in OfType({"network"}), u \in OfType(Guest) : t # u
    BY DEF OfType, Guest
  <2>2. \A types : OfType(types) \in SUBSET Range(graph.things)
    BY DEF OfType
  <2> QED
    BY <2>1, <2>2, GraphThings, ThingsByIds
<1>6. \A t \in OfType(Guest) : t.id \notin Range(graph.hosts)
  BY GraphThings DEF OfType
<1>7. right \in Seq(MapRow) /\ IsSet(right) /\ Range(right) = Range(HostRows) \cup Range(guests)
  <2>1. \A i \in DOMAIN HostRows, j \in DOMAIN guests : HostRows[i] # guests[j]
    <3>1. \A i \in DOMAIN HostRows : HostRows[i].id \in Range(graph.hosts)
      BY <1>4 DEF HostRow, Range
    <3>2. \A j \in DOMAIN guests : guests[j].id \notin Range(graph.hosts)
      <4>1. \A j \in DOMAIN guests : guests[j] \in Beside(OfType(Guest))
        BY <1>3 DEF Range
      <4> QED
        BY <1>6, <4>1
    <3> QED
      BY <3>1, <3>2
  <2> QED
    BY <1>3, <1>4, <2>1, JoinedRows
<1> HIDE DEF right
<1>8. /\ bridges \o right \in Seq(MapRow) /\ IsSet(bridges \o right)
      /\ Range(bridges \o right) = Range(bridges) \cup Range(right)
  <2>1. \A i \in DOMAIN bridges, j \in DOMAIN right : bridges[i] # right[j]
    <3>1. \A i \in DOMAIN bridges : \E t \in OfType({"network"}) : bridges[i].id = t.id
      <4>1. \A i \in DOMAIN bridges : bridges[i] \in Beside(OfType({"network"}))
        BY <1>2 DEF Range
      <4> QED
        BY <4>1
    <3>2. \A j \in DOMAIN right : right[j].id \in Range(graph.hosts) \/ \E t \in OfType(Guest) : right[j].id = t.id
      <4>1. \A j \in DOMAIN right : right[j] \in Range(HostRows) \cup Range(guests)
        BY <1>7 DEF Range
      <4>2. \A r \in Range(HostRows) : r.id \in Range(graph.hosts)
        BY <1>4 DEF HostRow
      <4>3. \A r \in Range(guests) : \E t \in OfType(Guest) : r.id = t.id
        BY <1>3
      <4> QED
        BY <4>1, <4>2, <4>3
    <3> QED
      BY <1>5, <3>1, <3>2
  <2> QED
    BY <1>2, <1>7, <2>1, JoinedRows
<1>9. Range(NetworkNodes) = Beside(OfType({"network"})) \cup {HostRow(h) : h \in Range(graph.hosts)} \cup Beside(OfType(Guest))
  BY <1>1, <1>2, <1>3, <1>4, <1>7, <1>8
<1>10. \A r \in Range(NetworkNodes) : r.in = NoParent
  BY <1>9 DEF HostRow
<1>11. \A k \in DOMAIN NetworkNodes : NetworkNodes[k] \in Range(NetworkNodes)
  BY DEF Range
<1>12. \A t \in OfType(Guest \cup {"network"}) : [id |-> t.id, in |-> NoParent] \in Range(NetworkNodes)
  <2>1. \A t \in OfType(Guest \cup {"network"}) : t \in OfType(Guest) \/ t \in OfType({"network"})
    BY DEF OfType
  <2> QED
    BY <1>9, <2>1
<1>13. \A h \in Range(graph.hosts) : HostRow(h) \in Range(NetworkNodes)
  BY <1>9
<1>14. Drawn(NetworkNodes)
  BY <1>1, <1>8, <1>10, <1>11, <1>13 DEF Drawn
<1> QED
  BY <1>12, <1>14

\* The groups of the hosts, one after the other.
LEMMA GroupsShow ==
  ASSUME GraphOK(graph)
  PROVE  LET res == Joined([i \in DOMAIN graph.hosts |-> HostGroup(graph.hosts[i])]) IN
         /\ res \in Seq(MapRow) /\ IsSet(res)
         /\ \A h \in Range(graph.hosts) : HostRow(h) \in Range(res)
         /\ \A r \in Range(res) :
              \/ \E h \in Range(graph.hosts) : r = HostRow(h)
              \/ \E t \in OfType(Guest) : r = [id |-> t.id, in |-> t.host]
         /\ \A k \in DOMAIN res : res[k].in # NoParent => \E l \in 1..(k - 1) : res[l] = HostRow(res[k].in)
         /\ \A t \in OfType(Guest) \cap Passing :
              t.host \in expandedHosts => [id |-> t.id, in |-> t.host] \in Range(res)
<1> DEFINE n == Len(graph.hosts)
           h(i) == graph.hosts[i]
           f == [i \in DOMAIN graph.hosts |-> HostGroup(h(i))]
           inner(i) == OfHost(h(i)) \cap OfType(Guest) \cap (IF h(i) \in expandedHosts THEN Passing ELSE {})
           res == Joined(f)
<1>1. n \in Nat /\ DOMAIN graph.hosts = 1..n
  BY LenProperties DEF GraphOK
<1>2. \A i \in 1..n : h(i) \in Range(graph.hosts) /\ h(i) # NoParent
  <2>1. \A i \in 1..n : h(i) \in Range(graph.hosts)
    BY <1>1 DEF Range
  <2> HIDE DEF h
  <2> QED
    BY <2>1, GraphThings, MapAssumption
<1>3. \A i, j \in 1..n : i # j => h(i) # h(j)
  BY <1>1 DEF GraphOK, IsSet
<1>4. \A g \in Range(graph.hosts) : \E i \in 1..n : g = h(i)
  BY <1>1 DEF Range
<1>5. ASSUME NEW i \in 1..n
      PROVE  /\ f[i] \in Seq(MapRow) /\ IsSet(f[i]) /\ 1 \in DOMAIN f[i] /\ f[i][1] = HostRow(h(i))
             /\ Range(f[i]) = {HostRow(h(i))} \cup {[id |-> t.id, in |-> h(i)] : t \in inner(i)}
  <2>1. f[i] = HostGroup(h(i))
    BY <1>1
  <2> HIDE DEF f, h
  <2> QED
    BY <1>2, <2>1, HostGroupRows
<1>6. \A i \in 1..n : \A t \in inner(i) : t \in OfType(Guest) /\ t.host = h(i)
  BY DEF OfHost
<1>7. \A t \in OfType(Guest) \cap Passing, i \in 1..n :
        t.host = h(i) /\ t.host \in expandedHosts => t \in inner(i)
  BY DEF OfHost, OfType
<1>8. f \in [1..n -> Seq(MapRow)]
  <2>1. f = [i \in 1..n |-> f[i]]
    BY <1>1
  <2> HIDE DEF f
  <2> QED
    BY <1>5, <2>1
<1> HIDE DEF f, h, inner, n
<1>9. \A i \in 1..n : \A j \in DOMAIN f[i] :
        \/ f[i][j] = HostRow(h(i))
        \/ f[i][j].in = h(i) /\ \E t \in inner(i) : f[i][j] = [id |-> t.id, in |-> t.host]
  <2> SUFFICES ASSUME NEW i \in 1..n, NEW j \in DOMAIN f[i], f[i][j] # HostRow(h(i))
               PROVE  f[i][j].in = h(i) /\ \E t \in inner(i) : f[i][j] = [id |-> t.id, in |-> t.host]
    OBVIOUS
  <2>1. f[i][j] \in Range(f[i])
    BY DEF Range
  <2>2. PICK t \in inner(i) : f[i][j] = [id |-> t.id, in |-> h(i)]
    BY <1>5, <2>1
  <2> QED
    BY <1>6, <2>2
<1>10. \A i, j \in 1..n : i # j => \A k \in DOMAIN f[i], l \in DOMAIN f[j] : f[i][k] # f[j][l]
  <2> SUFFICES ASSUME NEW i \in 1..n, NEW j \in 1..n, i # j, NEW k \in DOMAIN f[i], NEW l \in DOMAIN f[j]
               PROVE  f[i][k] # f[j][l]
    OBVIOUS
  <2>1. h(i) # h(j) /\ h(i) # NoParent /\ h(j) # NoParent
    BY <1>2, <1>3
  <2>2. f[i][k] = [id |-> h(i), in |-> NoParent] \/ f[i][k].in = h(i)
    BY <1>9 DEF HostRow
  <2>3. f[j][l] = [id |-> h(j), in |-> NoParent] \/ f[j][l].in = h(j)
    BY <1>9 DEF HostRow
  <2> QED
    BY <2>1, <2>2, <2>3
<1>11. n \in Nat /\ f \in [1..n -> Seq(MapRow)]
  BY <1>1, <1>8
<1>12. res \in Seq(MapRow) /\ AfterFirst(res, n, f)
  BY <1>11, JoinedLists
<1>13. \A i \in 1..n : Range(f[i]) \in SUBSET Range(res)
  BY <1>11, JoinedLists
<1>14. IsSet(res)
  <2>1. (/\ \A i \in 1..n : IsSet(f[i])
         /\ \A i, j \in 1..n : i # j => \A k \in DOMAIN f[i], l \in DOMAIN f[j] : f[i][k] # f[j][l])
           => IsSet(res)
    BY <1>11, JoinedLists
  <2> QED
    BY <1>5, <1>10, <2>1
<1> HIDE DEF res
<1>15. ASSUME NEW g \in Range(graph.hosts) PROVE HostRow(g) \in Range(res)
  <2>1. PICK i \in 1..n : g = h(i)
    BY <1>4
  <2> QED
    BY <1>5, <1>13, <2>1
<1>16. ASSUME NEW k \in DOMAIN res
       PROVE  /\ \/ \E g \in Range(graph.hosts) : res[k] = HostRow(g)
                 \/ \E t \in OfType(Guest) : res[k] = [id |-> t.id, in |-> t.host]
              /\ res[k].in # NoParent => \E l \in 1..(k - 1) : res[l] = HostRow(res[k].in)
  <2>1. PICK i \in 1..n : \E j \in DOMAIN f[i] :
          res[k] = f[i][j] /\ (j = 1 \/ \E l \in 1..(k - 1) : res[l] = f[i][1])
    BY <1>12 DEF AfterFirst
  <2>2. PICK j \in DOMAIN f[i] : res[k] = f[i][j] /\ (j = 1 \/ \E l \in 1..(k - 1) : res[l] = f[i][1])
    BY <2>1
  <2>3. f[i][1] = HostRow(h(i)) /\ h(i) \in Range(graph.hosts)
    BY <1>2, <1>5
  <2>4. CASE res[k] = HostRow(h(i))
    <3>1. res[k].in = NoParent
      BY <2>4 DEF HostRow
    <3> QED
      BY <2>3, <2>4, <3>1
  <2>5. CASE res[k] # HostRow(h(i))
    <3>1. res[k].in = h(i) /\ \E t \in inner(i) : res[k] = [id |-> t.id, in |-> t.host]
      BY <1>9, <2>2, <2>5
    <3>2. \E l \in 1..(k - 1) : res[l] = HostRow(h(i))
      BY <2>2, <2>3, <2>5
    <3> QED
      BY <1>6, <3>1, <3>2
  <2> QED
    BY <2>4, <2>5
<1>17. ASSUME NEW t \in OfType(Guest) \cap Passing, t.host \in expandedHosts
       PROVE  [id |-> t.id, in |-> t.host] \in Range(res)
  <2>1. t.host \in Range(graph.hosts)
    BY GraphThings DEF OfType
  <2>2. PICK i \in 1..n : t.host = h(i)
    BY <1>4, <2>1
  <2>3. t \in inner(i)
    BY <1>7, <1>17, <2>2
  <2>4. [id |-> t.id, in |-> h(i)] \in Range(f[i])
    BY <1>5, <2>3
  <2> QED
    BY <1>13, <2>2, <2>4
<1>18. \A r \in Range(res) : \/ \E g \in Range(graph.hosts) : r = HostRow(g)
                             \/ \E t \in OfType(Guest) : r = [id |-> t.id, in |-> t.host]
  BY <1>16 DEF Range
<1> QED
  BY <1>12, <1>14, <1>15, <1>16, <1>17, <1>18 DEF res, f, h

\* The detailed view: the groups, and beside them what no host has.
LEMMA DetailedShows ==
  ASSUME GraphOK(graph)
  PROVE  /\ Drawn(DetailedNodes)
         /\ \A t \in OfType(Guest) \cap Passing :
              t.host \in expandedHosts => \E r \in Range(DetailedNodes) : r.id = t.id
<1> DEFINE groups == Joined([i \in DOMAIN graph.hosts |-> HostGroup(graph.hosts[i])])
           Loose(types) == Inside(NoParent, Only(graph.things, OfType(types) \ Assigned(types)))
           stores == Loose({"storage"})
           nets == Loose({"network"})
           loose == stores \o nets
<1>1. DetailedNodes = groups \o loose
  BY DEF DetailedNodes
<1>2. ASSUME NEW types
      PROVE  /\ Loose(types) \in Seq(MapRow) /\ IsSet(Loose(types))
             /\ \A r \in Range(Loose(types)) : r.in = NoParent /\ \E t \in OfType(types) : r.id = t.id
  <2> DEFINE W == OfType(types) \ Assigned(types)
             s == Only(graph.things, W)
  <2>1. graph.things \in Seq(Range(MapThings)) /\ IsSet(graph.things)
    BY DEF GraphOK
  <2>2. W \in SUBSET OfType(types)
    OBVIOUS
  <2> HIDE DEF W
  <2>3. s \in Seq(Range(MapThings)) /\ IsSet(s) /\ Range(s) = Range(graph.things) \cap W
    BY <2>1, OnlyRows
  <2> HIDE DEF s
  <2>4. /\ Inside(NoParent, s) \in Seq(MapRow) /\ IsSet(Inside(NoParent, s))
        /\ Range(Inside(NoParent, s)) = {[id |-> t.id, in |-> NoParent] : t \in Range(s)}
    BY <2>3, InsideRows
  <2>5. Loose(types) = Inside(NoParent, s)
    BY DEF s, W
  <2> HIDE DEF Loose
  <2> QED
    BY <2>2, <2>3, <2>4, <2>5
<1>3. /\ stores \in Seq(MapRow) /\ IsSet(stores)
      /\ \A r \in Range(stores) : r.in = NoParent /\ \E t \in OfType({"storage"}) : r.id = t.id
  BY <1>2
<1>4. /\ nets \in Seq(MapRow) /\ IsSet(nets)
      /\ \A r \in Range(nets) : r.in = NoParent /\ \E t \in OfType({"network"}) : r.id = t.id
  BY <1>2
<1> HIDE DEF stores, nets
<1>5. \A types : OfType(types) \in SUBSET Range(MapThings)
  BY GraphThings DEF OfType
<1>6. /\ \A t \in OfType({"storage"}), u \in OfType({"network"}) : t.id # u.id
      /\ \A t \in OfType({"storage"}) \cup OfType({"network"}), u \in OfType(Guest) : t.id # u.id
  <2>1. /\ \A t \in OfType({"storage"}), u \in OfType({"network"}) : t # u
        /\ \A t \in OfType({"storage"}) \cup OfType({"network"}), u \in OfType(Guest) : t # u
    BY DEF OfType, Guest
  <2> QED
    BY <1>5, <2>1, ThingsByIds
<1>7. /\ loose \in Seq(MapRow) /\ IsSet(loose)
      /\ \A r \in Range(loose) :
           r.in = NoParent /\ \E t \in OfType({"storage"}) \cup OfType({"network"}) : r.id = t.id
  <2>1. \A i \in DOMAIN stores, j \in DOMAIN nets : stores[i] # nets[j]
    <3>1. \A i \in DOMAIN stores : \E t \in OfType({"storage"}) : stores[i].id = t.id
      BY <1>3 DEF Range
    <3>2. \A j \in DOMAIN nets : \E t \in OfType({"network"}) : nets[j].id = t.id
      BY <1>4 DEF Range
    <3> QED
      BY <1>6, <3>1, <3>2
  <2>2. stores \in Seq(MapRow) /\ IsSet(stores)
    BY <1>3
  <2>3. nets \in Seq(MapRow) /\ IsSet(nets)
    BY <1>4
  <2>4. loose \in Seq(MapRow) /\ IsSet(loose) /\ Range(loose) = Range(stores) \cup Range(nets)
    BY <2>1, <2>2, <2>3, JoinedRows
  <2> HIDE DEF loose
  <2> QED
    BY <1>3, <1>4, <2>4
<1> HIDE DEF loose
<1>8. /\ groups \in Seq(MapRow) /\ IsSet(groups)
      /\ \A h \in Range(graph.hosts) : HostRow(h) \in Range(groups)
      /\ \A r \in Range(groups) :
           \/ \E h \in Range(graph.hosts) : r = HostRow(h)
           \/ \E t \in OfType(Guest) : r = [id |-> t.id, in |-> t.host]
      /\ \A k \in DOMAIN groups : groups[k].in # NoParent => \E l \in 1..(k - 1) : groups[l] = HostRow(groups[k].in)
      /\ \A t \in OfType(Guest) \cap Passing :
           t.host \in expandedHosts => [id |-> t.id, in |-> t.host] \in Range(groups)
  BY GroupsShow
<1> HIDE DEF groups
<1>9. \A r \in Range(loose), q \in Range(groups) : r.id # q.id
  <2> SUFFICES ASSUME NEW r \in Range(loose), NEW q \in Range(groups) PROVE r.id # q.id
    OBVIOUS
  <2>1. PICK t \in OfType({"storage"}) \cup OfType({"network"}) : r.id = t.id
    BY <1>7
  <2>2. CASE \E h \in Range(graph.hosts) : q = HostRow(h)
    <3>1. q.id \in Range(graph.hosts)
      BY <2>2 DEF HostRow
    <3>2. t.id \notin Range(graph.hosts)
      BY GraphThings DEF OfType
    <3> QED
      BY <2>1, <3>1, <3>2
  <2>3. CASE \E u \in OfType(Guest) : q = [id |-> u.id, in |-> u.host]
    <3>1. PICK u \in OfType(Guest) : q = [id |-> u.id, in |-> u.host]
      BY <2>3
    <3> QED
      BY <1>6, <2>1, <3>1
  <2> QED
    BY <1>8, <2>2, <2>3
<1> DEFINE all == groups \o loose
<1>10. /\ all \in Seq(MapRow) /\ IsSet(all) /\ Range(all) = Range(groups) \cup Range(loose)
       /\ \A i \in DOMAIN groups : i \in DOMAIN all /\ all[i] = groups[i]
       /\ \A i \in DOMAIN all : i \in DOMAIN groups \/ all[i] \in Range(loose)
  <2>1. \A i \in DOMAIN groups, j \in DOMAIN loose : groups[i] # loose[j]
    BY <1>9 DEF Range
  <2>2. groups \in Seq(MapRow) /\ IsSet(groups)
    BY <1>8
  <2>3. loose \in Seq(MapRow) /\ IsSet(loose)
    BY <1>7
  <2> QED
    BY <2>1, <2>2, <2>3, JoinedRows
<1> HIDE DEF all
<1>11. \A r, q \in Range(all) : r.id = q.id => r.in = q.in
  <2> SUFFICES ASSUME NEW r \in Range(all), NEW q \in Range(all), r.id = q.id PROVE r.in = q.in
    OBVIOUS
  <2>1. CASE r \in Range(loose) /\ q \in Range(loose)
    BY <1>7, <2>1
  <2>2. CASE r \in Range(groups) /\ q \in Range(groups)
    <3>1. \A x \in Range(groups) :
            \/ x.id \in Range(graph.hosts) /\ x.in = NoParent
            \/ \E t \in OfType(Guest) : x.id = t.id /\ x.in = t.host
      BY <1>8 DEF HostRow
    <3>2. \A t \in OfType(Guest) : t.id \notin Range(graph.hosts)
      BY GraphThings DEF OfType
    <3>3. \A t, u \in OfType(Guest) : t.id = u.id => t = u
      BY <1>5, ThingsByIds
    <3> QED
      BY <2>2, <3>1, <3>2, <3>3
  <2> QED
    BY <1>9, <1>10, <2>1, <2>2
<1>12. ASSUME NEW k \in DOMAIN all, all[k].in # NoParent
       PROVE  /\ \E l \in 1..(k - 1) : all[l].id = all[k].in
              /\ \E t \in Range(graph.things) : t.id = all[k].id /\ t.host = all[k].in
  <2>1. k \in DOMAIN groups /\ all[k] = groups[k]
    BY <1>7, <1>10, <1>12
  <2>2. PICK l \in 1..(k - 1) : groups[l] = HostRow(groups[k].in)
    BY <1>8, <1>12, <2>1
  <2>3. all[l].id = all[k].in
    <3>1. l \in DOMAIN groups
      <4>1. Len(groups) \in Nat /\ DOMAIN groups = 1..Len(groups)
        BY <1>8, LenProperties
      <4> QED
        BY <2>1, <2>2, <4>1
    <3>2. all[l] = groups[l]
      BY <1>10, <3>1
    <3>3. HostRow(groups[k].in).id = groups[k].in
      BY DEF HostRow
    <3> QED
      BY <2>1, <2>2, <3>2, <3>3
  <2>4. \E t \in OfType(Guest) : groups[k] = [id |-> t.id, in |-> t.host]
    <3>1. groups[k] \in Range(groups)
      BY <2>1 DEF Range
    <3>2. \A h : HostRow(h).in = NoParent
      BY DEF HostRow
    <3> QED
      BY <1>8, <1>12, <2>1, <3>1, <3>2
  <2> QED
    BY <2>1, <2>2, <2>3, <2>4 DEF OfType
<1>13. \A h \in Range(graph.hosts) : HostRow(h) \in Range(all)
  BY <1>8, <1>10
<1>14. Drawn(all)
  BY <1>10, <1>11, <1>12, <1>13 DEF Drawn
<1>15. ASSUME NEW t \in OfType(Guest) \cap Passing, t.host \in expandedHosts
       PROVE  \E r \in Range(all) : r.id = t.id
  <2>1. [id |-> t.id, in |-> t.host] \in Range(all)
    BY <1>8, <1>10, <1>15
  <2> QED
    BY <2>1
<1> QED
  BY <1>1, <1>14, <1>15 DEF all

MapInv == GraphOK(graph) /\ viewMode \in {"cluster", "detailed", "network"}

LEMMA MapInitInv == MapInit => MapInv
<1> SUFFICES ASSUME MapInit PROVE MapInv
  OBVIOUS
<1>1. graph.hosts = <<>> /\ graph.things = <<>>
  BY DEF MapInit, EmptyGraph
<1>2. \A S : <<>> \in Seq(S)
  OBVIOUS
<1>3. DOMAIN <<>> = {}
  OBVIOUS
<1>4. IsSet(<<>>) /\ Range(<<>>) = {}
  BY <1>3 DEF IsSet, Range
<1>5. GraphOK(graph)
  BY <1>1, <1>2, <1>4 DEF GraphOK
<1> QED
  BY <1>5 DEF MapInv, MapInit

LEMMA MapNextInv == MapInv /\ (MapNext \/ UNCHANGED mapVars) => MapInv'
<1> SUFFICES ASSUME MapInv, MapNext \/ UNCHANGED mapVars PROVE MapInv'
  OBVIOUS
<1>0. GraphOK(graph) /\ viewMode \in {"cluster", "detailed", "network"}
  BY DEF MapInv
<1>1. CASE LoadTopology
  BY <1>0, <1>1 DEF LoadTopology, MapInv, GraphOK
<1>2. CASE TopologyFails
  BY <1>0, <1>2 DEF TopologyFails, MapInv, GraphOK
<1>3. CASE SetFilter
  BY <1>0, <1>3 DEF SetFilter, MapInv, GraphOK
<1>4. ASSUME NEW H \in SUBSET (DOMAIN MapHosts), NEW G \in GraphsOf(H), TopologyLoaded(G) PROVE MapInv'
  <2>1. GraphOK(G)
    BY <1>4, GraphsAreOK
  <2>2. graph' = G /\ viewMode' = viewMode
    BY <1>4 DEF TopologyLoaded
  <2> QED
    BY <1>0, <2>1, <2>2 DEF MapInv, GraphOK
<1>5. ASSUME NEW v \in {"cluster", "detailed", "network"}, SetViewMode(v) PROVE MapInv'
  BY <1>0, <1>5 DEF SetViewMode, MapInv, GraphOK
<1>6. ASSUME NEW h \in Range(MapHosts), ToggleExpand(h) PROVE MapInv'
  BY <1>0, <1>6 DEF ToggleExpand, MapInv, GraphOK
<1>7. CASE UNCHANGED mapVars
  BY <1>0, <1>7 DEF mapVars, MapInv, GraphOK
<1> QED
  BY <1>1, <1>2, <1>3, <1>4, <1>5, <1>6, <1>7 DEF MapNext

\* With no filter, every guest passes.
LEMMA UnfilteredGuestsPass == ASSUME GraphOK(graph), Unfiltered, NEW t \in OfType(Guest) PROVE t \in Passing
<1>1. t \in Range(graph.things)
  BY DEF OfType
<1> QED
  BY <1>1 DEF Passing, Unfiltered

LEMMA MapInvWhole == MapInv => MapIsWhole
<1> DEFINE drawn == DrawnNodes
           ids == {drawn[i].id : i \in DOMAIN drawn}
<1> SUFFICES ASSUME MapInv
             PROVE  /\ Range(graph.hosts) \subseteq ids
                    /\ \A i, j \in DOMAIN drawn : i # j => drawn[i].id # drawn[j].id
                    /\ \A i \in DOMAIN drawn : drawn[i].in # NoParent =>
                         /\ \E j \in 1..(i - 1) : drawn[j].id = drawn[i].in
                         /\ \E t \in Range(graph.things) : t.id = drawn[i].id /\ t.host = drawn[i].in
                    /\ \A e \in DrawnEdges : e.source \in ids /\ e.target.id \in ids
                    /\ \A t \in Range(graph.things) :
                         t.type \in Guest /\ (viewMode = "network"
                                              \/ (viewMode = "detailed" /\ Unfiltered /\ t.host \in expandedHosts))
                           => t.id \in ids
  BY DEF MapIsWhole
<1>0. GraphOK(graph) /\ viewMode \in {"cluster", "detailed", "network"}
  BY DEF MapInv
<1>1. /\ viewMode = "cluster" => drawn = ClusterNodes /\ DrawnEdges = ClusterEdges
      /\ viewMode = "network" => drawn = NetworkNodes /\ DrawnEdges = NetworkEdges
      /\ viewMode = "detailed" => drawn = DetailedNodes /\ DrawnEdges = DetailedEdges
  BY DEF DrawnNodes, DrawnEdges
<1>2. Drawn(drawn)
  BY <1>0, <1>1, ClusterShows, NetworkShows, DetailedShows
<1> HIDE DEF drawn
<1>3. /\ drawn \in Seq(MapRow) /\ IsSet(drawn)
      /\ \A h \in Range(graph.hosts) : HostRow(h) \in Range(drawn)
      /\ \A r, q \in Range(drawn) : r.id = q.id => r.in = q.in
      /\ \A k \in DOMAIN drawn : drawn[k].in # NoParent =>
           /\ \E l \in 1..(k - 1) : drawn[l].id = drawn[k].in
           /\ \E t \in Range(graph.things) : t.id = drawn[k].id /\ t.host = drawn[k].in
  BY <1>2 DEF Drawn
<1>4. \A r \in Range(drawn) : r.id \in ids
  BY DEF Range
<1>5. \A i \in DOMAIN drawn : drawn[i] \in Range(drawn) /\ drawn[i] \in MapRow
  BY <1>3 DEF Range
<1>6. \A h \in Range(graph.hosts) : h \in ids
  <2>1. \A h : HostRow(h).id = h
    BY DEF HostRow
  <2> HIDE DEF ids
  <2> QED
    BY <1>3, <1>4, <2>1
<1>7. ASSUME NEW i \in DOMAIN drawn, NEW j \in DOMAIN drawn, i # j PROVE drawn[i].id # drawn[j].id
  <2>1. drawn[i] # drawn[j]
    BY <1>3, <1>7 DEF IsSet
  <2>2. drawn[i].id = drawn[j].id => drawn[i].in = drawn[j].in
    BY <1>3, <1>5
  <2>3. drawn[i] \in MapRow /\ drawn[j] \in MapRow
    BY <1>5
  <2>4. \A r, q \in MapRow : r.id = q.id /\ r.in = q.in => r = q
    BY DEF MapRow
  <2> QED
    BY <2>1, <2>2, <2>3, <2>4
<1>8. ASSUME NEW e \in DrawnEdges PROVE e.source \in ids /\ e.target.id \in ids
  <2>1. viewMode # "network" => e \in DetailedEdges
    BY <1>0, <1>1 DEF ClusterEdges
  <2>2. e \notin DetailedEdges
    <3>1. \A d \in Edges : \E t \in Range(graph.things) : d.target = t
      BY DEF Edges
    <3> QED
      BY <1>0, <3>1, GraphThings DEF DetailedEdges
  <2>3. viewMode = "network" /\ e \in NetworkEdges
    BY <1>1, <2>1, <2>2
  <2>4. e.source \in Range(graph.hosts) /\ e.target.type \in Guest \cup {"network"} /\ e.target \in Range(graph.things)
    BY <2>3 DEF NetworkEdges, Edges
  <2>5. e.target \in OfType(Guest \cup {"network"})
    BY <2>4 DEF OfType
  <2>6. \E r \in Range(drawn) : r.id = e.target.id
    BY <1>0, <1>1, <2>3, <2>5, NetworkShows
  <2> HIDE DEF ids
  <2> QED
    BY <1>4, <1>6, <2>4, <2>6
<1>9. ASSUME NEW t \in Range(graph.things), t.type \in Guest,
             viewMode = "network" \/ (viewMode = "detailed" /\ Unfiltered /\ t.host \in expandedHosts)
      PROVE  t.id \in ids
  <2>1. t \in OfType(Guest) /\ t \in OfType(Guest \cup {"network"})
    BY <1>9 DEF OfType
  <2>2. CASE viewMode = "network"
    <3>1. \E r \in Range(drawn) : r.id = t.id
      BY <1>0, <1>1, <2>1, <2>2, NetworkShows
    <3> HIDE DEF ids
    <3> QED
      BY <1>4, <3>1
  <2>3. CASE viewMode = "detailed" /\ Unfiltered /\ t.host \in expandedHosts
    <3>1. t \in OfType(Guest) \cap Passing
      BY <1>0, <2>1, <2>3, UnfilteredGuestsPass
    <3>2. \E r \in Range(drawn) : r.id = t.id
      BY <1>0, <1>1, <2>3, <3>1, DetailedShows
    <3> HIDE DEF ids
    <3> QED
      BY <1>4, <3>2
  <2> QED
    BY <1>9, <2>2, <2>3
<1> HIDE DEF ids
<1> QED
  BY <1>3, <1>6, <1>7, <1>8, <1>9

-----------------------------------------------------------------------------
(* The searches and the map, together.                                      *)

WholeInv == MapInv /\ PaletteInv /\ SearchInv

LEMMA WholeInvNext == ASSUME WholeInv, [ScreensNext]_screensVars PROVE WholeInv'
<1>1. /\ MapNext \/ UNCHANGED mapVars
      /\ PaletteNext \/ UNCHANGED paletteVars
      /\ SearchNext \/ UNCHANGED searchVars
  BY Zenon DEF ScreensNext, screensVars
<1>2. MapInv /\ PaletteInv /\ SearchInv
  BY DEF WholeInv
<1>3. MapInv' /\ PaletteInv' /\ SearchInv'
  BY <1>1, <1>2, MapNextInv, PaletteNextInv, SearchNextInv
<1> QED
  BY <1>3 DEF WholeInv

\* What is drawn or found is all there is: each host of the graph is on the map once and no
\* thing twice, a guest inside of its own host and edges between what is drawn; the row that
\* Enter opens in the palette or on the page is one of the rows and nothing matches better.
\* For any hosts and things of the cluster, any items to find and any terms.
THEOREM MapAndSearchesShowAll == ScreensSpec => []MapAndSearchesAreTrue
<1>1. ScreensInit => WholeInv
  BY MapInitInv, PaletteInitInv, SearchInitInv DEF ScreensInit, WholeInv
<1>2. WholeInv /\ [ScreensNext]_screensVars => WholeInv'
  BY WholeInvNext
<1>3. WholeInv => MapAndSearchesAreTrue
  BY MapInvWhole, PaletteInvUsable, SearchInvOpensBest DEF WholeInv, MapAndSearchesAreTrue
<1> QED
  BY <1>1, <1>2, <1>3, PTL DEF ScreensSpec

=============================================================================
