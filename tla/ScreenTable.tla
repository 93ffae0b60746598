---------------------------- MODULE ScreenTable ----------------------------
(***************************************************************************)
(* How each screen of the console that lists rows of the server loads      *)
(* them, and how it follows up the changes that are made through it.  A    *)
(* screen is a record; its actions are those of ListScreens.               *)
(***************************************************************************)

\* What is done after the answer of a change: "copy" makes the same change in the
\* list that is shown, "list" lists again.
Lacks == {"lacks"}          \* there is no such change
Drops == {}                 \* nothing is done
Copies == {"copy"}
Relists == {"list"}
Both == {"copy", "list"}

\* A page about one object that keeps showing its rows while they are loaded.
Page == [holds |-> "page",     \* state of the "page", of a component whose "prop" changes, or a "store"
         one |-> FALSE,        \* there is only one object, as for the list of all nodes
         fails |-> "keeps",    \* the list when a listing fails: "keeps" or "clears"
         hides |-> FALSE,      \* rows are not shown while isLoading
         empties |-> FALSE,    \* the list is emptied when another object is asked for
         latest |-> FALSE,     \* answers that have been overtaken are dropped
         again |-> "never",    \* a button or a timer lists again: "never", "idle" or "always"
         create |-> Lacks, update |-> Lacks, delete |-> Lacks,
         busy |-> {},          \* kinds of which only one change is out at a time
         reopens |-> FALSE,    \* the follow-up opens the object of the change again
         stays |-> FALSE]      \* the object outlives the page, and follow-ups list that one

ClusterPage == [Page EXCEPT !.one = TRUE]
Component == [Page EXCEPT !.holds = "prop"]
Store == [Page EXCEPT !.holds = "store"]
ClusterStore == [Store EXCEPT !.one = TRUE]

-----------------------------------------------------------------------------
(* Stores.                                                                  *)

EnvironmentStore == [ClusterStore EXCEPT !.create = Both, !.update = Both, !.delete = Both]
NodeStore == [ClusterStore EXCEPT !.again = "always", !.create = Copies, !.delete = Copies]
VMGroupStore == [ClusterStore EXCEPT !.create = Relists, !.update = Relists, !.delete = Relists]
VMPermissionStore == [ClusterStore EXCEPT !.create = Relists, !.update = Relists, !.delete = Relists]
ReflexStore == [ClusterStore EXCEPT !.again = "always", !.update = Copies, !.delete = Copies]
AnomalyStore == [ClusterStore EXCEPT !.hides = TRUE, !.delete = Copies]
DriftStore == [ClusterStore EXCEPT !.again = "always", !.update = Relists]
EscalationStore == [ClusterStore EXCEPT !.update = Relists, !.delete = Relists]
UserStore == [ClusterStore EXCEPT !.update = Relists, !.delete = Relists]
BackupStore == [Store EXCEPT !.hides = TRUE, !.create = Relists, !.delete = Copies]
RunbookStore == [Store EXCEPT !.create = Copies, !.delete = Copies]
LogAnomalyStore == [Store EXCEPT !.update = Copies]
CockpitStore == [Store EXCEPT !.stays = TRUE, !.again = "always", !.update = Relists]

-----------------------------------------------------------------------------
(* Pages about the whole cluster.                                           *)

BackupsPage == [ClusterPage EXCEPT !.fails = "clears", !.hides = TRUE, !.again = "always",
                                   !.create = Relists, !.delete = Copies, !.busy = {"create"}]
BackupSchedulesTab == [ClusterPage EXCEPT !.fails = "clears", !.hides = TRUE, !.create = Relists,
                                          !.update = Relists, !.delete = Relists, !.busy = {"create"}]
TagManager == [ClusterPage EXCEPT !.create = Relists, !.update = Relists, !.delete = Relists,
                                  !.busy = {"update"}]
TagsPage == [TagManager EXCEPT !.hides = TRUE]
TokenList == [ClusterPage EXCEPT !.again = "always", !.update = Relists, !.delete = Relists]
ISOsPage == [ClusterPage EXCEPT !.hides = TRUE, !.again = "idle", !.create = Relists,
                                !.update = Relists, !.busy = {"create"}]
BriefingPage == [ClusterPage EXCEPT !.hides = TRUE, !.again = "idle", !.delete = Copies]
TelegramLinkCard == [ClusterPage EXCEPT !.again = "always", !.create = Both, !.delete = Both,
                                        !.busy = {"create", "delete"}]
SecurityPage == [ClusterPage EXCEPT !.fails = "clears", !.hides = TRUE, !.again = "idle", !.update = Copies]
InvitationsTab == [ClusterPage EXCEPT !.fails = "clears", !.again = "always", !.create = Relists,
                                      !.delete = Relists]
NotificationsSettingsPage == [ClusterPage EXCEPT !.create = Relists, !.update = Relists, !.delete = Relists]
AlertsPage == [ClusterPage EXCEPT !.fails = "clears", !.hides = TRUE, !.again = "always", !.update = Relists]
BrainSettingsPage == [ClusterPage EXCEPT !.hides = TRUE, !.again = "always", !.create = Relists,
                                         !.delete = Copies, !.busy = {"create"}]
ToolApprovalCard == [ClusterPage EXCEPT !.fails = "clears", !.again = "always", !.delete = Relists]
DependencyGraph == [ClusterPage EXCEPT !.fails = "clears", !.hides = TRUE, !.again = "always",
                                       !.create = Relists, !.delete = Relists]
VMGroupsPage == [ClusterPage EXCEPT !.create = Relists, !.delete = Relists]
ClusterStoragePage == [ClusterPage EXCEPT !.hides = TRUE]
RecommendationsPage == [ClusterPage EXCEPT !.fails = "clears", !.again = "idle"]
TaskCenterPage == [ClusterPage EXCEPT !.fails = "clears", !.latest = TRUE, !.again = "always"]
SystemStatusPage == [ClusterPage EXCEPT !.fails = "clears", !.again = "idle"]
HealthPage == [ClusterPage EXCEPT !.fails = "clears", !.again = "always"]
AlertHistory == [ClusterPage EXCEPT !.again = "always"]
KnowledgeGraphPage == [ClusterPage EXCEPT !.fails = "clears", !.hides = TRUE, !.again = "idle"]
GatewayAuditLog == [ClusterPage EXCEPT !.again = "always"]
AgentActivityFeed == [ClusterPage EXCEPT !.again = "always"]

-----------------------------------------------------------------------------
(* Components about a node, a VM, a backup, a user or a choice of the page. *)

NodeMonitoringPage == [Component EXCEPT !.fails = "clears"]
NodeDetail == Page
NodeLogsPage == [Component EXCEPT !.fails = "clears", !.again = "always"]
NodePorts == [Page EXCEPT !.again = "idle"]
StorageOverview == Page
PBSOverview == Page
NodeISOTemplatesPage == Page
HealthCard == [Page EXCEPT !.again = "idle"]
KeyList == [Page EXCEPT !.again = "always", !.update = Relists, !.delete = Relists]
BackupScheduleDialog == [Store EXCEPT !.create = Relists, !.update = Relists, !.delete = Relists,
                                      !.busy = {"create"}]
BackupDetailDialog == [Component EXCEPT !.hides = TRUE]
RestoreDialog == [Component EXCEPT !.fails = "clears", !.hides = TRUE, !.update = Drops, !.busy = {"update"}]
VzdumpDialog == [Component EXCEPT !.create = Drops, !.busy = {"create"}]
SnapshotDialog == [Component EXCEPT !.hides = TRUE, !.create = Relists, !.update = Relists,
                                    !.delete = Relists, !.busy = {"create"}]
SnapshotPolicySection == [Page EXCEPT !.again = "idle", !.create = Relists, !.update = Relists,
                                      !.delete = Relists, !.busy = {"create"}]
ScheduledActionsSection == [Page EXCEPT !.again = "idle", !.create = Relists, !.delete = Relists,
                                        !.busy = {"create"}]
TagAssignDialog == [Component EXCEPT !.create = Relists, !.delete = Relists]
VMTagAssignDialog == [TagAssignDialog EXCEPT !.hides = TRUE, !.update = Relists]
AccessOverview == [Component EXCEPT !.fails = "clears", !.again = "idle", !.update = Relists,
                                    !.delete = Relists, !.reopens = TRUE]
ClusterLogsPage == [Component EXCEPT !.latest = TRUE, !.again = "always"]
ClusterDashboardPage == [Component EXCEPT !.fails = "clears"]
VMServiceAnalysis == [Component EXCEPT !.fails = "clears", !.hides = TRUE, !.empties = TRUE, !.latest = TRUE]
NetworkSecurityOverview == [Component EXCEPT !.fails = "clears", !.empties = TRUE, !.latest = TRUE]
NetworkTraffic == [Component EXCEPT !.fails = "clears", !.hides = TRUE]
VMNetworkTraffic == NetworkTraffic
AuditLogPage == [Component EXCEPT !.fails = "clears", !.hides = TRUE]
FlightRecorderPage == [Component EXCEPT !.fails = "clears", !.hides = TRUE, !.again = "idle"]
RootCausePage == FlightRecorderPage
ReportsPage == FlightRecorderPage

-----------------------------------------------------------------------------

Screens ==
  {EnvironmentStore, NodeStore, VMGroupStore, VMPermissionStore, ReflexStore, AnomalyStore, DriftStore,
   EscalationStore, UserStore, BackupStore, RunbookStore, LogAnomalyStore, CockpitStore,
   BackupsPage, BackupSchedulesTab, TagManager, TagsPage, TokenList, ISOsPage, BriefingPage,
   TelegramLinkCard, SecurityPage, InvitationsTab, NotificationsSettingsPage, AlertsPage,
   BrainSettingsPage, ToolApprovalCard, DependencyGraph, VMGroupsPage, ClusterStoragePage,
   RecommendationsPage, TaskCenterPage, SystemStatusPage, HealthPage, AlertHistory,
   KnowledgeGraphPage, GatewayAuditLog, AgentActivityFeed,
   NodeMonitoringPage, NodeDetail, NodeLogsPage, NodePorts, StorageOverview, PBSOverview,
   NodeISOTemplatesPage, HealthCard, KeyList, BackupScheduleDialog, BackupDetailDialog,
   RestoreDialog, VzdumpDialog, SnapshotDialog, SnapshotPolicySection, ScheduledActionsSection,
   TagAssignDialog, VMTagAssignDialog, AccessOverview, ClusterLogsPage, ClusterDashboardPage,
   VMServiceAnalysis, NetworkSecurityOverview, NetworkTraffic, VMNetworkTraffic,
   AuditLogPage, FlightRecorderPage, RootCausePage, ReportsPage}
=============================================================================
