--------------------------- MODULE MigrationForm ---------------------------
(***************************************************************************)
(* The assistant of the migrations page (migrations/page.tsx): four steps, *)
(* of which the first picks a source node, whose storages are loaded, and  *)
(* one of its guests; the second a target node and a storage.              *)
(*                                                                         *)
(* A guest and a storage are known by the node that listed them.  An       *)
(* effect of React runs with the change that triggers it.                  *)
(***************************************************************************)
EXTENDS Naturals

CONSTANTS PVENodes, NoPVE,
          StorageGets     \* bound: listings of storages that are out at a time

ASSUME NoPVEAssumption == NoPVE \notin PVENodes

VARIABLES wizardStep,
          sourceNodeId, targetNodeId,
          selectedVmid, targetStorage,
          storages,        \* the node whose storages are listed, or NoPVE
          loadingStorages,
          storageGet,      \* per slot: the node of a listing that is out, or NoPVE
          request,         \* the request that is out
          wentBack,        \* history: another source was picked with a target or a storage chosen
          getsCrossed      \* history: listings of two sources were out together

migrationFormVars == <<wizardStep, sourceNodeId, targetNodeId, selectedVmid, targetStorage, storages,
                       loadingStorages, storageGet, request, wentBack, getsCrossed>>

Entries == [source |-> sourceNodeId, target |-> targetNodeId, vm |-> selectedVmid, storage |-> targetStorage]

NoRequest == [source |-> NoPVE, target |-> NoPVE, vm |-> NoPVE, storage |-> NoPVE]

MigrationFormTypeOK ==
  /\ wizardStep \in 1..4
  /\ {sourceNodeId, targetNodeId, selectedVmid, targetStorage, storages} \subseteq PVENodes \cup {NoPVE}
  /\ storageGet \in [StorageGets -> PVENodes \cup {NoPVE}]
  /\ request \in [{"source", "target", "vm", "storage"} -> PVENodes \cup {NoPVE}]
  /\ {loadingStorages, wentBack, getsCrossed} \subseteq BOOLEAN

MigrationFormInit ==
  /\ wizardStep = 1 /\ sourceNodeId = NoPVE /\ targetNodeId = NoPVE
  /\ selectedVmid = NoPVE /\ targetStorage = NoPVE
  /\ storages = NoPVE /\ loadingStorages = FALSE
  /\ storageGet = [s \in StorageGets |-> NoPVE]
  /\ request = NoRequest /\ wentBack = FALSE /\ getsCrossed = FALSE

GetsOut == {s \in StorageGets : storageGet[s] # NoPVE}

-----------------------------------------------------------------------------
(* The source and its storages.                                             *)

\* The rows and the storages are asked for; what is chosen at the target stays.
AskStorages(n) ==
  /\ \E s \in StorageGets \ GetsOut : storageGet' = [storageGet EXCEPT ![s] = n]
  /\ loadingStorages' = TRUE
  /\ getsCrossed' = ((getsCrossed /\ GetsOut # {}) \/ \E s \in GetsOut : storageGet[s] # n)

PickSource(n) ==
  /\ wizardStep = 1 /\ n # sourceNodeId
  /\ sourceNodeId' = n /\ selectedVmid' = NoPVE /\ AskStorages(n)
  /\ wentBack' = (wentBack \/ targetNodeId # NoPVE)
  /\ UNCHANGED <<wizardStep, targetNodeId, targetStorage, storages, request>>

\* Any answer replaces the list and ends the spinner, a late one too.
StoragesListed(s, failed) ==
  /\ s \in GetsOut
  /\ storages' = IF failed THEN NoPVE ELSE storageGet[s]
  /\ loadingStorages' = FALSE
  /\ storageGet' = [storageGet EXCEPT ![s] = NoPVE]
  /\ UNCHANGED <<wizardStep, sourceNodeId, targetNodeId, selectedVmid, targetStorage, request, wentBack, getsCrossed>>

-----------------------------------------------------------------------------
(* The entries.                                                             *)

\* A guest of the source's own list.
PickGuest ==
  /\ wizardStep = 1 /\ sourceNodeId # NoPVE /\ selectedVmid' = sourceNodeId
  /\ UNCHANGED <<wizardStep, sourceNodeId, targetNodeId, targetStorage, storages, loadingStorages,
                 storageGet, request, wentBack, getsCrossed>>

\* The list offers every node but the source.
PickTargetNode(n) ==
  /\ wizardStep = 2 /\ n # sourceNodeId /\ n # targetNodeId
  /\ targetNodeId' = n /\ targetStorage' = NoPVE
  /\ UNCHANGED <<wizardStep, sourceNodeId, selectedVmid, storages, loadingStorages,
                 storageGet, request, wentBack, getsCrossed>>

PickTargetStorage ==
  /\ wizardStep = 2 /\ targetNodeId # NoPVE /\ ~loadingStorages /\ storages # NoPVE
  /\ targetStorage' = storages
  /\ UNCHANGED <<wizardStep, sourceNodeId, targetNodeId, selectedVmid, storages, loadingStorages,
                 storageGet, request, wentBack, getsCrossed>>

CanProceed == CASE wizardStep = 1 -> sourceNodeId # NoPVE /\ selectedVmid # NoPVE
                [] wizardStep = 2 -> targetNodeId # NoPVE /\ targetStorage # NoPVE
                [] wizardStep = 3 -> TRUE
                [] OTHER -> FALSE

GoTo(k) ==
  /\ wizardStep' = k
  /\ UNCHANGED <<sourceNodeId, targetNodeId, selectedVmid, targetStorage, storages, loadingStorages,
                 storageGet, request, wentBack, getsCrossed>>

NextStep == CanProceed /\ GoTo(wizardStep + 1)

\* "Zurück", or the indicator of a step before this one.
EarlierStep(k) == k < wizardStep /\ GoTo(k)

-----------------------------------------------------------------------------
(* The start.                                                               *)

HandleStart ==
  /\ wizardStep = 4 /\ request = NoRequest /\ request' = Entries
  /\ UNCHANGED <<wizardStep, sourceNodeId, targetNodeId, selectedVmid, targetStorage, storages, loadingStorages,
                 storageGet, wentBack, getsCrossed>>

\* Success empties what is entered by then; without a source there are no storages.
StartAccepted ==
  /\ request # NoRequest /\ request' = NoRequest
  /\ wizardStep' = 1 /\ sourceNodeId' = NoPVE /\ targetNodeId' = NoPVE
  /\ selectedVmid' = NoPVE /\ targetStorage' = NoPVE
  /\ storages' = NoPVE /\ wentBack' = FALSE
  /\ UNCHANGED <<loadingStorages, storageGet, getsCrossed>>

StartFails ==
  /\ request # NoRequest /\ request' = NoRequest
  /\ UNCHANGED <<wizardStep, sourceNodeId, targetNodeId, selectedVmid, targetStorage, storages, loadingStorages,
                 storageGet, wentBack, getsCrossed>>

MigrationFormNext ==
  \/ \E n \in PVENodes : PickSource(n) \/ PickTargetNode(n)
  \/ \E s \in StorageGets, failed \in BOOLEAN : StoragesListed(s, failed)
  \/ PickGuest \/ PickTargetStorage \/ NextStep
  \/ \E k \in 1..3 : EarlierStep(k)
  \/ HandleStart \/ StartAccepted \/ StartFails

MigrationFormSpec == MigrationFormInit /\ [][MigrationFormNext]_migrationFormVars

-----------------------------------------------------------------------------

\* A migration that is started names a guest of its source, and all of its entries,
\* however the user goes back and forth and answers come late; its target is another node
\* and its storage was listed by the source, unless the source was picked again after the
\* target, which keeps both (page.tsx:141), or two sources' listings crossed.
MigrationIsMeant ==
  request # NoRequest =>
    /\ NoPVE \notin {request.source, request.target, request.vm, request.storage}
    /\ request.vm = request.source
    /\ ~wentBack => request.target # request.source
    /\ ~wentBack /\ ~getsCrossed => request.storage = request.source
=============================================================================
