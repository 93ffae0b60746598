--------------------------- MODULE RecoveryWizard ---------------------------
(***************************************************************************)
(* The wizard of the disaster recovery page (components/dr/dr-wizard.tsx)  *)
(* in the scenario that restores a configuration backup, over the store of *)
(* the backups (stores/backup-store.ts), which holds the list of whichever *)
(* node was answered last.                                                 *)
(*                                                                         *)
(* A backup is known by its node, to which the server restores it.         *)
(***************************************************************************)
EXTENDS Naturals

CONSTANTS Hosts, NoHost

VARIABLES stage,       \* state.step
          scenario,    \* "config-restore", another one, or none yet
          host,        \* selectedNode
          backup,      \* selectedBackup: its node
          backups,     \* the store's list: its node
          asks,        \* fetchBackups that are out
          restoring,   \* the restore that is out: its backup, and the node the page named
          result,      \* restoreResult: the backup it is about
          ticked,      \* verificationChecks are all set
          hasty        \* history: see RestoreHitsNamedNode

wizardVars == <<stage, scenario, host, backup, backups, asks, restoring, result, ticked, hasty>>

NoRestore == [of |-> NoHost, named |-> NoHost]

WizardTypeOK ==
  /\ stage \in 0 .. 4 /\ scenario \in {"none", "config-restore", "other"}
  /\ {host, backup, backups, result} \subseteq Hosts \cup {NoHost}
  /\ asks \subseteq Hosts /\ ticked \in BOOLEAN /\ hasty \in BOOLEAN
  /\ restoring \in [of : Hosts \cup {NoHost}, named : Hosts \cup {NoHost}]

WizardInit ==
  /\ stage = 0 /\ scenario = "none"
  /\ host = NoHost /\ backup = NoHost /\ result = NoHost
  /\ backups \in Hosts \cup {NoHost}      \* of an earlier visit
  /\ asks = {} /\ restoring = NoRestore /\ ticked = FALSE /\ hasty = FALSE

\* setStep: one forward, if canNext allows it, or back by the button or the indicator.
SetStep(n) ==
  /\ \/ n < stage
     \/ /\ n = stage + 1
        /\ stage = 0 => scenario # "none"
        /\ stage = 1 => host # NoHost
  /\ stage' = n
  /\ UNCHANGED <<scenario, host, backup, backups, asks, restoring, result, ticked, hasty>>

PickScenario(s) ==
  /\ stage = 0 /\ scenario' = s
  /\ UNCHANGED <<stage, host, backup, backups, asks, restoring, result, ticked, hasty>>

\* handleNodeSelect: the backups of the node are asked for, the old list stays.
PickHost(n) ==
  /\ stage = 1 /\ host' = n /\ backup' = NoHost
  /\ asks' = asks \cup {n} /\ hasty' = (hasty \/ asks # {})
  /\ UNCHANGED <<stage, scenario, backups, restoring, result, ticked>>

\* A card of the list, which is shown whether it is being loaded or not.
PickBackup ==
  /\ stage = 1 /\ scenario = "config-restore" /\ host # NoHost /\ backups # NoHost
  /\ backup' = backups /\ hasty' = (hasty \/ asks # {})
  /\ UNCHANGED <<stage, scenario, host, backups, asks, restoring, result, ticked>>

\* The store takes the list, which may be empty, or keeps the old one after an error.
BackupsListed(n) ==
  /\ n \in asks /\ asks' = asks \ {n}
  /\ \/ backups' \in {n, NoHost} /\ UNCHANGED hasty
     \/ UNCHANGED backups /\ hasty' = TRUE
  /\ UNCHANGED <<stage, scenario, host, backup, restoring, result, ticked>>

\* handleConfigRestore: the files of the backup are listed, and restored.
StartRestore ==
  /\ stage = 3 /\ scenario = "config-restore" /\ backup # NoHost /\ restoring = NoRestore
  /\ restoring' = [of |-> backup, named |-> host] /\ result' = NoHost
  /\ UNCHANGED <<stage, scenario, host, backup, backups, asks, ticked, hasty>>

Restored ==
  /\ restoring # NoRestore /\ restoring' = NoRestore
  /\ result' = restoring.of
  /\ UNCHANGED <<stage, scenario, host, backup, backups, asks, ticked, hasty>>

\* toggleCheck.
CheckItem ==
  /\ stage = 4 /\ ticked' = ~ticked
  /\ UNCHANGED <<stage, scenario, host, backup, backups, asks, restoring, result, hasty>>

WizardNext ==
  \/ \E n \in 0 .. 4 : SetStep(n)
  \/ \E s \in {"config-restore", "other"} : PickScenario(s)
  \/ \E n \in Hosts : PickHost(n) \/ BackupsListed(n)
  \/ PickBackup \/ StartRestore \/ Restored \/ CheckItem

WizardSpec == WizardInit /\ [][WizardNext]_wizardVars

-----------------------------------------------------------------------------

\* "Das Config-Backup ... wird auf {selectedNode.name} wiederhergestellt."
\* (dr-wizard.tsx:522): the node that the page names is the one the backup is of,
\* and is restored to; unless a backup is picked while a node's list is still out
\* (the list of the node before is shown until then, dr-wizard.tsx:321), two lists
\* were out at once, or one could not be loaded.
RestoreHitsNamedNode == restoring # NoRestore /\ ~hasty => restoring.of = restoring.named
=============================================================================
