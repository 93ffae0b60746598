---------------------------- MODULE MigrateDialog ----------------------------
(***************************************************************************)
(* The dialog that starts a migration                                      *)
(* (components/migration/migrate-vm-dialog.tsx): four steps, of which the  *)
(* first picks the target node, whose storages are loaded in up to three   *)
(* attempts, and the second a storage.                                     *)
(*                                                                         *)
(* A storage is known by the node that offers it.  An effect of React runs *)
(* with the change that triggers it.                                       *)
(***************************************************************************)
EXTENDS Naturals, FiniteSets

CONSTANTS Targets, NoTarget,
          MaxLoads     \* bound: runs of loadStorages at a time

ASSUME NoTargetAssumption == NoTarget \notin Targets
ASSUME MaxLoadsAssumption == MaxLoads \in Nat

MaxAttempts == 3

VARIABLES step,        \* "closed", or the step of the open dialog
          target,      \* targetNodeId
          offered,     \* the node whose storages are in storages
          chosen,      \* the node whose storage is targetStorage
          spinner,     \* loadingStorages
          loads,       \* runs of loadStorages: a request that is out, or a timeout
          submitting,
          switched,    \* history: another target was picked after a storage was chosen
          revived      \* history: a timeout of an earlier target has fired

dialogVars == <<step, target, offered, chosen, spinner, loads, submitting, switched, revived>>

Steps == {"target", "storage", "options", "confirm"}

DialogTypeOK ==
  /\ step \in Steps \cup {"closed"}
  /\ target \in Targets \cup {NoTarget}
  /\ offered \in Targets \cup {NoTarget} /\ chosen \in Targets \cup {NoTarget}
  /\ spinner \in BOOLEAN /\ submitting \in BOOLEAN
  /\ loads \subseteq [of : Targets, attempt : 1 .. MaxAttempts, out : BOOLEAN, cancelled : BOOLEAN]
  /\ switched \in BOOLEAN /\ revived \in BOOLEAN

DialogInit ==
  /\ step = "closed" /\ target = NoTarget /\ offered = NoTarget /\ chosen = NoTarget
  /\ spinner = FALSE /\ loads = {} /\ submitting = FALSE
  /\ switched = FALSE /\ revived = FALSE

\* The dialog of a VM is mounted when it opens, and unmounted when it closes.
OpenDialog ==
  /\ step = "closed" /\ step' = "target"
  /\ UNCHANGED <<target, offered, chosen, spinner, loads, submitting, switched, revived>>

CloseDialog ==
  /\ step # "closed" /\ step' = "closed"
  /\ target' = NoTarget /\ offered' = NoTarget /\ chosen' = NoTarget
  /\ spinner' = FALSE /\ loads' = {} /\ submitting' = FALSE
  /\ switched' = FALSE /\ revived' = FALSE

-----------------------------------------------------------------------------
(* The storages of the target.                                              *)

CancelLoads_KeepsThem == loads

\* The cleanup of the effect: cancelled = true, which a timeout does not see.
CancelLoads == {[l EXCEPT !.cancelled = TRUE] : l \in loads}

PickTarget(n) ==
  /\ step = "target" /\ n # target /\ Cardinality(loads) < MaxLoads
  /\ target' = n
  /\ loads' = CancelLoads \cup {[of |-> n, attempt |-> 1, out |-> TRUE, cancelled |-> FALSE]}
  /\ spinner' = TRUE
  /\ switched' = (switched \/ chosen # NoTarget)
  /\ UNCHANGED <<step, offered, chosen, submitting, revived>>

\* The storages are listed; the choice is reset, and another effect chooses the
\* best of them if there is one.
StoragesLoaded(l) ==
  /\ l.out /\ loads' = loads \ {l}
  /\ IF l.cancelled THEN UNCHANGED <<offered, chosen, spinner>>
     ELSE /\ offered' \in {l.of, NoTarget} /\ chosen' = offered'
          /\ spinner' = FALSE
  /\ UNCHANGED <<step, target, submitting, switched, revived>>

\* An error: a timeout for the next attempt, or none is left and the list is
\* cleared, but not the choice.
LoadFails(l) ==
  /\ l.out
  /\ LET retries == ~l.cancelled /\ l.attempt < MaxAttempts IN
     /\ loads' = (loads \ {l}) \cup {[k EXCEPT !.out = FALSE] : k \in IF retries THEN {l} ELSE {}}
     /\ spinner' = IF l.cancelled THEN spinner ELSE FALSE
     /\ offered' = IF l.cancelled \/ retries THEN offered ELSE NoTarget
  /\ UNCHANGED <<step, target, chosen, submitting, switched, revived>>

RetryFires(l) ==
  /\ l \in loads /\ ~l.out
  /\ loads' = (loads \ {l}) \cup {[l EXCEPT !.out = TRUE, !.attempt = @ + 1]}
  /\ spinner' = TRUE
  /\ revived' = (revived \/ l.cancelled)
  /\ UNCHANGED <<step, target, offered, chosen, submitting, switched>>

-----------------------------------------------------------------------------
(* The steps.                                                               *)

GoToStep(a, b) == /\ step = a /\ step' = b
                  /\ UNCHANGED <<target, offered, chosen, spinner, loads, submitting,
                                 switched, revived>>

Forward == \/ target # NoTarget /\ GoToStep("target", "storage")
           \/ chosen # NoTarget /\ GoToStep("storage", "options")
           \/ GoToStep("options", "confirm")

Back == \/ GoToStep("storage", "target")
        \/ GoToStep("options", "storage")
        \/ GoToStep("confirm", "options")

\* A storage of the list is clicked, which is there unless it is being loaded.
PickStorage ==
  /\ step = "storage" /\ ~spinner /\ offered # NoTarget
  /\ chosen' = offered
  /\ UNCHANGED <<step, target, offered, spinner, loads, submitting, switched, revived>>

\* handleSubmit, with the target and the storage of this moment.
SubmitMigration ==
  /\ step = "confirm" /\ ~submitting /\ submitting' = TRUE
  /\ UNCHANGED <<step, target, offered, chosen, spinner, loads, switched, revived>>

\* Success closes the dialog, an error is shown in it.
SubmitFails ==
  /\ submitting /\ submitting' = FALSE
  /\ UNCHANGED <<step, target, offered, chosen, spinner, loads, switched, revived>>

DialogNext ==
  \/ OpenDialog \/ CloseDialog
  \/ \E n \in Targets : PickTarget(n)
  \/ \E l \in loads : StoragesLoaded(l) \/ LoadFails(l) \/ RetryFires(l)
  \/ Forward \/ Back \/ PickStorage \/ SubmitMigration \/ SubmitFails

DialogSpec == DialogInit /\ [][DialogNext]_dialogVars

-----------------------------------------------------------------------------
(* Properties.                                                              *)

\* The storages on offer and the one that is submitted are the target's own,
\* whatever attempts of whatever targets are answered late, unless another
\* target is picked after a storage was chosen: the old list and choice stay until
\* the new target's answer, and the choice also beyond its failure
\* (migrate-vm-dialog.tsx:124).  The spinner ends, unless the timeout of an
\* earlier target sets it again (migrate-vm-dialog.tsx:147).
DialogIsOfTarget ==
  /\ ~switched => /\ {offered, chosen} \subseteq {target, NoTarget}
                  /\ step \in {"options", "confirm"} => chosen = target
  /\ spinner /\ ~revived => \E l \in loads : l.of = target /\ ~l.cancelled /\ l.out
=============================================================================
