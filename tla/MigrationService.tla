-------------------------- MODULE MigrationService --------------------------
(***************************************************************************)
(* The migration service of the backend (service/migration): the VMID lock *)
(* activeVMs, the cancel functions, the rows of vm_migrations, and the     *)
(* goroutines that run executeMigration, for many StartMigration calls at  *)
(* once.  What one goroutine does to the two Proxmox nodes is the subject  *)
(* of MigrationPipeline; here a phase is one step that succeeds or fails.  *)
(*                                                                         *)
(* A call of StartMigration and the goroutine it spawns are one process,   *)
(* named by an element of Reqs, which is also the id of its migration.     *)
(***************************************************************************)
EXTENDS MigrationLifecycle

CONSTANTS Reqs,            \* calls of StartMigration
          VMIDs,           \* the VMIDs they may ask for
          Free,            \* "no entry" in the map activeVMs
          DatabaseErrors   \* whether a statement may fail with a live context

\* The two kinds of id the map holds: uuid.New() placeholders, migration ids.
Owners == {"placeholder", "migration"} \X Reqs

ASSUME FreeAssumption == Free \notin Owners
ASSUME MigrationsAssumption == Migrations = Reqs
ASSUME DatabaseErrorsAssumption == DatabaseErrors \in BOOLEAN

VARIABLES server,      \* the backend process: down, booting, or serving
          orphans,     \* the rows RecoverOrphanedMigrations still has to mark
          stage,       \* where each call and its goroutine are
          vm,          \* the VMID of each call
          activeVMs,   \* VMID -> owner of the lock
          cancels,     \* migrations with a registered cancel function
          ctx,         \* the migration's context
          status,      \* m.Status in the memory of the goroutine
          cancelling,  \* CancelMigration calls past their checks
          deleting     \* DeleteMigration calls past their check

local == <<stage, vm, status>>
requests == <<cancelling, deleting>>
boot == <<server, orphans>>
vars == <<record, server, orphans, stage, vm, activeVMs, cancels, ctx, status,
          cancelling, deleting>>

\* Stages of the call, before the record has a goroutine.
Calling == {"reserved", "created"}

\* Stages of the goroutine: loading the record, working in a phase, done with
\* the phase, putting the source VM back after a failure, the deferred cleanup.
Running == {"loading", "work", "worked", "rollback", "closing"}

Stages == {"idle", "gone"} \cup Calling \cup Running

TypeOK == /\ record \in [Reqs -> Rows]
          /\ server \in {"down", "booting", "serving"}
          /\ orphans \subseteq Reqs
          /\ stage \in [Reqs -> Stages]
          /\ vm \in [Reqs -> VMIDs]
          /\ activeVMs \in [VMIDs -> Owners \cup {Free}]
          /\ cancels \subseteq Reqs
          /\ ctx \in [Reqs -> {"live", "cancelled", "expired"}]
          /\ status \in [Reqs -> Statuses]
          /\ cancelling \subseteq Reqs
          /\ deleting \subseteq Reqs

ServiceInit == /\ Init
               /\ server = "serving"
               /\ orphans = {}
               /\ stage = [r \in Reqs |-> "idle"]
               /\ vm \in [Reqs -> VMIDs]
               /\ activeVMs = [v \in VMIDs |-> Free]
               /\ cancels = {}
               /\ ctx = [r \in Reqs |-> "live"]
               /\ status = [r \in Reqs |-> "pending"]
               /\ cancelling = {}
               /\ deleting = {}

-----------------------------------------------------------------------------
(* Statements on vm_migrations.  An UPDATE of a deleted row changes nothing *)
(* and reports no error.                                                    *)

RowAfterUpdate(r, s) ==
  IF record[r] \in {"absent", "deleted"} THEN record
                                         ELSE [record EXCEPT ![r] = s]

\* Update(context.Background(), m), its error ignored.
UpdateDetached(r, s) == \/ record' = RowAfterUpdate(r, s)
                        \/ DatabaseErrors /\ UNCHANGED record

\* Update(ctx, m), its error ignored: nothing is written once ctx is done.
UpdateWithCtx(r, s) == IF ctx[r] = "live" THEN UpdateDetached(r, s)
                                          ELSE UNCHANGED record

-----------------------------------------------------------------------------
(* StartMigration.                                                          *)

Reserve_WithoutLockCheck(r) ==
  /\ server = "serving" /\ stage[r] = "idle"
  /\ activeVMs' = [activeVMs EXCEPT ![vm[r]] = <<"placeholder", r>>]
  /\ stage' = [stage EXCEPT ![r] = "reserved"]
  /\ UNCHANGED <<record, vm, status, boot, cancels, ctx, requests>>

\* The request is valid and the VMID is not locked: lock it for a placeholder.
Reserve(r) ==
  /\ server = "serving" /\ stage[r] = "idle"
  /\ activeVMs[vm[r]] = Free
  /\ activeVMs' = [activeVMs EXCEPT ![vm[r]] = <<"placeholder", r>>]
  /\ stage' = [stage EXCEPT ![r] = "reserved"]
  /\ UNCHANGED <<record, vm, status, boot, cancels, ctx, requests>>

ReleasePlaceholder_Forgotten(r) == UNCHANGED activeVMs

\* The deferred release: only if the entry is still our placeholder.
ReleasePlaceholder(r) ==
  activeVMs' = IF activeVMs[vm[r]] = <<"placeholder", r>>
               THEN [activeVMs EXCEPT ![vm[r]] = Free] ELSE activeVMs

\* A node is missing or offline, or the VM is not there or cannot be suspended.
Reject(r) ==
  /\ stage[r] = "reserved"
  /\ ReleasePlaceholder(r)
  /\ stage' = [stage EXCEPT ![r] = "gone"]
  /\ UNCHANGED <<record, vm, status, boot, cancels, ctx, requests>>

CreateRecord(r) ==
  /\ stage[r] = "reserved"
  /\ record' = [record EXCEPT ![r] = "pending"]
  /\ stage' = [stage EXCEPT ![r] = "created"]
  /\ UNCHANGED <<vm, status, boot, activeVMs, cancels, ctx, requests>>

\* The INSERT reports an error, whether or not it was committed.
CreateFails(r) ==
  /\ DatabaseErrors
  /\ stage[r] = "reserved"
  /\ record' \in {record, [record EXCEPT ![r] = "pending"]}
  /\ ReleasePlaceholder(r)
  /\ stage' = [stage EXCEPT ![r] = "gone"]
  /\ UNCHANGED <<vm, status, boot, cancels, ctx, requests>>

\* Store the cancel function, replace the placeholder, start the goroutine.
Register(r) ==
  /\ stage[r] = "created"
  /\ cancels' = cancels \cup {r}
  /\ activeVMs' = [activeVMs EXCEPT ![vm[r]] = <<"migration", r>>]
  /\ stage' = [stage EXCEPT ![r] = "loading"]
  /\ UNCHANGED <<record, vm, status, boot, ctx, requests>>

-----------------------------------------------------------------------------
(* The goroutine: executeMigration, phase by phase.                         *)

Phases == <<"pending", "preparing", "backing_up", "transferring",
            "restoring", "cleaning_up">>

NextPhase(s) == Phases[Rank[s] + 2]

\* GetByID(ctx, id) succeeds; "pending" counts as a phase that has ended.
Load(r) ==
  /\ stage[r] = "loading" /\ ctx[r] = "live"
  /\ stage' = [stage EXCEPT ![r] = "worked"]
  /\ UNCHANGED <<record, vm, status, boot, activeVMs, cancels, ctx, requests>>

\* The record cannot be loaded: executeMigration returns and writes nothing.
LoadFails(r) ==
  /\ stage[r] = "loading"
  /\ ctx[r] # "live" \/ DatabaseErrors
  /\ stage' = [stage EXCEPT ![r] = "closing"]
  /\ UNCHANGED <<record, vm, status, boot, activeVMs, cancels, ctx, requests>>

\* updatePhase at the head of a phase, whatever became of ctx since the last.
EnterPhase(r) ==
  /\ stage[r] = "worked" /\ status[r] # "cleaning_up"
  /\ status' = [status EXCEPT ![r] = NextPhase(status[r])]
  /\ UpdateWithCtx(r, NextPhase(status[r]))
  /\ stage' = [stage EXCEPT ![r] = "work"]
  /\ UNCHANGED <<vm, boot, activeVMs, cancels, ctx, requests>>

\* Every phase but the last needs a live context to get to its end; the
\* last one only logs what its commands report.
PhaseSucceeds(r) ==
  /\ stage[r] = "work"
  /\ ctx[r] = "live" \/ status[r] = "cleaning_up"
  /\ stage' = [stage EXCEPT ![r] = "worked"]
  /\ UNCHANGED <<record, vm, status, boot, activeVMs, cancels, ctx, requests>>

\* handleError: the context decides between cancelled and failed, and the
\* row is written with a context of its own.
PhaseFails(r) ==
  LET outcome == IF ctx[r] = "cancelled" THEN "cancelled" ELSE "failed"
  IN  /\ stage[r] = "work" /\ status[r] # "cleaning_up"
      /\ status' = [status EXCEPT ![r] = outcome]
      /\ UpdateDetached(r, outcome)
      /\ stage' = [stage EXCEPT ![r] = "rollback"]
      /\ UNCHANGED <<vm, boot, activeVMs, cancels, ctx, requests>>

\* The rest of handleError: the source VM is put back; if that fails the row
\* is written again.
RollBack(r) ==
  /\ stage[r] = "rollback"
  /\ UNCHANGED record \/ UpdateDetached(r, status[r])
  /\ stage' = [stage EXCEPT ![r] = "closing"]
  /\ UNCHANGED <<vm, status, boot, activeVMs, cancels, ctx, requests>>

\* The last write of a migration that succeeded uses the migration's context.
Complete(r) ==
  /\ stage[r] = "worked" /\ status[r] = "cleaning_up"
  /\ status' = [status EXCEPT ![r] = "completed"]
  /\ UpdateWithCtx(r, "completed")
  /\ stage' = [stage EXCEPT ![r] = "closing"]
  /\ UNCHANGED <<vm, boot, activeVMs, cancels, ctx, requests>>

\* The deferred function of the goroutine.
Close(r) ==
  /\ stage[r] = "closing"
  /\ activeVMs' = [activeVMs EXCEPT ![vm[r]] = Free]
  /\ cancels' = cancels \ {r}
  /\ ctx' = [ctx EXCEPT ![r] = IF @ = "live" THEN "cancelled" ELSE @]
  /\ stage' = [stage EXCEPT ![r] = "gone"]
  /\ UNCHANGED <<record, vm, status, boot, requests>>

\* A context that can only be cancelled.
Expire_WithoutDeadline(r) == FALSE

\* maxMigrationDuration is over.  Only a phase waits long enough for that.
Expire(r) ==
  /\ stage[r] \in {"work", "worked"} /\ ctx[r] = "live"
  /\ ctx' = [ctx EXCEPT ![r] = "expired"]
  /\ UNCHANGED <<record, local, boot, activeVMs, cancels, requests>>

-----------------------------------------------------------------------------
(* CancelMigration and DeleteMigration read the row first and act later.    *)

CancelCheck(r) ==
  /\ server = "serving" /\ record[r] \in NonTerminal
  /\ cancelling' = cancelling \cup {r}
  /\ UNCHANGED <<record, local, boot, activeVMs, cancels, ctx, deleting>>

\* Without a registered function the caller gets an error.
CancelCommit(r) ==
  /\ r \in cancelling
  /\ cancelling' = cancelling \ {r}
  /\ ctx' = IF r \in cancels /\ ctx[r] = "live"
            THEN [ctx EXCEPT ![r] = "cancelled"] ELSE ctx
  /\ UNCHANGED <<record, local, boot, activeVMs, cancels, deleting>>

DeleteCheck(r) ==
  /\ server = "serving" /\ record[r] \in Terminal
  /\ deleting' = deleting \cup {r}
  /\ UNCHANGED <<record, local, boot, activeVMs, cancels, ctx, cancelling>>

DeleteCommit(r) ==
  /\ r \in deleting
  /\ deleting' = deleting \ {r}
  /\ \/ record' = [record EXCEPT ![r] = "deleted"]
     \/ DatabaseErrors /\ UNCHANGED record
  /\ UNCHANGED <<local, boot, activeVMs, cancels, ctx, cancelling>>

-----------------------------------------------------------------------------
(* The process dies and comes back: everything in memory is lost, the rows  *)
(* stay, and main() runs RecoverOrphanedMigrations before it serves.        *)

Crash ==
  /\ server # "down"
  /\ server' = "down"
  /\ orphans' = {}
  /\ stage' = [r \in Reqs |-> IF stage[r] = "idle" THEN "idle" ELSE "gone"]
  /\ activeVMs' = [v \in VMIDs |-> Free]
  /\ cancels' = {} /\ cancelling' = {} /\ deleting' = {}
  /\ UNCHANGED <<record, vm, ctx, status>>

Boot_SweepsAllRows ==
  /\ server = "down"
  /\ server' = "booting"
  /\ orphans' = {r \in Reqs : record[r] # "absent"}
  /\ UNCHANGED <<record, local, activeVMs, cancels, ctx, requests>>

\* ListByStatus; an error is logged and the server starts all the same.
Boot ==
  /\ server = "down"
  /\ server' = "booting"
  /\ \/ orphans' = {r \in Reqs : record[r] \in NonTerminal}
     \/ DatabaseErrors /\ orphans' = {}
  /\ UNCHANGED <<record, local, activeVMs, cancels, ctx, requests>>

RecoverRecord(r) ==
  /\ server = "booting" /\ r \in orphans
  /\ orphans' = orphans \ {r}
  /\ UpdateDetached(r, "failed")
  /\ UNCHANGED <<server, local, activeVMs, cancels, ctx, requests>>

Serve ==
  /\ server = "booting" /\ orphans = {}
  /\ server' = "serving"
  /\ activeVMs' = [v \in VMIDs |-> Free]
  /\ cancels' = {}
  /\ UNCHANGED <<record, orphans, local, ctx, requests>>

-----------------------------------------------------------------------------

Call(r) == Reject(r) \/ CreateRecord(r) \/ CreateFails(r) \/ Register(r)

Goroutine(r) == \/ Load(r) \/ LoadFails(r) \/ EnterPhase(r)
                \/ PhaseSucceeds(r) \/ PhaseFails(r) \/ RollBack(r)
                \/ Complete(r) \/ Close(r)

Users(r) == \/ Reserve(r) \/ CancelCheck(r) \/ CancelCommit(r)
            \/ DeleteCheck(r) \/ DeleteCommit(r)

Process == Crash \/ Boot \/ (\E r \in Reqs : RecoverRecord(r)) \/ Serve

ServiceNext == \/ \E r \in Reqs : Call(r) \/ Goroutine(r) \/ Users(r) \/ Expire(r)
               \/ Process

ServiceSpec == ServiceInit /\ [][ServiceNext]_vars

\* A phase may wait for Proxmox as long as its context lives; the deadline
\* ends that.  Everything else in a call or a goroutine is bounded work.
OverduePhase(r) == ctx[r] # "live" /\ (PhaseFails(r) \/ PhaseSucceeds(r))

Bounded(r) == \/ Call(r) \/ Load(r) \/ LoadFails(r) \/ EnterPhase(r)
              \/ RollBack(r) \/ Complete(r) \/ Close(r)

Fairness == \A r \in Reqs : /\ WF_vars(Bounded(r))
                            /\ WF_vars(OverduePhase(r))
                            /\ WF_vars(Expire(r))

FairSpec == ServiceSpec /\ Fairness

-----------------------------------------------------------------------------
(* Properties.                                                              *)

Busy(r) == stage[r] \in Calling \cup Running

\* Two migrations of the same VM never run at once, from the reservation in
\* StartMigration to the end of the rollback ("to prevent parallel migrations
\* of the same VM", on activeVMs).
NoParallelMigration ==
  \A r1, r2 \in Reqs : r1 # r2 /\ Busy(r1) /\ Busy(r2) => vm[r1] # vm[r2]

\* No path leaks a lock: an entry of activeVMs belongs to a call or goroutine
\* that is still at work on that VM and will remove it.
LockHasOwner ==
  \A v \in VMIDs, r \in Reqs, k \in {"placeholder", "migration"} :
    activeVMs[v] = <<k, r>> =>
      /\ vm[r] = v
      /\ stage[r] \in (IF k = "placeholder" THEN Calling ELSE Running)

\* CancelMigration finds a function for exactly the goroutines that run, so a
\* migration can be cancelled for as long as it can still do something.
RunningIsCancellable == cancels = {r \in Reqs : stage[r] \in Running}

\* What the service keeps in its two maps is what its goroutines are doing: nothing is left
\* behind by one that has ended, and one that runs is found in both.
MapsMatchGoroutines ==
  /\ LockHasOwner
  /\ RunningIsCancellable

\* The service keeps the promise of the rows: late updates, cancels, deletes,
\* crashes and the sweep at startup never take a row backwards, out of a
\* terminal status, or back from deletion.
ImplementsLifecycle == Spec

\* A locked VMID becomes free again: every call and every goroutine ends.
LockReleased ==
  \A v \in VMIDs : activeVMs[v] # Free ~> activeVMs[v] = Free

\* A row that is not terminal has somebody who will finish it (the sweep at
\* startup is for migrations "interrupted by a server restart").
NonTerminalRowHasWorker ==
  \A r \in Reqs : server = "serving" /\ record[r] \in NonTerminal => Busy(r)
=============================================================================
