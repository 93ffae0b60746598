------------------------- MODULE MigrationPipeline -------------------------
(***************************************************************************)
(* One run of executeMigration (service/migration) and the two Proxmox     *)
(* nodes it works on: the power state, registration and CD drive of the    *)
(* source VM, the archive files, the tasks Proxmox runs on its own, and    *)
(* the scp process.  The context can end between any two steps, a reply    *)
(* can be lost, a wait can give up on a task that goes on, and the backend *)
(* can die.                                                                *)
(***************************************************************************)
EXTENDS Naturals

CONSTANT MaxFaults    \* how many lost replies, errors and given-up waits

ASSUME MaxFaultsAssumption == MaxFaults \in Nat

VARIABLES job,      \* the request: mode, same VMID or not, cleanup flags
          go,       \* the goroutine: where it is, and its local variables
          ctx,      \* the context of the migration
          row,      \* the row in vm_migrations
          src,      \* the VM and its files on the source node
          tgt,      \* the VM and its files on the target node
          task,     \* tasks on the nodes: power down, vzdump, restore, scp
          faults    \* faults so far

vars == <<job, go, ctx, row, src, tgt, task, faults>>

Modes == {"stop", "suspend", "snapshot"}

Steps == {"preflight", "powerdown", "forcestop", "waitdown", "detach", "vzdump",
          "polldump", "reattach", "reattachFailing", "startscp", "pollscp",
          "checksum", "stopsource", "waitstop", "saveconf", "unregister",
          "leftover", "restore", "pollrestore", "rollback", "restartforced",
          "failing", "aborting", "restarting", "resuming", "dropbackup",
          "cleanup", "resumesource", "complete", "gone", "dead"}

TaskStates == {"none", "running", "ok", "failed"}

\* The request, the goroutine's local variables, the row.
Jobs == [mode : Modes, same : BOOLEAN, cleanup : BOOLEAN]
Locals == [pc : Steps,
           stopped : BOOLEAN,    \* vmWasStopped
           forced : BOOLEAN,     \* stoppedForUnregister
           saved : BOOLEAN,      \* sourceConfigBackup # ""
           sized : BOOLEAN,      \* the size of the archive is known
           detached : BOOLEAN,   \* detachedMedia is not empty
           rbFailed : BOOLEAN,   \* rbErr # nil
           degraded : BOOLEAN]   \* the source VM could not be resumed
Rows == [status : {"active", "completed", "failed", "cancelled"},
         rollback : BOOLEAN,  \* the message tells of the failed rollback
         down : BOOLEAN]      \* ... and of the source VM left down

\* The nodes, and what runs on them.
Sources == [power : {"running", "suspended", "stopped"},
            conf : BOOLEAN,      \* <vmid>.conf
            backup : BOOLEAN,    \* <vmid>.conf.mig-backup
            media : BOOLEAN,     \* the CD drive holds its ISO
            archive : BOOLEAN]
Targets == [vm : {"none", "restoring", "restored"},
            other : BOOLEAN,     \* a VM registered there under the new VMID
            archive : {"none", "partial", "corrupt", "good"}]
Tasks == [down : TaskStates, dump : TaskStates, restore : TaskStates, scp : TaskStates]

TypeOK ==
  /\ job \in Jobs /\ go \in Locals
  /\ ctx \in {"live", "cancelled", "expired"}
  /\ row \in Rows
  /\ src \in Sources /\ tgt \in Targets /\ task \in Tasks
  /\ faults \in 0..MaxFaults

Init ==
  /\ job \in Jobs
  /\ go = [pc |-> "preflight", stopped |-> FALSE, forced |-> FALSE,
           saved |-> FALSE, sized |-> FALSE, detached |-> FALSE,
           rbFailed |-> FALSE, degraded |-> FALSE]
  /\ ctx = "live"
  /\ row = [status |-> "active", rollback |-> FALSE, down |-> FALSE]
  /\ src = [power |-> "running", conf |-> TRUE, backup |-> FALSE,
            media |-> TRUE, archive |-> FALSE]
  /\ tgt \in [vm : {"none"}, other : BOOLEAN, archive : {"none"}]
  /\ task = [down |-> "none", dump |-> "none", restore |-> "none", scp |-> "none"]
  /\ faults = 0

-----------------------------------------------------------------------------
(* Replies.  "ok": the caller sees success; "ran": it happened at the node. *)

Live == ctx = "live"

Fault == faults < MaxFaults /\ faults' = faults + 1
NoFault == UNCHANGED faults

\* A Proxmox call: with a context that is done the request is not sent; a
\* fault loses the request or only its answer.
ApiReply(ok, ran) == \/ ok = Live /\ ran = Live /\ NoFault
                     \/ Live /\ ~ok /\ Fault

\* RunCommand and CopyTo: with a context that is done the caller gets its
\* error, but the command may already be on its way.
SshReply(ok, ran) == ApiReply(ok, ran) \/ (~Live /\ ~ok /\ NoFault)

\* A call with context.Background().
DetachedReply(ok, ran) == (ok /\ ran /\ NoFault) \/ (~ok /\ Fault)

At(step) == go.pc = step
Goto(step) == go' = [go EXCEPT !.pc = step]

\* Waiting for a task: success needs a live context to be seen; a failed task,
\* a context that is done, or too many failed polls end the wait otherwise.
WaitEnds(t) == task[t] = "ok" /\ Live /\ NoFault
WaitFails_IgnoresContext(t) == \/ task[t] = "failed" /\ NoFault
                               \/ task[t] = "running" /\ Live /\ Fault

WaitFails(t) == \/ (task[t] = "failed" \/ ~Live) /\ NoFault
                \/ task[t] = "running" /\ Live /\ Fault

-----------------------------------------------------------------------------
(* Phase 1: preparing.                                                      *)

Preflight ==
  /\ At("preflight")
  /\ \/ Live /\ Goto(IF job.mode = "snapshot" THEN "detach" ELSE "powerdown")
     \/ Goto("failing")
  /\ UNCHANGED <<job, ctx, row, src, tgt, task, faults>>

\* ShutdownVM, with StopVM as its fallback, or SuspendVM.
PowerDown ==
  /\ go.pc \in {"powerdown", "forcestop"}
  /\ \E ok, ran \in BOOLEAN :
       /\ ApiReply(ok, ran)
       /\ task' = IF ran THEN [task EXCEPT !.down = "running"] ELSE task
       /\ Goto(IF ok THEN "waitdown"
               ELSE IF At("powerdown") /\ job.mode = "stop" THEN "forcestop"
               ELSE "failing")
  /\ UNCHANGED <<job, ctx, row, src, tgt>>

WaitDown_ForgetsForced ==
  /\ go.pc \in {"waitdown", "waitstop"}
  /\ \/ /\ WaitEnds("down")
        /\ go' = [go EXCEPT !.stopped = TRUE,
                            !.pc = IF At("waitdown") THEN "detach" ELSE "saveconf"]
     \/ WaitFails("down") /\ Goto("failing")
  /\ UNCHANGED <<job, ctx, row, src, tgt, task>>

\* vmWasStopped is set only when the wait has seen the task succeed.
WaitDown ==
  /\ go.pc \in {"waitdown", "waitstop"}
  /\ \/ /\ WaitEnds("down")
        /\ go' = [go EXCEPT !.stopped = TRUE, !.forced = At("waitstop"),
                            !.pc = IF At("waitdown") THEN "detach" ELSE "saveconf"]
     \/ WaitFails("down") /\ Goto("failing")
  /\ UNCHANGED <<job, ctx, row, src, tgt, task>>

-----------------------------------------------------------------------------
(* Phase 2: backing up.                                                     *)

DetachMedia ==
  /\ At("detach")
  /\ \E ok, ran \in BOOLEAN :
       /\ ApiReply(ok, ran)
       /\ src' = IF ran THEN [src EXCEPT !.media = FALSE] ELSE src
       /\ go' = [go EXCEPT !.detached = ok, !.pc = "vzdump"]
  /\ UNCHANGED <<job, ctx, row, tgt, task>>

\* The free space is checked once more before the task is started.
StartVzdump ==
  /\ At("vzdump")
  /\ \/ Live /\ NoFault /\ Goto("failing") /\ UNCHANGED task
     \/ \E ok, ran \in BOOLEAN :
          /\ ApiReply(ok, ran)
          /\ task' = IF ran THEN [task EXCEPT !.dump = "running"] ELSE task
          /\ Goto(IF ok THEN "polldump" ELSE "failing")
  /\ UNCHANGED <<job, ctx, row, src, tgt>>

PollVzdump ==
  /\ At("polldump")
  /\ \/ WaitEnds("dump") /\ Goto("reattach")
     \/ WaitFails("dump") /\ Goto("reattachFailing")
  /\ UNCHANGED <<job, ctx, row, src, tgt, task>>

\* restoreMedia; its errors are only logged.
ReattachMedia ==
  /\ go.pc \in {"reattach", "reattachFailing"}
  /\ IF go.detached
     THEN \E ok, ran \in BOOLEAN :
            /\ ApiReply(ok, ran)
            /\ src' = IF ran THEN [src EXCEPT !.media = TRUE] ELSE src
     ELSE UNCHANGED src /\ NoFault
  /\ Goto(IF At("reattach") THEN "startscp" ELSE "failing")
  /\ UNCHANGED <<job, ctx, row, tgt, task>>

-----------------------------------------------------------------------------
(* Phase 3: transferring.                                                   *)

\* The path and the size of the archive are looked up; scp starts detached.
StartScp ==
  /\ At("startscp")
  /\ \E ok, ran, sized \in BOOLEAN :
       /\ SshReply(ok, ran)
       /\ task' = IF ran THEN [task EXCEPT !.scp = "running"] ELSE task
       /\ tgt' = IF ran THEN [tgt EXCEPT !.archive = "partial"] ELSE tgt
       /\ go' = [go EXCEPT !.sized = sized, !.pc = IF ok THEN "pollscp" ELSE "failing"]
  /\ UNCHANGED <<job, ctx, row, src>>

\* The context is done: kill scp and remove what it copied.
AbortScp ==
  /\ At("pollscp") /\ ~Live
  /\ \E ok, ran \in BOOLEAN :
       /\ DetachedReply(ok, ran)
       /\ task' = IF ran THEN [task EXCEPT !.scp = "failed"] ELSE task
       /\ tgt' = IF ran THEN [tgt EXCEPT !.archive = "none"] ELSE tgt
  /\ Goto("aborting")
  /\ UNCHANGED <<job, ctx, row, src>>

\* scp has ended, or the polls failed too often while it goes on.  A file that
\* is shorter than a known size is removed.
PollScp ==
  /\ At("pollscp")
  /\ \/ /\ task.scp = "running" /\ Live /\ Fault
        /\ Goto("failing") /\ UNCHANGED tgt
     \/ /\ task.scp # "running" /\ NoFault
        /\ IF go.sized /\ (tgt.archive = "partial" \/ ~Live)
           THEN /\ Goto("failing")
                /\ tgt' \in {tgt, [tgt EXCEPT !.archive = "none"]}
           ELSE Goto("checksum") /\ UNCHANGED tgt
  /\ UNCHANGED <<job, ctx, row, src, task>>

AfterTransfer_SourceNotStopped == IF job.same THEN "saveconf" ELSE "leftover"

AfterTransfer == IF ~job.same THEN "leftover"
                 ELSE IF go.stopped THEN "saveconf" ELSE "stopsource"

\* Both sha256 sums must be there and equal.
Checksum ==
  /\ At("checksum")
  /\ \/ /\ Live /\ tgt.archive = "good"
        /\ Goto(AfterTransfer) /\ NoFault /\ UNCHANGED tgt
     \/ /\ \/ (tgt.archive # "good" \/ ~Live) /\ NoFault
           \/ Live /\ Fault
        /\ Goto("failing")
        /\ tgt' \in {tgt, [tgt EXCEPT !.archive = "none"]}
  /\ UNCHANGED <<job, ctx, row, src, task>>

-----------------------------------------------------------------------------
(* Phase 4: restoring.  With the same VMID the source VM is stopped and its *)
(* registration moved aside first.                                          *)

StopSource ==
  /\ At("stopsource")
  /\ \E ok, ran \in BOOLEAN :
       /\ ApiReply(ok, ran)
       /\ task' = IF ran THEN [task EXCEPT !.down = "running"] ELSE task
       /\ Goto(IF ok THEN "waitstop" ELSE "failing")
  /\ UNCHANGED <<job, ctx, row, src, tgt>>

SaveConfig ==
  /\ At("saveconf")
  /\ \E ok, ran \in BOOLEAN :
       SshReply(ok, ran) /\ go' = [go EXCEPT !.saved = ok, !.pc = "unregister"]
  /\ UNCHANGED <<job, ctx, row, src, tgt, task>>

\* mv <vmid>.conf <vmid>.conf.mig-backup; nobody looks at the result.
Unregister ==
  /\ At("unregister")
  /\ \E ok, ran \in BOOLEAN :
       /\ SshReply(ok, ran)
       /\ src' = IF ran THEN [src EXCEPT !.conf = FALSE, !.backup = TRUE] ELSE src
  /\ Goto("leftover")
  /\ UNCHANGED <<job, ctx, row, tgt, task>>

\* A configuration under the new VMID on the target is removed.
RemoveLeftover ==
  /\ At("leftover")
  /\ \E ok, ran \in BOOLEAN :
       /\ ApiReply(ok, ran)
       /\ tgt' = IF ran THEN [tgt EXCEPT !.other = FALSE] ELSE tgt
  /\ Goto("restore")
  /\ UNCHANGED <<job, ctx, row, src, task>>

StartRestore ==
  /\ At("restore")
  /\ \E ok, ran \in BOOLEAN :
       /\ ApiReply(ok, ran)
       /\ task' = IF ran THEN [task EXCEPT !.restore = "running"] ELSE task
       /\ tgt' = IF ran THEN [tgt EXCEPT !.vm = "restoring"] ELSE tgt
       /\ Goto(IF ok THEN "pollrestore" ELSE "rollback")
  /\ UNCHANGED <<job, ctx, row, src>>

PollRestore_AnyEnd ==
  /\ At("pollrestore")
  /\ IF Live /\ task.restore \in {"ok", "failed"} THEN Goto("dropbackup")
                                               ELSE ~Live /\ Goto("rollback")
  /\ UNCHANGED <<job, ctx, row, src, tgt, task, faults>>

PollRestore ==
  /\ At("pollrestore")
  /\ \/ WaitEnds("restore") /\ Goto("dropbackup")
     \/ WaitFails("restore") /\ Goto("rollback")
  /\ UNCHANGED <<job, ctx, row, src, tgt, task>>

RollbackSourceConfig_RemovesFirst ==
  /\ At("rollback")
  /\ \E ok, ran \in BOOLEAN :
       /\ SshReply(ok, ran)
       /\ src' = [src EXCEPT !.conf = @ \/ (ran /\ go.saved), !.backup = FALSE]
  /\ Goto("failing")
  /\ UNCHANGED <<job, ctx, row, tgt, task>>

\* rollbackSourceConfig writes the saved text back, or moves the backup file
\* back when there is none; it is called whether or not the source was
\* unregistered.  The archive on the target is removed as far as possible.
RollbackSourceConfig ==
  /\ At("rollback")
  /\ \E ok, ran \in BOOLEAN :
       /\ SshReply(ok, ran)
       /\ LET moved == ran /\ src.backup
              done == ok /\ (go.saved \/ src.backup)
          IN  /\ src' \in
                   IF go.saved
                   THEN {[src EXCEPT !.conf = @ \/ ran, !.backup = b] :
                           b \in IF ok THEN {FALSE, src.backup} ELSE {src.backup}}
                   ELSE {[src EXCEPT !.conf = @ \/ moved, !.backup = @ /\ ~moved]}
              /\ go' = [go EXCEPT !.rbFailed = ~done,
                                  !.pc = IF go.forced /\ done THEN "restartforced"
                                                              ELSE "failing"]
  /\ tgt' \in {tgt, [tgt EXCEPT !.archive = "none"]}
  /\ UNCHANGED <<job, ctx, row, task>>

\* A start or resume of the source VM has an effect only if it is registered.
SourceUp(ran) == IF ran /\ src.conf THEN [src EXCEPT !.power = "running"] ELSE src

RestartForced ==
  /\ At("restartforced")
  /\ \E ok, ran \in BOOLEAN : ApiReply(ok, ran) /\ src' = SourceUp(ran)
  /\ Goto("failing")
  /\ UNCHANGED <<job, ctx, row, tgt, task>>

-----------------------------------------------------------------------------
(* Failure: handleError, and the branch of the transfer loop that does      *)
(* nearly the same when its context is done.                                *)

WriteFailure_DropsRollbackError ==
  /\ go.pc \in {"failing", "aborting"}
  /\ \/ /\ NoFault
        /\ row' = [row EXCEPT
                     !.status = IF ctx = "cancelled" THEN "cancelled" ELSE "failed"]
     \/ Fault /\ UNCHANGED row
  /\ Goto(IF ~go.stopped \/ job.mode = "snapshot" THEN "gone"
          ELSE IF At("failing") THEN "restarting" ELSE "resuming")
  /\ UNCHANGED <<job, ctx, src, tgt, task>>

\* Unless ctx is live the message says "cancelled" or "timeout" and nothing else.
WriteFailure ==
  /\ go.pc \in {"failing", "aborting"}
  /\ \/ /\ NoFault
        /\ row' = [row EXCEPT
                     !.status = IF ctx = "cancelled" THEN "cancelled" ELSE "failed",
                     !.rollback = Live /\ go.rbFailed]
     \/ Fault /\ UNCHANGED row
  /\ Goto(IF ~go.stopped \/ job.mode = "snapshot" THEN "gone"
          ELSE IF At("failing") THEN "restarting" ELSE "resuming")
  /\ UNCHANGED <<job, ctx, src, tgt, task>>

\* tryRestartSourceVM, resumeSourceVMForRollback, or ResumeVM after an aborted
\* transfer.  Only the second reports its failure in the row.
RestoreSourceVM ==
  /\ go.pc \in {"restarting", "resuming"}
  /\ \E ok, ran \in BOOLEAN :
       /\ DetachedReply(ok, ran)
       /\ src' = SourceUp(ran)
       /\ row' = IF job.mode = "suspend" /\ At("restarting") /\ ~(ok /\ src.conf)
                 THEN [row EXCEPT !.down = TRUE] ELSE row
  /\ Goto("gone")
  /\ UNCHANGED <<job, ctx, tgt, task>>

-----------------------------------------------------------------------------
(* Success: the rest of phase 4 and phase 5, cleaning up.                   *)

DropConfigBackup ==
  /\ At("dropbackup")
  /\ \E ok, ran \in BOOLEAN :
       /\ SshReply(ok, ran)
       /\ src' = IF ran THEN [src EXCEPT !.backup = FALSE] ELSE src
  /\ Goto("cleanup")
  /\ UNCHANGED <<job, ctx, row, tgt, task>>

CleanUp ==
  /\ At("cleanup")
  /\ IF job.cleanup
     THEN \E ok, ran \in BOOLEAN :
            /\ SshReply(ok, ran)
            /\ src' = IF ran THEN [src EXCEPT !.archive = FALSE] ELSE src
            /\ tgt' = IF ran THEN [tgt EXCEPT !.archive = "none"] ELSE tgt
     ELSE UNCHANGED <<src, tgt>> /\ NoFault
  /\ Goto("resumesource")
  /\ UNCHANGED <<job, ctx, row, task>>

\* A suspended source VM goes on if the target got a VMID of its own.
ResumeSource ==
  /\ At("resumesource")
  /\ IF job.mode = "suspend" /\ ~job.same
     THEN \E ok, ran \in BOOLEAN :
            /\ ApiReply(ok, ran)
            /\ src' = SourceUp(ran)
            /\ go' = [go EXCEPT !.degraded = ~ok, !.pc = "complete"]
     ELSE Goto("complete") /\ UNCHANGED src /\ NoFault
  /\ UNCHANGED <<job, ctx, row, tgt, task>>

Complete ==
  /\ At("complete")
  /\ \E ok, ran \in BOOLEAN :
       /\ ApiReply(ok, ran)
       /\ row' = IF ran THEN [row EXCEPT !.status = "completed", !.down = go.degraded]
                        ELSE row
  /\ Goto("gone")
  /\ UNCHANGED <<job, ctx, src, tgt, task>>

-----------------------------------------------------------------------------
(* Around the goroutine.                                                    *)

\* CancelMigration, or the end of maxMigrationDuration.
ContextEnds ==
  /\ Live /\ go.pc \notin {"gone", "dead"}
  /\ ctx' \in {"cancelled", "expired"}
  /\ UNCHANGED <<job, go, row, src, tgt, task, faults>>

\* The tasks run on the nodes whether or not anybody still waits for them.
PowerDownEnds ==
  /\ task.down = "running"
  /\ \/ /\ task' = [task EXCEPT !.down = "ok"]
        /\ src' = [src EXCEPT !.power = IF job.mode = "suspend" THEN "suspended"
                                                                ELSE "stopped"]
     \/ task' = [task EXCEPT !.down = "failed"] /\ UNCHANGED src
  /\ UNCHANGED <<job, go, ctx, row, tgt, faults>>

VzdumpEnds ==
  /\ task.dump = "running"
  /\ \/ /\ task' = [task EXCEPT !.dump = "ok"]
        /\ src' = [src EXCEPT !.archive = TRUE]
     \/ task' = [task EXCEPT !.dump = "failed"] /\ UNCHANGED src
  /\ UNCHANGED <<job, go, ctx, row, tgt, faults>>

ScpEnds ==
  /\ task.scp = "running"
  /\ task' = [task EXCEPT !.scp = "ok"]
  /\ \E a \in {"partial", "corrupt", "good"} : tgt' = [tgt EXCEPT !.archive = a]
  /\ UNCHANGED <<job, go, ctx, row, src, faults>>

RestoreEnds ==
  /\ task.restore = "running"
  /\ \/ /\ task' = [task EXCEPT !.restore = "ok"]
        /\ tgt' = [tgt EXCEPT !.vm = "restored"]
     \/ /\ task' = [task EXCEPT !.restore = "failed"]
        /\ tgt' = [tgt EXCEPT !.vm = "none"]
  /\ UNCHANGED <<job, go, ctx, row, src, faults>>

\* The backend dies; when it is back, RecoverOrphanedMigrations marks the row
\* and does nothing about the nodes.
Crash ==
  /\ go.pc \notin {"gone", "dead"}
  /\ Goto("dead")
  /\ UNCHANGED <<job, ctx, row, src, tgt, task, faults>>

Recover ==
  /\ At("dead") /\ row.status = "active"
  /\ row' = [row EXCEPT !.status = "failed"]
  /\ UNCHANGED <<job, go, ctx, src, tgt, task, faults>>

Goroutine == \/ Preflight \/ PowerDown \/ WaitDown
             \/ DetachMedia \/ StartVzdump \/ PollVzdump \/ ReattachMedia
             \/ StartScp \/ AbortScp \/ PollScp \/ Checksum
             \/ StopSource \/ SaveConfig \/ Unregister \/ RemoveLeftover
             \/ StartRestore \/ PollRestore
             \/ RollbackSourceConfig \/ RestartForced
             \/ WriteFailure \/ RestoreSourceVM
             \/ DropConfigBackup \/ CleanUp \/ ResumeSource \/ Complete

Nodes == PowerDownEnds \/ VzdumpEnds \/ ScpEnds \/ RestoreEnds

Next == Goroutine \/ Nodes \/ ContextEnds \/ Crash \/ Recover

Spec == Init /\ [][Next]_vars

\* Go schedules the goroutine and its deadline comes; Proxmox owes nothing.
FairSpec == Spec /\ WF_vars(Goroutine) /\ WF_vars(ContextEnds)

-----------------------------------------------------------------------------
(* Properties.                                                              *)

\* Whatever fails, is cancelled or dies, the configuration of the VM is not
\* lost: it is registered, or set aside as .mig-backup, or the target has the
\* restored VM.  (unregister, rollbackSourceConfig and the final rm)
SourceConfigNeverLost == src.conf \/ src.backup \/ tgt.vm = "restored"

\* A restore starts only from an archive that is byte for byte the one vzdump
\* wrote, and with the same VMID only when the source VM has been powered down
\* and nobody has started it again.
RestoreOnlyWhenSafe ==
  [][task.restore = "none" /\ task'.restore = "running" =>
       /\ tgt.archive = "good"
       /\ job.same => src.power # "running"]_vars

\* "completed" is true: the target has the VM, a source VM of the same VMID is
\* not running any more, and a suspended one that keeps its VMID runs again
\* unless the row says that it does not.
CompletedIsTrue ==
  row.status = "completed" =>
    /\ tgt.vm = "restored"
    /\ job.same => src.power # "running"
    /\ job.mode = "suspend" /\ ~job.same => src.power = "running" \/ row.down

\* A migration that ends without a cancel, a timeout or a lost reply, for instance
\* because a task fails, has attached the CD drives again that it detached
\* ("werden nach Backup wiederhergestellt"), and if it failed it leaves the source
\* VM registered and running, in every mode ("so a failed migration does not
\* leave it down").
CleanFailureRestoresSource ==
  At("gone") /\ Live /\ faults = 0 =>
    /\ task.dump # "none" => src.media
    /\ row.status = "failed" => src.conf /\ src.power = "running"

\* When a migration fails for another reason than a cancel or a timeout, the row
\* says so if the source VM is not registered any more or was left suspended
\* ("This MUST be surfaced to the operator, not lost in the logs").
OperatorIsTold ==
  At("gone") /\ row.status = "failed" /\ Live =>
    /\ ~src.conf => row.rollback
    /\ go.stopped /\ src.power = "suspended" => row.down

\* The goroutine ends, however long Proxmox takes: the deadline sees to it.
Terminates == <>(go.pc \in {"gone", "dead"})

-----------------------------------------------------------------------------
(* What the comments promise, and the code does not keep in every case.     *)

\* "a still-running source process would hold the same disk image as the
\* newly-restored target VM (split-brain)"
NoSplitBrain == job.same /\ tgt.vm = "restored" => src.power # "running"
=============================================================================
