---------------------- MODULE MigrationPipelineProofs ----------------------
(***************************************************************************)
(* Proofs about MigrationPipeline, for any number of faults: what a        *)
(* migration guarantees of the source VM, the archive and the row.         *)
(***************************************************************************)
EXTENDS MigrationPipeline, TLAPS

-----------------------------------------------------------------------------
(* The inductive invariant.                                                 *)

Preparing == {"preflight", "powerdown", "forcestop", "waitdown"}
BackingUp == {"detach", "vzdump", "polldump", "reattach", "reattachFailing"}
Transferring == {"startscp", "pollscp", "checksum"}
Verified == {"stopsource", "waitstop", "saveconf", "unregister", "leftover", "restore"}
BeforeRestore == Preparing \cup BackingUp \cup Transferring \cup Verified
Succeeding == {"dropbackup", "cleanup", "resumesource", "complete"}

\* There is one restore, and only its success leads to the row "completed".
RestoreInv ==
  /\ go.pc \in BeforeRestore => task.restore = "none"
  /\ go.pc \in Succeeding => task.restore = "ok"
  /\ tgt.vm = "restored" <=> task.restore = "ok"
  /\ go.pc \notin {"restarting", "resuming", "gone", "dead"} => row.status = "active"
  /\ row.status = "completed" => go.pc = "gone" /\ task.restore = "ok"

\* Nothing writes the archive on the target once its sums are compared.
ArchiveInv ==
  /\ go.pc \in Verified \cup {"checksum"} => task.scp # "running"
  /\ go.pc \in Verified => tgt.archive = "good"

\* Which way a mode goes, and where the goroutine knows that the source VM is down.
StageInv ==
  /\ go.stopped => task.down = "ok" /\ (job.mode = "snapshot" => job.same)
  /\ go.pc \in {"powerdown", "forcestop", "waitdown"} => job.mode # "snapshot"
  /\ go.pc \in Preparing => ~go.stopped
  /\ go.pc \in {"stopsource", "waitstop"} => job.same /\ job.mode = "snapshot" /\ ~go.stopped
  /\ go.pc \in {"saveconf", "unregister"} => job.same
  /\ go.pc \in {"restarting", "resuming"} => go.stopped /\ job.mode # "snapshot"
  /\ go.pc \in BackingUp \cup Transferring \cup Verified \cup {"pollrestore"} \cup Succeeding =>
       job.mode = "snapshot" \/ go.stopped
  /\ go.pc \in {"saveconf", "unregister", "leftover", "restore", "pollrestore"} \cup Succeeding =>
       ~job.same \/ go.stopped

\* A source VM that went down stays down until the migration has failed or succeeded.
PowerInv ==
  /\ src.power = "suspended" => job.mode = "suspend"
  /\ go.pc \in BeforeRestore \cup {"pollrestore"} \cup (Succeeding \ {"complete"}) =>
       (task.down = "ok" => src.power # "running")

\* What "completed" says is true before it is written.
CompletedInv ==
  go.pc = "complete" \/ row.status = "completed" =>
    /\ job.same => src.power # "running"
    /\ job.mode = "suspend" /\ ~job.same =>
         /\ go.stopped
         /\ \/ src.power = "running"
            \/ go.pc = "complete" /\ go.degraded
            \/ row.status = "completed" /\ row.down

\* The configuration is set aside in one step, and only for the same VMID.
ConfInv ==
  /\ SourceConfigNeverLost
  /\ ~job.same => src.conf
  /\ go.pc \in BeforeRestore \ {"leftover", "restore"} => src.conf

\* What the operator has to be told is remembered until the row is written.
ToldInv ==
  Live =>
    /\ go.pc \notin {"aborting", "resuming"}
    /\ go.pc \in {"failing", "restartforced"} /\ ~src.conf => go.rbFailed
    /\ go.pc \in {"restarting", "gone"} /\ row.status = "failed" /\ ~src.conf => row.rollback
    /\ go.pc = "gone" /\ row.status = "failed" /\ go.stopped /\ src.power = "suspended" => row.down

\* Neither a cancel, nor a timeout, nor a lost reply so far.
Calm == Live /\ faults = 0

\* In calm the drives are detached only around vzdump.
MediaInv ==
  Calm =>
    /\ go.pc \in Preparing \cup {"detach", "vzdump"} => task.dump = "none"
    /\ go.pc \in BackingUp \ {"detach"} => go.detached
    /\ task.dump # "none" => src.media \/ go.pc \in BackingUp \cup {"dead"}

\* In calm the source VM is down only where the goroutine knows it, with the text of its
\* configuration saved, and every way out of there starts it again.
CalmInv ==
  Calm =>
    /\ go.pc # "forcestop"
    /\ job.same /\ go.pc \in {"unregister", "leftover", "restore", "pollrestore", "rollback"} =>
         go.saved
    /\ go.pc \in {"failing", "restartforced", "restarting"} => src.conf
    /\ ~go.stopped =>
         \/ go.pc = "dead"
         \/ go.pc \in {"waitdown", "waitstop"} /\ (task.down # "ok" => src.power = "running")
         \/ src.power = "running" /\ task.down \in {"none", "failed"}
    /\ go.pc = "rollback" /\ job.same => go.stopped
    /\ job.mode = "snapshot" /\ go.stopped =>
         /\ go.forced
         /\ go.pc \notin Preparing \cup BackingUp \cup Transferring
         /\ go.pc = "failing" => src.power = "running"
    /\ go.pc = "gone" /\ row.status = "failed" => src.conf /\ src.power = "running"

IInv == /\ RestoreInv /\ ArchiveInv
        /\ StageInv /\ PowerInv /\ CompletedInv
        /\ ConfInv /\ ToldInv
        /\ MediaInv /\ CalmInv

USE DEF At, Goto, Live, Fault, NoFault

-----------------------------------------------------------------------------
(* Type correctness.                                                        *)

\* Every state has its type, by part: the record that an action assigns stays in its set.
LEMMA TypeInit == Init => TypeOK
BY MaxFaultsAssumption
   DEF Init, TypeOK, Jobs, Modes, Locals, Steps, Rows, Sources, Targets, Tasks, TaskStates

\* The configuration after a rollback, and what the goroutine makes of it.
LEMMA RollbackEffect ==
  ASSUME TypeOK, RollbackSourceConfig
  PROVE  \E ok, ran, done \in BOOLEAN :
           /\ SshReply(ok, ran)
           /\ done <=> ok /\ (go.saved \/ src.backup)
           /\ src' \in Sources
           /\ src'.conf <=> src.conf \/ (ran /\ (go.saved \/ src.backup))
           /\ ~src'.conf => src'.backup = src.backup
           /\ src'.power = src.power /\ src'.media = src.media
           /\ go' = [go EXCEPT !.rbFailed = ~done,
                               !.pc = IF go.forced /\ done THEN "restartforced" ELSE "failing"]
<1>1. PICK ok \in BOOLEAN, ran \in BOOLEAN :
       /\ SshReply(ok, ran)
       /\ LET moved == ran /\ src.backup
              done == ok /\ (go.saved \/ src.backup)
          IN  /\ src' \in
                   IF go.saved
                   THEN {[src EXCEPT !.conf = @ \/ ran, !.backup = b] :
                           b \in IF ok THEN {FALSE, src.backup} ELSE {src.backup}}
                   ELSE {[src EXCEPT !.conf = @ \/ moved, !.backup = @ /\ ~moved]}
              /\ go' = [go EXCEPT !.rbFailed = ~done,
                                  !.pc = IF go.forced /\ done THEN "restartforced"
                                                              ELSE "failing"]
  BY DEF RollbackSourceConfig
<1> DEFINE done == ok /\ (go.saved \/ src.backup)
<1>2. /\ src \in Sources /\ go.saved \in BOOLEAN
      /\ src.conf \in BOOLEAN /\ src.backup \in BOOLEAN /\ done \in BOOLEAN
  BY DEF TypeOK, Sources, Locals
<1>3. ok => ran
  BY <1>1 DEF SshReply, ApiReply
<1>4. /\ src' \in Sources
      /\ src'.conf <=> src.conf \/ (ran /\ (go.saved \/ src.backup))
      /\ ~src'.conf => src'.backup = src.backup
      /\ src'.power = src.power /\ src'.media = src.media
  <2>1. CASE go.saved
    <3>1. PICK b \in BOOLEAN :
             src' = [src EXCEPT !.conf = @ \/ ran, !.backup = b] /\ (~ok => b = src.backup)
      BY <1>1, <1>2, <2>1
    <3> QED
      BY <1>2, <1>3, <2>1, <3>1 DEF Sources
  <2>2. CASE ~go.saved
    <3>1. src' = [src EXCEPT !.conf = @ \/ (ran /\ src.backup),
                             !.backup = @ /\ ~(ran /\ src.backup)]
      BY <1>1, <2>2
    <3> QED
      BY <1>2, <2>2, <3>1 DEF Sources
  <2> QED
    BY <2>1, <2>2
<1>5. go' = [go EXCEPT !.rbFailed = ~done,
                       !.pc = IF go.forced /\ done THEN "restartforced" ELSE "failing"]
  BY <1>1
<1> HIDE DEF done
<1>6. done <=> ok /\ (go.saved \/ src.backup)
  BY DEF done
<1> QED
  BY <1>1, <1>2, <1>4, <1>5, <1>6

LEMMA RollbackTypes ==
  ASSUME TypeOK, RollbackSourceConfig PROVE TypeOK'
<1>1. PICK ok \in BOOLEAN, ran \in BOOLEAN, done \in BOOLEAN :
           /\ SshReply(ok, ran)
           /\ src' \in Sources
           /\ go' = [go EXCEPT !.rbFailed = ~done,
                               !.pc = IF go.forced /\ done THEN "restartforced" ELSE "failing"]
  BY RollbackEffect
<1>2. go' \in Locals
  BY <1>1 DEF TypeOK, Locals, Steps
<1>3. faults' \in 0 .. MaxFaults
  <2>1. faults \in 0 .. MaxFaults
    BY DEF TypeOK
  <2> QED
    BY <1>1, <2>1, MaxFaultsAssumption DEF SshReply, ApiReply
<1>4. tgt' \in Targets /\ UNCHANGED <<job, ctx, row, task>>
  BY DEF RollbackSourceConfig, TypeOK, Targets
<1> QED
  BY <1>1, <1>2, <1>3, <1>4 DEF TypeOK

LEMMA TypeStep == TypeOK /\ [Next]_vars => TypeOK'
<1> SUFFICES ASSUME TypeOK, [Next]_vars
             PROVE  TypeOK'
  OBVIOUS
<1> USE MaxFaultsAssumption DEF Modes, Steps, TaskStates
<1>1. CASE Preflight
  BY <1>1 DEF Preflight, TypeOK, Locals
<1>2. CASE PowerDown
  BY <1>2 DEF PowerDown, ApiReply, TypeOK, Locals, Tasks
<1>3. CASE WaitDown
  <2>1. go' \in Locals
    <3>1. go \in Locals
      BY DEF TypeOK
    <3>2. PICK stopped \in BOOLEAN, forced \in BOOLEAN, pc \in {"detach", "saveconf"} :
            \/ go' = [go EXCEPT !.stopped = stopped, !.forced = forced, !.pc = pc]
            \/ go' = [go EXCEPT !.pc = "failing"]
      BY <1>3 DEF WaitDown
    <3> QED
      BY <3>1, <3>2 DEF Locals
  <2> QED
    BY <1>3, <2>1 DEF WaitDown, WaitEnds, WaitFails, TypeOK
<1>4. CASE DetachMedia
  <2>1. src' \in Sources
    BY <1>4 DEF DetachMedia, TypeOK, Sources
  <2>2. go' \in Locals
    BY <1>4 DEF DetachMedia, TypeOK, Locals
  <2> QED
    BY <1>4, <2>1, <2>2 DEF DetachMedia, ApiReply, TypeOK
<1>5. CASE StartVzdump
  BY <1>5 DEF StartVzdump, ApiReply, TypeOK, Locals, Tasks
<1>6. CASE PollVzdump
  BY <1>6 DEF PollVzdump, WaitEnds, WaitFails, TypeOK, Locals
<1>7. CASE ReattachMedia
  <2>1. src' \in Sources
    BY <1>7 DEF ReattachMedia, TypeOK, Sources
  <2> QED
    BY <1>7, <2>1 DEF ReattachMedia, ApiReply, TypeOK, Locals
<1>8. CASE StartScp
  <2>1. tgt' \in Targets
    BY <1>8 DEF StartScp, TypeOK, Targets
  <2>2. go' \in Locals
    BY <1>8 DEF StartScp, TypeOK, Locals
  <2> QED
    BY <1>8, <2>1, <2>2 DEF StartScp, ApiReply, SshReply, TypeOK, Tasks
<1>9. CASE AbortScp
  BY <1>9 DEF AbortScp, DetachedReply, TypeOK, Locals, Tasks, Targets
<1>10. CASE PollScp
  BY <1>10 DEF PollScp, TypeOK, Locals, Targets
<1>11. CASE Checksum
  BY <1>11 DEF Checksum, AfterTransfer, TypeOK, Locals, Targets
<1>12. CASE StopSource
  BY <1>12 DEF StopSource, ApiReply, TypeOK, Locals, Tasks
<1>13. CASE SaveConfig
  <2>1. go' \in Locals
    BY <1>13 DEF SaveConfig, TypeOK, Locals
  <2> QED
    BY <1>13, <2>1 DEF SaveConfig, ApiReply, SshReply, TypeOK
<1>14. CASE Unregister
  <2>1. src' \in Sources
    BY <1>14 DEF Unregister, TypeOK, Sources
  <2> QED
    BY <1>14, <2>1 DEF Unregister, ApiReply, SshReply, TypeOK, Locals
<1>15. CASE RemoveLeftover
  <2>1. tgt' \in Targets
    BY <1>15 DEF RemoveLeftover, TypeOK, Targets
  <2> QED
    BY <1>15, <2>1 DEF RemoveLeftover, ApiReply, TypeOK, Locals
<1>16. CASE StartRestore
  BY <1>16 DEF StartRestore, ApiReply, TypeOK, Locals, Tasks, Targets
<1>17. CASE PollRestore
  BY <1>17 DEF PollRestore, WaitEnds, WaitFails, TypeOK, Locals
<1>18. CASE RestartForced
  BY <1>18 DEF RestartForced, ApiReply, SourceUp, TypeOK, Locals, Sources
<1>19. CASE WriteFailure
  <2>1. row' \in Rows
    BY <1>19 DEF WriteFailure, TypeOK, Rows
  <2> QED
    BY <1>19, <2>1 DEF WriteFailure, TypeOK, Locals
<1>20. CASE RestoreSourceVM
  <2>1. src' \in Sources
    BY <1>20 DEF RestoreSourceVM, SourceUp, TypeOK, Sources
  <2>2. row' \in Rows
    BY <1>20 DEF RestoreSourceVM, SourceUp, TypeOK, Rows
  <2> QED
    BY <1>20, <2>1, <2>2 DEF RestoreSourceVM, DetachedReply, TypeOK, Locals
<1>21. CASE DropConfigBackup
  <2>1. src' \in Sources
    BY <1>21 DEF DropConfigBackup, TypeOK, Sources
  <2> QED
    BY <1>21, <2>1 DEF DropConfigBackup, ApiReply, SshReply, TypeOK, Locals
<1>22. CASE CleanUp
  <2>1. src' \in Sources
    BY <1>22 DEF CleanUp, TypeOK, Sources
  <2>2. tgt' \in Targets
    BY <1>22 DEF CleanUp, TypeOK, Targets
  <2> QED
    BY <1>22, <2>1, <2>2 DEF CleanUp, ApiReply, SshReply, TypeOK, Locals
<1>23. CASE ResumeSource
  <2>1. src' \in Sources
    BY <1>23 DEF ResumeSource, SourceUp, TypeOK, Sources
  <2>2. go' \in Locals
    <3>1. \E b \in BOOLEAN : go' = [go EXCEPT !.degraded = b, !.pc = "complete"]
      <4>1. \/ go' = [go EXCEPT !.pc = "complete"]
            \/ \E ok \in BOOLEAN : go' = [go EXCEPT !.degraded = ~ok, !.pc = "complete"]
        BY <1>23, Zenon DEF ResumeSource, Goto
      <4>2. go.degraded \in BOOLEAN /\ go = [go EXCEPT !.degraded = go.degraded]
        BY DEF TypeOK, Locals
      <4>3. CASE go' = [go EXCEPT !.pc = "complete"]
        BY <4>2, <4>3 DEF TypeOK, Locals
      <4>4. CASE \E ok \in BOOLEAN : go' = [go EXCEPT !.degraded = ~ok, !.pc = "complete"]
        BY <4>4
      <4> QED BY <4>1, <4>3, <4>4
    <3>2. go \in Locals
      BY DEF TypeOK
    <3> QED BY <3>1, <3>2 DEF Locals
  <2>3. faults' = faults \/ (faults < MaxFaults /\ faults' = faults + 1)
    BY <1>23 DEF ResumeSource, ApiReply
  <2>4. UNCHANGED <<job, ctx, row, tgt, task>>
    BY <1>23 DEF ResumeSource
  <2> QED
    BY <2>1, <2>2, <2>3, <2>4 DEF TypeOK
<1>24. CASE Complete
  <2>1. row' \in Rows
    BY <1>24 DEF Complete, TypeOK, Rows, Locals
  <2> QED
    BY <1>24, <2>1 DEF Complete, ApiReply, TypeOK, Locals
<1>25. CASE PowerDownEnds
  BY <1>25 DEF PowerDownEnds, TypeOK, Tasks, Sources
<1>26. CASE VzdumpEnds
  <2>1. src' \in Sources
    BY <1>26 DEF VzdumpEnds, TypeOK, Sources
  <2> QED
    BY <1>26, <2>1 DEF VzdumpEnds, TypeOK, Tasks
<1>27. CASE ScpEnds
  BY <1>27 DEF ScpEnds, TypeOK, Tasks, Targets
<1>28. CASE RestoreEnds
  BY <1>28 DEF RestoreEnds, TypeOK, Tasks, Targets
<1>29. CASE ContextEnds
  BY <1>29 DEF ContextEnds, TypeOK
<1>30. CASE Crash
  BY <1>30 DEF Crash, TypeOK, Locals
<1>31. CASE Recover
  BY <1>31 DEF Recover, TypeOK, Rows
<1>32. CASE RollbackSourceConfig
  BY <1>32, RollbackTypes
<1>33. CASE UNCHANGED vars
  BY <1>33 DEF vars, TypeOK
<1> QED
  BY <1>1, <1>2, <1>3, <1>4, <1>5, <1>6, <1>7, <1>8, <1>9, <1>10, <1>11, <1>12, <1>13,
     <1>14, <1>15, <1>16, <1>17, <1>18, <1>19, <1>20, <1>21, <1>22, <1>23, <1>24, <1>25,
     <1>26, <1>27, <1>28, <1>29, <1>30, <1>31, <1>32, <1>33 DEF Next, Goroutine, Nodes

\* Type correctness of the pipeline.
THEOREM TypeCorrect == Spec => []TypeOK
BY TypeInit, TypeStep, PTL DEF Spec

-----------------------------------------------------------------------------
(* The invariant is inductive.                                              *)

USE DEF Jobs, Locals, Rows, Sources, Targets, Tasks,
        Preparing, BackingUp, Transferring, Verified, BeforeRestore, Succeeding

LEMMA InvInit == Init => IInv
BY DEF Init, IInv, RestoreInv, ArchiveInv, StageInv, PowerInv, CompletedInv, ConfInv,
       SourceConfigNeverLost, ToldInv, MediaInv, CalmInv

\* Phase 1.
LEMMA PreparingStep ==
  ASSUME TypeOK, IInv
  PROVE  Preflight \/ PowerDown \/ WaitDown => IInv'
<1> USE DEF IInv, RestoreInv, ArchiveInv, StageInv, PowerInv, CompletedInv, ConfInv,
            SourceConfigNeverLost, ToldInv, MediaInv, CalmInv, Calm
<1>0. /\ job \in Jobs /\ go \in Locals /\ row \in Rows
      /\ src \in Sources /\ tgt \in Targets /\ task \in Tasks /\ faults \in Nat
  BY DEF TypeOK
<1>1. ASSUME Preflight PROVE IInv'
  <2>0. At("preflight") /\ UNCHANGED <<job, ctx, row, src, tgt, task, faults>>
    BY <1>1 DEF Preflight
  <2>1. CASE Goto("failing")
    BY <1>0, <2>0, <2>1
  <2>2. CASE job.mode = "snapshot" /\ Goto("detach")
    BY <1>0, <2>0, <2>2
  <2>3. CASE job.mode # "snapshot" /\ Goto("powerdown")
    BY <1>0, <2>0, <2>3
  <2> QED
    BY <1>1, <2>1, <2>2, <2>3 DEF Preflight
<1>2. ASSUME PowerDown PROVE IInv'
  BY <1>0, <1>2 DEF PowerDown, ApiReply
<1>3. ASSUME WaitDown PROVE IInv'
  <2>0. go.pc \in {"waitdown", "waitstop"} /\ UNCHANGED <<job, ctx, row, src, tgt, task>>
    BY <1>3 DEF WaitDown
  <2>1. CASE /\ At("waitdown") /\ task.down = "ok" /\ NoFault
             /\ go' = [go EXCEPT !.stopped = TRUE, !.forced = FALSE, !.pc = "detach"]
    BY <1>0, <2>0, <2>1 DEF WaitEnds, WaitFails
  <2>2. CASE /\ At("waitstop") /\ task.down = "ok" /\ NoFault
             /\ go' = [go EXCEPT !.stopped = TRUE, !.forced = TRUE, !.pc = "saveconf"]
    BY <1>0, <2>0, <2>2 DEF WaitEnds, WaitFails
  <2>3. CASE WaitFails("down") /\ Goto("failing")
    BY <1>0, <2>0, <2>3 DEF WaitEnds, WaitFails
  <2> QED
    BY <1>3, <2>1, <2>2, <2>3 DEF WaitDown, WaitEnds, WaitFails
<1> QED
  BY <1>1, <1>2, <1>3

\* Phase 2.
LEMMA BackupStep ==
  ASSUME TypeOK, IInv
  PROVE  DetachMedia \/ StartVzdump \/ PollVzdump \/ ReattachMedia => IInv'
<1> USE DEF IInv, RestoreInv, ArchiveInv, StageInv, PowerInv, CompletedInv, ConfInv,
            SourceConfigNeverLost, ToldInv, MediaInv, CalmInv, Calm
<1>0. /\ job \in Jobs /\ go \in Locals /\ row \in Rows
      /\ src \in Sources /\ tgt \in Targets /\ task \in Tasks /\ faults \in Nat
  BY DEF TypeOK
<1>1. ASSUME DetachMedia PROVE IInv'
  BY <1>0, <1>1 DEF DetachMedia, ApiReply
<1>2. ASSUME StartVzdump PROVE IInv'
  <2>0. At("vzdump") /\ UNCHANGED <<job, ctx, row, src, tgt>>
    BY <1>2 DEF StartVzdump
  <2>1. CASE NoFault /\ Goto("failing") /\ UNCHANGED task
    BY <1>0, <2>0, <2>1 DEF ApiReply
  <2>2. CASE \E ok, ran \in BOOLEAN :
             /\ ApiReply(ok, ran)
             /\ task' = IF ran THEN [task EXCEPT !.dump = "running"] ELSE task
             /\ Goto(IF ok THEN "polldump" ELSE "failing")
    BY <1>0, <2>0, <2>2 DEF ApiReply
  <2> QED
    BY <1>2, <2>1, <2>2 DEF StartVzdump, ApiReply
<1>3. ASSUME PollVzdump PROVE IInv'
  <2>0. At("polldump") /\ UNCHANGED <<job, ctx, row, src, tgt, task>>
    BY <1>3 DEF PollVzdump
  <2>1. CASE WaitEnds("dump") /\ Goto("reattach")
    BY <1>0, <2>0, <2>1 DEF WaitEnds, WaitFails
  <2>2. CASE WaitFails("dump") /\ Goto("reattachFailing")
    BY <1>0, <2>0, <2>2 DEF WaitEnds, WaitFails
  <2> QED
    BY <1>3, <2>1, <2>2 DEF PollVzdump, WaitEnds, WaitFails
<1>4. ASSUME ReattachMedia PROVE IInv'
  <2>0. /\ go.pc \in {"reattach", "reattachFailing"}
        /\ Goto(IF At("reattach") THEN "startscp" ELSE "failing")
        /\ UNCHANGED <<job, ctx, row, tgt, task>>
    BY <1>4 DEF ReattachMedia
  <2>1. CASE go.detached /\ \E ok, ran \in BOOLEAN :
             /\ ApiReply(ok, ran)
             /\ src' = IF ran THEN [src EXCEPT !.media = TRUE] ELSE src
    BY <1>0, <2>0, <2>1 DEF ApiReply
  <2>2. CASE ~go.detached /\ UNCHANGED src /\ NoFault
    BY <1>0, <2>0, <2>2 DEF ApiReply
  <2> QED
    BY <1>4, <2>1, <2>2 DEF ReattachMedia, ApiReply
<1> QED
  BY <1>1, <1>2, <1>3, <1>4

\* Phase 3.
LEMMA TransferStep ==
  ASSUME TypeOK, IInv
  PROVE  StartScp \/ AbortScp \/ PollScp \/ Checksum => IInv'
<1> USE DEF IInv, RestoreInv, ArchiveInv, StageInv, PowerInv, CompletedInv, ConfInv,
            SourceConfigNeverLost, ToldInv, MediaInv, CalmInv, Calm
<1>0. /\ job \in Jobs /\ go \in Locals /\ row \in Rows
      /\ src \in Sources /\ tgt \in Targets /\ task \in Tasks /\ faults \in Nat
  BY DEF TypeOK
<1>1. ASSUME StartScp PROVE IInv'
  BY <1>0, <1>1 DEF StartScp, ApiReply, SshReply
<1>2. ASSUME AbortScp PROVE IInv'
  BY <1>0, <1>2 DEF AbortScp, DetachedReply
<1>3. ASSUME PollScp PROVE IInv'
  <2>0. At("pollscp") /\ UNCHANGED <<job, ctx, row, src, task>>
    BY <1>3 DEF PollScp
  <2>1. CASE Fault /\ Goto("failing") /\ UNCHANGED tgt
    BY <1>0, <2>0, <2>1
  <2>2. CASE NoFault /\ Goto("failing") /\ UNCHANGED tgt
    BY <1>0, <2>0, <2>2
  <2>3. CASE NoFault /\ Goto("failing") /\ tgt' = [tgt EXCEPT !.archive = "none"]
    BY <1>0, <2>0, <2>3
  <2>4. CASE task.scp # "running" /\ NoFault /\ Goto("checksum") /\ UNCHANGED tgt
    BY <1>0, <2>0, <2>4
  <2> QED
    BY <1>3, <2>1, <2>2, <2>3, <2>4 DEF PollScp
<1>4. ASSUME Checksum PROVE IInv'
  <2>0. At("checksum") /\ UNCHANGED <<job, ctx, row, src, task>>
    BY <1>4 DEF Checksum
  <2>1. CASE tgt.archive = "good" /\ Goto(AfterTransfer) /\ NoFault /\ UNCHANGED tgt
    BY <1>0, <2>0, <2>1 DEF AfterTransfer
  <2>2. CASE (NoFault \/ Fault) /\ Goto("failing") /\ UNCHANGED tgt
    BY <1>0, <2>0, <2>2 DEF AfterTransfer
  <2>3. CASE (NoFault \/ Fault) /\ Goto("failing") /\ tgt' = [tgt EXCEPT !.archive = "none"]
    BY <1>0, <2>0, <2>3 DEF AfterTransfer
  <2> QED
    BY <1>4, <2>1, <2>2, <2>3 DEF Checksum, AfterTransfer
<1> QED
  BY <1>1, <1>2, <1>3, <1>4

\* Phase 4.
LEMMA RestoreStep ==
  ASSUME TypeOK, IInv
  PROVE  StopSource \/ SaveConfig \/ Unregister \/ RemoveLeftover \/ StartRestore \/
           PollRestore => IInv'
<1> USE DEF IInv, RestoreInv, ArchiveInv, StageInv, PowerInv, CompletedInv, ConfInv,
            SourceConfigNeverLost, ToldInv, MediaInv, CalmInv, Calm
<1>0. /\ job \in Jobs /\ go \in Locals /\ row \in Rows
      /\ src \in Sources /\ tgt \in Targets /\ task \in Tasks /\ faults \in Nat
  BY DEF TypeOK
<1>1. ASSUME StopSource PROVE IInv'
  BY <1>0, <1>1 DEF StopSource, ApiReply
<1>2. ASSUME SaveConfig PROVE IInv'
  BY <1>0, <1>2 DEF SaveConfig, ApiReply, SshReply
<1>3. ASSUME Unregister PROVE IInv'
  BY <1>0, <1>3 DEF Unregister, ApiReply, SshReply
<1>4. ASSUME RemoveLeftover PROVE IInv'
  BY <1>0, <1>4 DEF RemoveLeftover, ApiReply
<1>5. ASSUME StartRestore PROVE IInv'
  BY <1>0, <1>5 DEF StartRestore, ApiReply
<1>6. ASSUME PollRestore PROVE IInv'
  <2>0. At("pollrestore") /\ UNCHANGED <<job, ctx, row, src, tgt, task>>
    BY <1>6 DEF PollRestore
  <2>1. CASE WaitEnds("restore") /\ Goto("dropbackup")
    BY <1>0, <2>0, <2>1 DEF WaitEnds, WaitFails
  <2>2. CASE WaitFails("restore") /\ Goto("rollback")
    BY <1>0, <2>0, <2>2 DEF WaitEnds, WaitFails
  <2> QED
    BY <1>6, <2>1, <2>2 DEF PollRestore, WaitEnds, WaitFails
<1> QED
  BY <1>1, <1>2, <1>3, <1>4, <1>5, <1>6

\* Failure, after the rollback.
LEMMA FailureStep ==
  ASSUME TypeOK, IInv
  PROVE  RestartForced \/ WriteFailure \/ RestoreSourceVM => IInv'
<1> USE DEF IInv, RestoreInv, ArchiveInv, StageInv, PowerInv, CompletedInv, ConfInv,
            SourceConfigNeverLost, ToldInv, MediaInv, CalmInv, Calm
<1>0. /\ job \in Jobs /\ go \in Locals /\ row \in Rows
      /\ src \in Sources /\ tgt \in Targets /\ task \in Tasks /\ faults \in Nat
  BY DEF TypeOK
<1>1. ASSUME RestartForced PROVE IInv'
  BY <1>0, <1>1 DEF RestartForced, ApiReply, SourceUp
<1>2. ASSUME WriteFailure PROVE IInv'
  <2>0. /\ go.pc \in {"failing", "aborting"}
        /\ Goto(IF ~go.stopped \/ job.mode = "snapshot" THEN "gone"
                ELSE IF At("failing") THEN "restarting" ELSE "resuming")
        /\ UNCHANGED <<job, ctx, src, tgt, task>>
    BY <1>2 DEF WriteFailure
  <2>1. CASE /\ NoFault
             /\ row' = [row EXCEPT !.status = IF ctx = "cancelled" THEN "cancelled" ELSE "failed",
                                   !.rollback = Live /\ go.rbFailed]
    BY <1>0, <2>0, <2>1
  <2>2. CASE Fault /\ UNCHANGED row
    BY <1>0, <2>0, <2>2
  <2> QED
    BY <1>2, <2>1, <2>2 DEF WriteFailure
<1>3. ASSUME RestoreSourceVM PROVE IInv'
  BY <1>0, <1>3 DEF RestoreSourceVM, DetachedReply, SourceUp
<1> QED
  BY <1>1, <1>2, <1>3

\* Success.
LEMMA SuccessStep ==
  ASSUME TypeOK, IInv
  PROVE  DropConfigBackup \/ CleanUp \/ ResumeSource \/ Complete => IInv'
<1> USE DEF IInv, RestoreInv, ArchiveInv, StageInv, PowerInv, CompletedInv, ConfInv,
            SourceConfigNeverLost, ToldInv, MediaInv, CalmInv, Calm
<1>0. /\ job \in Jobs /\ go \in Locals /\ row \in Rows
      /\ src \in Sources /\ tgt \in Targets /\ task \in Tasks /\ faults \in Nat
  BY DEF TypeOK
<1>1. ASSUME DropConfigBackup PROVE IInv'
  BY <1>0, <1>1 DEF DropConfigBackup, ApiReply, SshReply
<1>2. ASSUME CleanUp PROVE IInv'
  <2>0. At("cleanup") /\ Goto("resumesource") /\ UNCHANGED <<job, ctx, row, task>>
    BY <1>2 DEF CleanUp
  <2>1. CASE \E ok, ran \in BOOLEAN :
             /\ SshReply(ok, ran)
             /\ src' = IF ran THEN [src EXCEPT !.archive = FALSE] ELSE src
             /\ tgt' = IF ran THEN [tgt EXCEPT !.archive = "none"] ELSE tgt
    BY <1>0, <2>0, <2>1 DEF ApiReply, SshReply
  <2>2. CASE UNCHANGED <<src, tgt>> /\ NoFault
    BY <1>0, <2>0, <2>2 DEF ApiReply, SshReply
  <2> QED
    BY <1>2, <2>1, <2>2 DEF CleanUp, ApiReply, SshReply
<1>3. ASSUME ResumeSource PROVE IInv'
  <2>0. At("resumesource") /\ UNCHANGED <<job, ctx, row, tgt, task>>
    BY <1>3 DEF ResumeSource
  <2>1. CASE job.mode = "suspend" /\ ~job.same /\ \E ok, ran \in BOOLEAN :
             /\ ApiReply(ok, ran)
             /\ src' = SourceUp(ran)
             /\ go' = [go EXCEPT !.degraded = ~ok, !.pc = "complete"]
    BY <1>0, <2>0, <2>1 DEF ApiReply, SourceUp
  <2>2. CASE ~(job.mode = "suspend" /\ ~job.same) /\ Goto("complete") /\ UNCHANGED src /\ NoFault
    BY <1>0, <2>0, <2>2 DEF ApiReply, SourceUp
  <2> QED
    BY <1>3, <2>1, <2>2 DEF ResumeSource, ApiReply, SourceUp
<1>4. ASSUME Complete PROVE IInv'
  BY <1>0, <1>4 DEF Complete, ApiReply
<1> QED
  BY <1>1, <1>2, <1>3, <1>4

\* The tasks on the nodes.
LEMMA NodesStep ==
  ASSUME TypeOK, IInv
  PROVE  PowerDownEnds \/ VzdumpEnds \/ ScpEnds \/ RestoreEnds => IInv'
<1> USE DEF IInv, RestoreInv, ArchiveInv, StageInv, PowerInv, CompletedInv, ConfInv,
            SourceConfigNeverLost, ToldInv, MediaInv, CalmInv, Calm
<1>0. /\ job \in Jobs /\ go \in Locals /\ row \in Rows
      /\ src \in Sources /\ tgt \in Targets /\ task \in Tasks /\ faults \in Nat
  BY DEF TypeOK
<1>1. ASSUME PowerDownEnds PROVE IInv'
  <2>0. task.down = "running" /\ UNCHANGED <<job, go, ctx, row, tgt, faults>>
    BY <1>1 DEF PowerDownEnds
  <2>1. CASE /\ task' = [task EXCEPT !.down = "ok"]
             /\ src' = [src EXCEPT !.power =
                          IF job.mode = "suspend" THEN "suspended" ELSE "stopped"]
    BY <1>0, <2>0, <2>1
  <2>2. CASE task' = [task EXCEPT !.down = "failed"] /\ UNCHANGED src
    BY <1>0, <2>0, <2>2
  <2> QED
    BY <1>1, <2>1, <2>2 DEF PowerDownEnds
<1>2. ASSUME VzdumpEnds PROVE IInv'
  <2>0. task.dump = "running" /\ UNCHANGED <<job, go, ctx, row, tgt, faults>>
    BY <1>2 DEF VzdumpEnds
  <2>1. CASE task' = [task EXCEPT !.dump = "ok"] /\ src' = [src EXCEPT !.archive = TRUE]
    BY <1>0, <2>0, <2>1
  <2>2. CASE task' = [task EXCEPT !.dump = "failed"] /\ UNCHANGED src
    BY <1>0, <2>0, <2>2
  <2> QED
    BY <1>2, <2>1, <2>2 DEF VzdumpEnds
<1>3. ASSUME ScpEnds PROVE IInv'
  BY <1>0, <1>3 DEF ScpEnds
<1>4. ASSUME RestoreEnds PROVE IInv'
  <2>0. task.restore = "running" /\ UNCHANGED <<job, go, ctx, row, src, faults>>
    BY <1>4 DEF RestoreEnds
  <2>1. CASE task' = [task EXCEPT !.restore = "ok"] /\ tgt' = [tgt EXCEPT !.vm = "restored"]
    BY <1>0, <2>0, <2>1
  <2>2. CASE task' = [task EXCEPT !.restore = "failed"] /\ tgt' = [tgt EXCEPT !.vm = "none"]
    BY <1>0, <2>0, <2>2
  <2> QED
    BY <1>4, <2>1, <2>2 DEF RestoreEnds
<1> QED
  BY <1>1, <1>2, <1>3, <1>4

\* Around the goroutine.
LEMMA AroundStep ==
  ASSUME TypeOK, IInv
  PROVE  ContextEnds \/ Crash \/ Recover => IInv'
<1> USE DEF IInv, RestoreInv, ArchiveInv, StageInv, PowerInv, CompletedInv, ConfInv,
            SourceConfigNeverLost, ToldInv, MediaInv, CalmInv, Calm
<1>0. /\ job \in Jobs /\ go \in Locals /\ row \in Rows
      /\ src \in Sources /\ tgt \in Targets /\ task \in Tasks /\ faults \in Nat
  BY DEF TypeOK
<1>1. ASSUME ContextEnds PROVE IInv'
  BY <1>0, <1>1 DEF ContextEnds
<1>2. ASSUME Crash PROVE IInv'
  BY <1>0, <1>2 DEF Crash
<1>3. ASSUME Recover PROVE IInv'
  BY <1>0, <1>3 DEF Recover
<1> QED
  BY <1>1, <1>2, <1>3

\* The rollback: with the text saved or the file set aside, an answer means that the
\* configuration is back.
LEMMA RollbackStep ==
  ASSUME TypeOK, IInv, RollbackSourceConfig
  PROVE  IInv'
<1>1. PICK ok \in BOOLEAN, ran \in BOOLEAN, done \in BOOLEAN :
        /\ SshReply(ok, ran)
        /\ done <=> ok /\ (go.saved \/ src.backup)
        /\ src' \in Sources
        /\ src'.conf <=> src.conf \/ (ran /\ (go.saved \/ src.backup))
        /\ ~src'.conf => src'.backup = src.backup
        /\ src'.power = src.power /\ src'.media = src.media
        /\ go' = [go EXCEPT !.rbFailed = ~done,
                            !.pc = IF go.forced /\ done THEN "restartforced" ELSE "failing"]
  BY RollbackEffect
<1>2. At("rollback") /\ UNCHANGED <<job, ctx, row, task>> /\ tgt'.vm = tgt.vm
  BY DEF RollbackSourceConfig, TypeOK
<1>3. (ok => ran) /\ (Live /\ faults' = 0 /\ faults \in Nat => ok)
  BY <1>1 DEF SshReply, ApiReply
<1>4. /\ go'.rbFailed = ~done
      /\ go'.pc = IF go.forced /\ done THEN "restartforced" ELSE "failing"
      /\ go'.stopped = go.stopped /\ go'.forced = go.forced
      /\ go'.detached = go.detached /\ go'.saved = go.saved
      /\ go.saved \in BOOLEAN /\ go.forced \in BOOLEAN
      /\ src.conf \in BOOLEAN /\ src.backup \in BOOLEAN
      /\ src'.conf \in BOOLEAN /\ src'.backup \in BOOLEAN
  BY <1>1 DEF TypeOK
<1>5. RestoreInv' /\ ArchiveInv' /\ StageInv' /\ PowerInv' /\ CompletedInv'
  BY <1>1, <1>2 DEF TypeOK, IInv, RestoreInv, ArchiveInv, StageInv, PowerInv, CompletedInv
<1>6. ConfInv' /\ ToldInv'
  BY <1>1, <1>2, <1>3, <1>4 DEF TypeOK, IInv, RestoreInv, StageInv, ConfInv,
     SourceConfigNeverLost, ToldInv, SshReply, ApiReply
<1>7. MediaInv' /\ CalmInv'
  BY <1>1, <1>2, <1>3, <1>4 DEF TypeOK, IInv, RestoreInv, StageInv, PowerInv, ConfInv,
     MediaInv, CalmInv, Calm, SshReply, ApiReply
<1> QED
  BY <1>5, <1>6, <1>7 DEF IInv

LEMMA InvStep == TypeOK /\ IInv /\ [Next]_vars => IInv'
<1> SUFFICES ASSUME TypeOK, IInv, [Next]_vars
             PROVE  IInv'
  OBVIOUS
<1>1. CASE UNCHANGED vars
  BY <1>1 DEF vars, IInv, RestoreInv, ArchiveInv, StageInv, PowerInv, CompletedInv, ConfInv,
     SourceConfigNeverLost, ToldInv, MediaInv, CalmInv, Calm
<1>2. CASE Goroutine
  BY <1>2, PreparingStep, BackupStep, TransferStep, RestoreStep, RollbackStep, FailureStep,
     SuccessStep DEF Goroutine
<1>3. CASE Nodes
  BY <1>3, NodesStep DEF Nodes
<1>4. CASE ContextEnds \/ Crash \/ Recover
  BY <1>4, AroundStep
<1> QED
  BY <1>1, <1>2, <1>3, <1>4 DEF Next

\* Everything that the theorems below rest on holds together.
THEOREM Invariant == Spec => []IInv
BY TypeCorrect, InvInit, InvStep, PTL DEF Spec

-----------------------------------------------------------------------------
(* What a migration guarantees.                                             *)

\* However often a migration is cancelled, loses an answer or is killed, the configuration of
\* the VM is registered, set aside, or restored on the target.
THEOREM ConfigSurvives == Spec => []SourceConfigNeverLost
<1>1. IInv => SourceConfigNeverLost
  BY DEF IInv, ConfInv
<1> QED
  BY <1>1, Invariant, PTL

\* A row says "completed" only of a migration that is.
THEOREM CompletedMeansDone == Spec => []CompletedIsTrue
<1>1. TypeOK /\ IInv => CompletedIsTrue
  BY DEF TypeOK, IInv, RestoreInv, CompletedInv, CompletedIsTrue
<1> QED
  BY <1>1, TypeCorrect, Invariant, PTL

\* A migration that fails in calm leaves the source VM as it was.
THEOREM FailureIsClean == Spec => []CleanFailureRestoresSource
<1>1. IInv => CleanFailureRestoresSource
  BY DEF IInv, MediaInv, CalmInv, Calm, CleanFailureRestoresSource
<1> QED
  BY <1>1, Invariant, PTL

\* A failure that leaves the source VM without its configuration or suspended is in the row.
THEOREM FailureIsReported == Spec => []OperatorIsTold
<1>1. IInv => OperatorIsTold
  BY DEF IInv, ToldInv, OperatorIsTold
<1> QED
  BY <1>1, Invariant, PTL

\* Nothing else than StartRestore starts the restore.
LEMMA RestoreStarts ==
  ASSUME TypeOK, [Next]_vars, task.restore = "none", task'.restore = "running"
  PROVE  StartRestore
<1>1. CASE UNCHANGED vars
  BY <1>1 DEF vars
<1>2. CASE PowerDown \/ StartVzdump \/ StartScp \/ AbortScp \/ StopSource
  BY <1>2 DEF PowerDown, StartVzdump, StartScp, AbortScp, StopSource, TypeOK
<1>3. CASE PowerDownEnds \/ VzdumpEnds \/ ScpEnds \/ RestoreEnds
  BY <1>3 DEF PowerDownEnds, VzdumpEnds, ScpEnds, RestoreEnds, TypeOK
<1>4. CASE \/ Preflight \/ WaitDown \/ DetachMedia \/ PollVzdump \/ ReattachMedia
           \/ PollScp \/ Checksum
           \/ SaveConfig \/ Unregister \/ RemoveLeftover \/ PollRestore
  BY <1>4 DEF Preflight, WaitDown, DetachMedia, PollVzdump, ReattachMedia, PollScp, Checksum,
     SaveConfig, Unregister, RemoveLeftover, PollRestore
<1>5. CASE \/ RollbackSourceConfig \/ RestartForced \/ WriteFailure \/ RestoreSourceVM
           \/ DropConfigBackup \/ CleanUp \/ ResumeSource \/ Complete
  BY <1>5 DEF RollbackSourceConfig, RestartForced, WriteFailure, RestoreSourceVM,
     DropConfigBackup, CleanUp, ResumeSource, Complete
<1>6. CASE ContextEnds \/ Crash \/ Recover
  BY <1>6 DEF ContextEnds, Crash, Recover
<1> QED
  BY <1>1, <1>2, <1>3, <1>4, <1>5, <1>6 DEF Next, Goroutine, Nodes

\* A restore starts from a verified archive, and with the same VMID on a stopped source VM.
THEOREM RestoreIsSafe == Spec => RestoreOnlyWhenSafe
<1>1. ASSUME TypeOK, IInv, [Next]_vars, task.restore = "none", task'.restore = "running"
      PROVE  tgt.archive = "good" /\ (job.same => src.power # "running")
  <2>1. At("restore")
    BY <1>1, RestoreStarts DEF StartRestore
  <2> QED
    BY <1>1, <2>1 DEF TypeOK, IInv, ArchiveInv, StageInv, PowerInv
<1> QED
  BY <1>1, TypeCorrect, Invariant, PTL DEF Spec, RestoreOnlyWhenSafe

-----------------------------------------------------------------------------
(* When both VMs may run.  NoSplitBrain does not hold; it takes a cancel, a *)
(* timeout or a lost reply to break it.                                     *)

\* In calm a goroutine whose restore has started stays until the restore is over, and goes
\* back only if it failed: the source VM is not started beside it.
SplitInv ==
  Calm /\ job.same /\ task.restore \in {"running", "ok"} =>
    /\ src.power # "running"
    /\ go.pc \in {"pollrestore", "gone", "dead"} \cup Succeeding

LEMMA SplitStep == TypeOK /\ IInv /\ SplitInv /\ [Next]_vars => SplitInv'
<1> SUFFICES ASSUME TypeOK, IInv, SplitInv, [Next]_vars,
                    Calm', job'.same, task'.restore \in {"running", "ok"}
             PROVE  /\ src'.power # "running"
                    /\ go'.pc \in {"pollrestore", "gone", "dead"} \cup Succeeding
  BY DEF SplitInv
<1>0. /\ job \in Jobs /\ go \in Locals /\ src \in Sources /\ tgt \in Targets /\ task \in Tasks
      /\ faults \in Nat /\ ctx' = "live" /\ faults' = 0
  BY DEF TypeOK, Calm
<1>a. go.pc \in BeforeRestore => task.restore = "none"
  BY DEF IInv, RestoreInv
<1>b. Calm /\ job.same /\ task.restore \in {"running", "ok"} =>
        /\ src.power # "running"
        /\ go.pc \in {"pollrestore", "gone", "dead"} \cup Succeeding
  BY DEF SplitInv
<1>c. go.pc \in BeforeRestore /\ task'.restore = task.restore => FALSE
  BY <1>a
<1>1. CASE Preflight \/ PowerDown \/ WaitDown \/ DetachMedia \/ StartVzdump \/ PollVzdump
  <2>1. go.pc \in BeforeRestore
    <3>1. go.pc \in {"preflight", "powerdown", "forcestop", "waitdown", "waitstop", "detach",
                     "vzdump", "polldump"}
      BY <1>1 DEF Preflight, PowerDown, WaitDown, DetachMedia, StartVzdump, PollVzdump
    <3> QED
      BY <3>1 DEF BeforeRestore, Preparing, BackingUp, Transferring, Verified
  <2>2. task'.restore = task.restore
    <3>1. \/ task' = task
          \/ task' = [task EXCEPT !.down = "running"]
          \/ task' = [task EXCEPT !.dump = "running"]
      BY <1>1 DEF Preflight, PowerDown, WaitDown, DetachMedia, StartVzdump, PollVzdump
    <3> QED
      BY <1>0, <3>1 DEF Tasks
  <2> QED
    BY <1>c, <2>1, <2>2
<1>2. CASE ReattachMedia \/ StartScp \/ AbortScp \/ PollScp \/ Checksum
  <2>1. go.pc \in BeforeRestore
    <3>1. go.pc \in {"reattach", "reattachFailing", "startscp", "pollscp", "checksum"}
      BY <1>2 DEF ReattachMedia, StartScp, AbortScp, PollScp, Checksum
    <3> QED
      BY <3>1 DEF BeforeRestore, Preparing, BackingUp, Transferring, Verified
  <2>2. task'.restore = task.restore
    <3>1. \/ task' = task
          \/ task' = [task EXCEPT !.scp = "running"]
          \/ task' = [task EXCEPT !.scp = "failed"]
      BY <1>2 DEF ReattachMedia, StartScp, AbortScp, PollScp, Checksum
    <3> QED
      BY <1>0, <3>1 DEF Tasks
  <2> QED
    BY <1>c, <2>1, <2>2
<1>3. CASE StopSource \/ SaveConfig \/ Unregister \/ RemoveLeftover
  <2>1. go.pc \in BeforeRestore
    <3>1. go.pc \in {"stopsource", "saveconf", "unregister", "leftover"}
      BY <1>3 DEF StopSource, SaveConfig, Unregister, RemoveLeftover
    <3> QED
      BY <3>1 DEF BeforeRestore, Preparing, BackingUp, Transferring, Verified
  <2>2. task'.restore = task.restore
    <3>1. task' = task \/ task' = [task EXCEPT !.down = "running"]
      BY <1>3 DEF StopSource, SaveConfig, Unregister, RemoveLeftover
    <3> QED
      BY <1>0, <3>1 DEF Tasks
  <2> QED
    BY <1>c, <2>1, <2>2
<1>4. CASE StartRestore
  <2>1. At("restore") /\ job' = job /\ src' = src /\ ctx' = ctx
    BY <1>4 DEF StartRestore
  <2>2. src.power # "running"
    BY <1>0, <2>1 DEF IInv, StageInv, PowerInv
  <2>3. go'.pc = "pollrestore"
    BY <1>0, <1>4, <2>1 DEF StartRestore, ApiReply
  <2> QED
    BY <2>1, <2>2, <2>3
<1>5. CASE PollRestore
  <2>1. At("pollrestore") /\ UNCHANGED <<job, ctx, row, src, tgt, task>> /\ Calm
    BY <1>0, <1>5 DEF PollRestore, WaitEnds, WaitFails, Calm
  <2>2. go'.pc = "dropbackup"
    BY <1>0, <1>5, <2>1 DEF PollRestore, WaitEnds, WaitFails
  <2> QED
    BY <1>b, <2>1, <2>2
<1>6. CASE RollbackSourceConfig \/ RestartForced \/ WriteFailure \/ RestoreSourceVM
  <2>1. /\ go.pc \in {"rollback", "restartforced", "failing", "aborting", "restarting", "resuming"}
        /\ UNCHANGED <<job, ctx, task>> /\ faults = 0
    <3>1. CASE RollbackSourceConfig
      <4>1. At("rollback") /\ UNCHANGED <<job, ctx, row, task>>
        BY <3>1 DEF RollbackSourceConfig
      <4>2. PICK ok \in BOOLEAN, ran \in BOOLEAN : SshReply(ok, ran)
        BY <3>1, RollbackEffect
      <4>3. faults = 0
        BY <1>0, <4>2 DEF SshReply, ApiReply, Fault, NoFault
      <4> QED
        BY <4>1, <4>3 DEF At
    <3>2. CASE RestartForced
      BY <1>0, <3>2 DEF RestartForced, ApiReply
    <3>3. CASE WriteFailure
      BY <1>0, <3>3 DEF WriteFailure
    <3>4. CASE RestoreSourceVM
      BY <1>0, <3>4 DEF RestoreSourceVM, DetachedReply
    <3> QED
      BY <1>6, <3>1, <3>2, <3>3, <3>4
  <2> QED
    BY <1>0, <1>b, <2>1 DEF Calm
<1>7. CASE DropConfigBackup \/ CleanUp \/ Complete
  <2>1. /\ UNCHANGED <<job, ctx, task>> /\ faults = 0 /\ src'.power = src.power
        /\ go'.pc \in {"cleanup", "resumesource", "gone"}
    <3>1. CASE DropConfigBackup
      BY <1>0, <3>1 DEF DropConfigBackup, ApiReply, SshReply
    <3>2. CASE CleanUp
      BY <1>0, <3>2 DEF CleanUp, ApiReply, SshReply
    <3>3. CASE Complete
      BY <1>0, <3>3 DEF Complete, ApiReply
    <3> QED
      BY <1>7, <3>1, <3>2, <3>3
  <2> QED
    BY <1>0, <1>b, <2>1 DEF Calm
<1>8. CASE ResumeSource
  <2>1. UNCHANGED <<job, ctx, task>> /\ faults = 0 /\ src' = src /\ go'.pc = "complete"
    BY <1>0, <1>8 DEF ResumeSource, ApiReply
  <2> QED
    BY <1>0, <1>b, <2>1 DEF Calm
<1>9. CASE PowerDownEnds \/ VzdumpEnds \/ ScpEnds \/ RestoreEnds
  <2>1. /\ UNCHANGED <<job, go, ctx, faults>> /\ src'.power \in {src.power, "suspended", "stopped"}
        /\ task.restore \in {"running", "ok"}
    BY <1>0, <1>9 DEF PowerDownEnds, VzdumpEnds, ScpEnds, RestoreEnds
  <2> QED
    BY <1>0, <1>b, <2>1 DEF Calm
<1>10. CASE Crash \/ Recover
  BY <1>0, <1>b, <1>10 DEF Crash, Recover, Calm
<1>11. CASE ContextEnds
  BY <1>0, <1>11 DEF ContextEnds
<1>12. CASE UNCHANGED vars
  BY <1>0, <1>b, <1>12 DEF vars, Calm
<1> QED
  BY <1>1, <1>2, <1>3, <1>4, <1>5, <1>6, <1>7, <1>8, <1>9, <1>10, <1>11, <1>12
     DEF Next, Goroutine, Nodes

\* The source VM and a restored VM of the same VMID run side by side only after a cancel, a
\* timeout or a lost reply.
THEOREM SplitBrainNeedsMishap == Spec => [](Calm => NoSplitBrain)
<1>1. Init => SplitInv
  BY DEF Init, SplitInv
<1>2. TypeOK /\ IInv /\ SplitInv => (Calm => NoSplitBrain)
  BY DEF IInv, RestoreInv, SplitInv, NoSplitBrain
<1> QED
  BY <1>1, <1>2, SplitStep, TypeCorrect, Invariant, PTL DEF Spec

-----------------------------------------------------------------------------
(* Why every migration comes to an end: each step of its goroutine is one   *)
(* of at most 24, whatever fails, and none goes back.                       *)

StepsLeft ==
  [preflight |-> 24, powerdown |-> 23, forcestop |-> 22, waitdown |-> 21, detach |-> 20,
   vzdump |-> 19, polldump |-> 18, reattach |-> 17, reattachFailing |-> 17, startscp |-> 16,
   pollscp |-> 15, checksum |-> 14, stopsource |-> 13, waitstop |-> 12, saveconf |-> 11,
   unregister |-> 10, leftover |-> 9, restore |-> 8, pollrestore |-> 7,
   rollback |-> 6, restartforced |-> 5, failing |-> 4, aborting |-> 4, restarting |-> 2,
   resuming |-> 2, dropbackup |-> 6, cleanup |-> 5, resumesource |-> 4, complete |-> 3,
   gone |-> 0, dead |-> 0]

\* The goroutine moves on with every step of its own, and nothing else moves it back.
OnlyForward == Goroutine \/ go'.pc # go.pc => StepsLeft[go'.pc] < StepsLeft[go.pc]

LEMMA GoroutineMovesOn ==
  ASSUME TypeOK, Goroutine
  PROVE  StepsLeft[go'.pc] < StepsLeft[go.pc]
<1>0. go \in Locals
  BY DEF TypeOK
<1>1. CASE Preflight
  <2>1. go.pc = "preflight" /\ go'.pc \in {"detach", "powerdown", "failing"}
    BY <1>0, <1>1 DEF Preflight
  <2> QED
    BY <2>1 DEF StepsLeft
<1>2. CASE PowerDown
  <2>1. \/ go.pc = "powerdown" /\ go'.pc \in {"waitdown", "forcestop", "failing"}
        \/ go.pc = "forcestop" /\ go'.pc \in {"waitdown", "failing"}
    BY <1>0, <1>2 DEF PowerDown
  <2> QED
    BY <2>1 DEF StepsLeft
<1>3. CASE WaitDown
  <2>1. \/ go.pc = "waitdown" /\ go'.pc \in {"detach", "failing"}
        \/ go.pc = "waitstop" /\ go'.pc \in {"saveconf", "failing"}
    BY <1>0, <1>3 DEF WaitDown
  <2> QED
    BY <2>1 DEF StepsLeft
<1>4. CASE DetachMedia
  <2>1. go.pc = "detach" /\ go'.pc = "vzdump"
    BY <1>0, <1>4 DEF DetachMedia
  <2> QED
    BY <2>1 DEF StepsLeft
<1>5. CASE StartVzdump
  <2>1. go.pc = "vzdump" /\ go'.pc \in {"polldump", "failing"}
    BY <1>0, <1>5 DEF StartVzdump
  <2> QED
    BY <2>1 DEF StepsLeft
<1>6. CASE PollVzdump
  <2>1. go.pc = "polldump" /\ go'.pc \in {"reattach", "reattachFailing"}
    BY <1>0, <1>6 DEF PollVzdump
  <2> QED
    BY <2>1 DEF StepsLeft
<1>7. CASE ReattachMedia
  <2>1. go.pc \in {"reattach", "reattachFailing"} /\ go'.pc \in {"startscp", "failing"}
    BY <1>0, <1>7 DEF ReattachMedia
  <2> QED
    BY <2>1 DEF StepsLeft
<1>8. CASE StartScp
  <2>1. go.pc = "startscp" /\ go'.pc \in {"pollscp", "failing"}
    BY <1>0, <1>8 DEF StartScp
  <2> QED
    BY <2>1 DEF StepsLeft
<1>9. CASE AbortScp
  <2>1. go.pc = "pollscp" /\ go'.pc = "aborting"
    BY <1>0, <1>9 DEF AbortScp
  <2> QED
    BY <2>1 DEF StepsLeft
<1>10. CASE PollScp
  <2>1. go.pc = "pollscp" /\ go'.pc \in {"checksum", "failing"}
    BY <1>0, <1>10 DEF PollScp
  <2> QED
    BY <2>1 DEF StepsLeft
<1>11. CASE Checksum
  <2>1. go.pc = "checksum" /\ go'.pc \in {"leftover", "saveconf", "stopsource", "failing"}
    BY <1>0, <1>11 DEF Checksum, AfterTransfer
  <2> QED
    BY <2>1 DEF StepsLeft
<1>12. CASE StopSource
  <2>1. go.pc = "stopsource" /\ go'.pc \in {"waitstop", "failing"}
    BY <1>0, <1>12 DEF StopSource
  <2> QED
    BY <2>1 DEF StepsLeft
<1>13. CASE SaveConfig
  <2>1. go.pc = "saveconf" /\ go'.pc = "unregister"
    BY <1>0, <1>13 DEF SaveConfig
  <2> QED
    BY <2>1 DEF StepsLeft
<1>14. CASE Unregister
  <2>1. go.pc = "unregister" /\ go'.pc = "leftover"
    BY <1>0, <1>14 DEF Unregister
  <2> QED
    BY <2>1 DEF StepsLeft
<1>15. CASE RemoveLeftover
  <2>1. go.pc = "leftover" /\ go'.pc = "restore"
    BY <1>0, <1>15 DEF RemoveLeftover
  <2> QED
    BY <2>1 DEF StepsLeft
<1>16. CASE StartRestore
  <2>1. go.pc = "restore" /\ go'.pc \in {"pollrestore", "rollback"}
    BY <1>0, <1>16 DEF StartRestore
  <2> QED
    BY <2>1 DEF StepsLeft
<1>17. CASE PollRestore
  <2>1. go.pc = "pollrestore" /\ go'.pc \in {"dropbackup", "rollback"}
    BY <1>0, <1>17 DEF PollRestore
  <2> QED
    BY <2>1 DEF StepsLeft
<1>18. CASE RollbackSourceConfig
  <2>1. go.pc = "rollback" /\ go'.pc \in {"restartforced", "failing"}
    BY <1>0, <1>18 DEF RollbackSourceConfig
  <2> QED
    BY <2>1 DEF StepsLeft
<1>19. CASE RestartForced
  <2>1. go.pc = "restartforced" /\ go'.pc = "failing"
    BY <1>0, <1>19 DEF RestartForced
  <2> QED
    BY <2>1 DEF StepsLeft
<1>20. CASE WriteFailure
  <2>1. go.pc \in {"failing", "aborting"} /\ go'.pc \in {"gone", "restarting", "resuming"}
    BY <1>0, <1>20 DEF WriteFailure
  <2> QED
    BY <2>1 DEF StepsLeft
<1>21. CASE RestoreSourceVM
  <2>1. go.pc \in {"restarting", "resuming"} /\ go'.pc = "gone"
    BY <1>0, <1>21 DEF RestoreSourceVM
  <2> QED
    BY <2>1 DEF StepsLeft
<1>22. CASE DropConfigBackup
  <2>1. go.pc = "dropbackup" /\ go'.pc = "cleanup"
    BY <1>0, <1>22 DEF DropConfigBackup
  <2> QED
    BY <2>1 DEF StepsLeft
<1>23. CASE CleanUp
  <2>1. go.pc = "cleanup" /\ go'.pc = "resumesource"
    BY <1>0, <1>23 DEF CleanUp
  <2> QED
    BY <2>1 DEF StepsLeft
<1>24. CASE ResumeSource
  <2>1. go.pc = "resumesource" /\ go'.pc = "complete"
    BY <1>0, <1>24 DEF ResumeSource
  <2> QED
    BY <2>1 DEF StepsLeft
<1>25. CASE Complete
  <2>1. go.pc = "complete" /\ go'.pc = "gone"
    BY <1>0, <1>25 DEF Complete
  <2> QED
    BY <2>1 DEF StepsLeft
<1> QED
  BY <1>1, <1>2, <1>3, <1>4, <1>5, <1>6, <1>7, <1>8, <1>9, <1>10, <1>11, <1>12, <1>13,
     <1>14, <1>15, <1>16, <1>17, <1>18, <1>19, <1>20, <1>21, <1>22, <1>23, <1>24, <1>25 DEF Goroutine

\* A migration takes at most 24 steps of its goroutine, through every phase, failure and
\* rollback: it can only fail to end by a wait that does not.
THEOREM EveryStepIsProgress == Spec => [][OnlyForward]_vars
<1>1. ASSUME TypeOK, Next PROVE OnlyForward
  <2>1. CASE Goroutine
    BY <1>1, <2>1, GoroutineMovesOn DEF OnlyForward
  <2>2. CASE Nodes \/ ContextEnds \/ Recover
    <3>1. go' = go
      BY <2>2 DEF Nodes, PowerDownEnds, VzdumpEnds, ScpEnds, RestoreEnds, ContextEnds, Recover
    <3> QED
      BY <1>1, <3>1, GoroutineMovesOn DEF OnlyForward
  <2>3. CASE Crash
    <3>1. go'.pc = "dead" /\ go.pc \in Steps \ {"gone", "dead"}
      BY <1>1, <2>3 DEF Crash, TypeOK
    <3>2. StepsLeft[go'.pc] < StepsLeft[go.pc]
      BY <3>1 DEF StepsLeft, Steps
    <3> QED
      BY <3>2 DEF OnlyForward
  <2> QED
    BY <1>1, <2>1, <2>2, <2>3 DEF Next
<1>2. TypeOK /\ [Next]_vars => [OnlyForward]_vars
  BY <1>1
<1> QED
  BY <1>2, TypeCorrect, PTL DEF Spec
=============================================================================
