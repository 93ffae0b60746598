----------------------- MODULE MigrationServiceProofs -----------------------
(***************************************************************************)
(* Proofs about MigrationService, for any sets of calls and VMIDs and with *)
(* or without database errors.                                             *)
(***************************************************************************)
EXTENDS MigrationService, TLAPS

-----------------------------------------------------------------------------
(* The statuses and their order.                                            *)

LEMMA RankType == Rank \in [Statuses -> 0..6]
BY DEF Rank

LEMMA TerminalRank == \A s \in Terminal : s \in Statuses /\ Rank[s] = 6
BY DEF Rank, Statuses, Terminal

LEMMA NonTerminalRank == \A s \in NonTerminal : s \in Statuses /\ Rank[s] < 6
BY DEF Rank, Statuses, NonTerminal

LEMMA RowKinds ==
  /\ NonTerminal \cap Terminal = {}
  /\ "absent" \notin Statuses /\ "deleted" \notin Statuses
  /\ "pending" \in NonTerminal
  /\ "completed" \in Terminal /\ "failed" \in Terminal /\ "cancelled" \in Terminal
BY DEF NonTerminal, Terminal, Statuses

\* The phase after a phase is one further on.
LEMMA NextPhaseRank ==
  ASSUME NEW s \in NonTerminal, s # "cleaning_up"
  PROVE  NextPhase(s) \in NonTerminal /\ Rank[NextPhase(s)] > Rank[s]
<1>1. /\ Rank["pending"] = 0 /\ Rank["preparing"] = 1 /\ Rank["backing_up"] = 2
      /\ Rank["transferring"] = 3 /\ Rank["restoring"] = 4
      /\ Rank["cleaning_up"] = 5
  BY DEF Rank, Statuses, NonTerminal
<1>2. /\ Phases[2] = "preparing" /\ Phases[3] = "backing_up"
      /\ Phases[4] = "transferring" /\ Phases[5] = "restoring"
      /\ Phases[6] = "cleaning_up"
  BY DEF Phases
<1>3. CASE s = "pending"      BY <1>1, <1>2, <1>3 DEF NextPhase, NonTerminal
<1>4. CASE s = "preparing"    BY <1>1, <1>2, <1>4 DEF NextPhase, NonTerminal
<1>5. CASE s = "backing_up"   BY <1>1, <1>2, <1>5 DEF NextPhase, NonTerminal
<1>6. CASE s = "transferring" BY <1>1, <1>2, <1>6 DEF NextPhase, NonTerminal
<1>7. CASE s = "restoring"    BY <1>1, <1>2, <1>7 DEF NextPhase, NonTerminal
<1> QED BY <1>3, <1>4, <1>5, <1>6, <1>7 DEF NonTerminal

-----------------------------------------------------------------------------
(* Type correctness.                                                        *)

LEMMA RowUpdateType ==
  ASSUME record \in [Reqs -> Rows], NEW r \in Reqs, NEW s \in Statuses
  PROVE  /\ UpdateDetached(r, s) => record' \in [Reqs -> Rows]
         /\ UpdateWithCtx(r, s) => record' \in [Reqs -> Rows]
BY DEF UpdateDetached, UpdateWithCtx, RowAfterUpdate, Rows

-----------------------------------------------------------------------------
(* The inductive invariant.  Besides its type it says what a goroutine's    *)
(* stage tells about its lock, its cancel function and its row.             *)

\* While a call or its goroutine is busy, it holds the lock under its own id.
LockInv ==
  \A r \in Reqs :
    /\ stage[r] \in Calling => activeVMs[vm[r]] = <<"placeholder", r>>
    /\ stage[r] \in Running => activeVMs[vm[r]] = <<"migration", r>>

\* A row is not ahead of the goroutine that writes it, and not terminal before
\* the goroutine has chosen the terminal status.
RowInv ==
  \A r \in Reqs :
    /\ stage[r] \in {"idle", "reserved"} => record[r] = "absent"
    /\ stage[r] \in {"idle", "reserved", "created", "loading", "work", "worked"} =>
         status[r] \in NonTerminal
    /\ stage[r] \in {"created", "loading", "work", "worked"} =>
         record[r] \in NonTerminal /\ Rank[record[r]] <= Rank[status[r]]
    /\ stage[r] = "rollback" =>
         status[r] \in Terminal /\ record[r] \in NonTerminal \cup {status[r], "deleted"}

\* Rows about to be deleted are terminal; rows about to be swept are not.
RequestInv ==
  /\ \A r \in deleting : record[r] \in Terminal \cup {"deleted"}
  /\ \A r \in orphans : record[r] \in NonTerminal

\* The sweep and the migrations exclude each other: nothing runs unless the
\* server serves, and nothing is left to sweep once it does.
QuietInv ==
  /\ server # "serving" => \A r \in Reqs : stage[r] \in {"idle", "gone"}
  /\ server # "booting" => orphans = {}

IInv == /\ TypeOK
        /\ LockInv
        /\ LockHasOwner
        /\ RunningIsCancellable
        /\ RowInv
        /\ RequestInv
        /\ QuietInv

LEMMA InvInit == ServiceInit => IInv
<1> SUFFICES ASSUME ServiceInit PROVE IInv
  OBVIOUS
<1> USE DEF ServiceInit, Init
<1>1. TypeOK
  BY MigrationsAssumption DEF TypeOK, Rows, Stages, Statuses, NonTerminal
<1>2. LockInv /\ LockHasOwner /\ RunningIsCancellable
  BY FreeAssumption
     DEF LockInv, LockHasOwner, RunningIsCancellable, Calling, Running, Owners
<1>3. RowInv /\ RequestInv /\ QuietInv
  BY MigrationsAssumption DEF RowInv, RequestInv, QuietInv, NonTerminal
<1> QED BY <1>1, <1>2, <1>3 DEF IInv

LEMMA TypeStep == IInv /\ [ServiceNext]_vars => TypeOK'
<1> SUFFICES ASSUME IInv, [ServiceNext]_vars PROVE TypeOK'
  OBVIOUS
<1> USE DEF IInv, TypeOK, local, requests, boot, Stages, Calling, Running
<1>1. ASSUME NEW r \in Reqs, Call(r) PROVE TypeOK'
  <2>1. CASE Reject(r) BY <2>1 DEF Reject, ReleasePlaceholder
  <2>2. CASE CreateRecord(r)
    BY <2>2 DEF CreateRecord, Rows, Statuses, NonTerminal
  <2>3. CASE CreateFails(r)
    BY <2>3 DEF CreateFails, ReleasePlaceholder, Rows, Statuses, NonTerminal
  <2>4. CASE Register(r) BY <2>4 DEF Register, Owners
  <2> HIDE DEF IInv, TypeOK
  <2> QED BY <1>1, <2>1, <2>2, <2>3, <2>4 DEF Call
<1>2. ASSUME NEW r \in Reqs, Goroutine(r) PROVE TypeOK'
  <2>1. CASE Load(r) BY <2>1 DEF Load
  <2>2. CASE LoadFails(r) BY <2>2 DEF LoadFails
  <2>3. CASE EnterPhase(r)
    <3>1. NextPhase(status[r]) \in Statuses
      BY <2>3, NextPhaseRank, NonTerminalRank DEF EnterPhase, RowInv
    <3> QED BY <2>3, <3>1, RowUpdateType DEF EnterPhase
  <2>4. CASE PhaseSucceeds(r) BY <2>4 DEF PhaseSucceeds
  <2>5. CASE PhaseFails(r)
    BY <2>5, RowUpdateType, RowKinds, TerminalRank DEF PhaseFails
  <2>6. CASE RollBack(r) BY <2>6, RowUpdateType DEF RollBack
  <2>7. CASE Complete(r)
    BY <2>7, RowUpdateType, RowKinds, TerminalRank DEF Complete
  <2>8. CASE Close(r) BY <2>8 DEF Close
  <2> HIDE DEF IInv, TypeOK
  <2> QED BY <1>2, <2>1, <2>2, <2>3, <2>4, <2>5, <2>6, <2>7, <2>8 DEF Goroutine
<1>3. ASSUME NEW r \in Reqs, Users(r) PROVE TypeOK'
  <2>1. CASE Reserve(r) BY <2>1 DEF Reserve, Owners
  <2>2. CASE CancelCheck(r) BY <2>2 DEF CancelCheck
  <2>3. CASE CancelCommit(r) BY <2>3 DEF CancelCommit
  <2>4. CASE DeleteCheck(r) BY <2>4 DEF DeleteCheck
  <2>5. CASE DeleteCommit(r) BY <2>5 DEF DeleteCommit, Rows
  <2> HIDE DEF IInv, TypeOK
  <2> QED BY <1>3, <2>1, <2>2, <2>3, <2>4, <2>5 DEF Users
<1>4. ASSUME NEW r \in Reqs, Expire(r) PROVE TypeOK'
  BY <1>4 DEF Expire
<1>5. ASSUME Process PROVE TypeOK'
  <2>1. CASE Crash BY <2>1 DEF Crash
  <2>2. CASE Boot BY <2>2 DEF Boot
  <2>3. ASSUME NEW r \in Reqs, RecoverRecord(r) PROVE TypeOK'
    BY <2>3, RowUpdateType, RowKinds, TerminalRank DEF RecoverRecord
  <2>4. CASE Serve BY <2>4 DEF Serve
  <2> HIDE DEF IInv, TypeOK
  <2> QED BY <1>5, <2>1, <2>2, <2>3, <2>4 DEF Process
<1>6. CASE UNCHANGED vars BY <1>6 DEF vars
<1> HIDE DEF IInv, TypeOK
<1> QED BY <1>1, <1>2, <1>3, <1>4, <1>5, <1>6 DEF ServiceNext

\* The goroutine keeps its lock and its cancel function until Close, whatever
\* it does to the row.
LEMMA GoroutineMoves ==
  ASSUME NEW r \in Reqs, Goroutine(r), ~Close(r), TypeOK
  PROVE  \E s \in Running : /\ stage[r] \in Running
                            /\ stage' = [stage EXCEPT ![r] = s]
                            /\ UNCHANGED <<vm, activeVMs, cancels, server, orphans>>
<1> USE DEF TypeOK, boot, Running
<1>1. CASE Load(r) BY <1>1 DEF Load
<1>2. CASE LoadFails(r) BY <1>2 DEF LoadFails
<1>3. CASE EnterPhase(r) BY <1>3 DEF EnterPhase
<1>4. CASE PhaseSucceeds(r) BY <1>4 DEF PhaseSucceeds
<1>5. CASE PhaseFails(r) BY <1>5 DEF PhaseFails
<1>6. CASE RollBack(r) BY <1>6 DEF RollBack
<1>7. CASE Complete(r) BY <1>7 DEF Complete
<1> QED BY <1>1, <1>2, <1>3, <1>4, <1>5, <1>6, <1>7 DEF Goroutine

\* One owner per lock, so one busy migration per VM.
LEMMA OneOwner == TypeOK /\ LockInv => NoParallelMigration
<1> SUFFICES ASSUME TypeOK, LockInv, NEW r1 \in Reqs, NEW r2 \in Reqs,
                    Busy(r1), Busy(r2), vm[r1] = vm[r2]
             PROVE  r1 = r2
  BY DEF NoParallelMigration
<1>1. \E k1, k2 \in {"placeholder", "migration"} :
        activeVMs[vm[r1]] = <<k1, r1>> /\ activeVMs[vm[r1]] = <<k2, r2>>
  BY DEF LockInv, Busy
<1> QED BY <1>1

Locks == LockInv /\ LockHasOwner /\ RunningIsCancellable /\ QuietInv

\* Most steps change only the row, the context or a pending request.
LEMMA LocksKept ==
  ASSUME Locks, UNCHANGED <<stage, vm, activeVMs, cancels, server, orphans>>
  PROVE  Locks'
BY DEF Locks, LockInv, LockHasOwner, RunningIsCancellable, QuietInv

LEMMA LockStep == IInv /\ [ServiceNext]_vars => Locks'
<1> SUFFICES ASSUME IInv, [ServiceNext]_vars PROVE Locks'
  OBVIOUS
<1> USE DEF IInv, TypeOK, Locks, LockInv, LockHasOwner, RunningIsCancellable,
            QuietInv, local, requests, boot, Stages, Calling, Running
<1>a. Locks OBVIOUS
<1>0. \A k \in {"placeholder", "migration"}, q \in Reqs : <<k, q>> # Free
  BY FreeAssumption DEF Owners
<1>1. ASSUME NEW r \in Reqs, Call(r) PROVE Locks'
  <2>0. CASE Reject(r) \/ CreateFails(r)
    <3>1. /\ stage[r] = "reserved" /\ stage' = [stage EXCEPT ![r] = "gone"]
          /\ UNCHANGED <<vm, cancels, server, orphans>>
      BY <2>0 DEF Reject, CreateFails
    <3>2. activeVMs' = [activeVMs EXCEPT ![vm[r]] = Free]
      BY <2>0, <3>1 DEF Reject, CreateFails, ReleasePlaceholder
    <3>3. \A q \in Reqs : q # r /\ Busy(q) => vm[q] # vm[r]
      BY <3>1, OneOwner DEF NoParallelMigration, Busy
    <3>4. LockInv' BY <3>1, <3>2, <3>3 DEF Busy
    <3>5. LockHasOwner'
      <4> SUFFICES ASSUME NEW v \in VMIDs, NEW q \in Reqs,
                          NEW k \in {"placeholder", "migration"},
                          activeVMs'[v] = <<k, q>>
                   PROVE  /\ vm'[q] = v
                          /\ stage'[q] \in (IF k = "placeholder" THEN Calling ELSE Running)
        OBVIOUS
      <4>1. v # vm[r] /\ activeVMs[v] = <<k, q>>
        <5>0. activeVMs'[vm[r]] = Free /\ <<k, q>> # Free BY <1>0, <3>2
        <5>1. v # vm[r] BY <5>0
        <5>2. activeVMs'[v] = activeVMs[v] BY <3>2, <5>1
        <5> QED BY <5>1, <5>2
      <4>2. vm[q] = v /\ stage[q] \in (IF k = "placeholder" THEN Calling ELSE Running)
        BY <4>1
      <4> QED BY <3>1, <4>1, <4>2
    <3>6. RunningIsCancellable' /\ QuietInv' BY <3>1
    <3> QED BY <3>4, <3>5, <3>6
  <2>2. CASE CreateRecord(r)
    <3>1. /\ stage[r] = "reserved" /\ stage' = [stage EXCEPT ![r] = "created"]
          /\ UNCHANGED <<vm, activeVMs, cancels, server, orphans>>
      BY <2>2 DEF CreateRecord
    <3>2. LockInv' BY <3>1
    <3>3. LockHasOwner' BY <3>1
    <3>4. RunningIsCancellable' /\ QuietInv' BY <3>1
    <3> QED BY <3>2, <3>3, <3>4
  <2>4. CASE Register(r)
    <3>1. /\ stage[r] = "created" /\ stage' = [stage EXCEPT ![r] = "loading"]
          /\ activeVMs' = [activeVMs EXCEPT ![vm[r]] = <<"migration", r>>]
          /\ cancels' = cancels \cup {r}
          /\ UNCHANGED <<vm, server, orphans>>
      BY <2>4 DEF Register
    <3>2. \A q \in Reqs : q # r /\ Busy(q) => vm[q] # vm[r]
      BY <3>1, OneOwner DEF NoParallelMigration, Busy
    <3>3. LockInv' BY <3>1, <3>2 DEF Busy
    <3>4. LockHasOwner' BY <3>1
    <3>5. RunningIsCancellable' /\ QuietInv' BY <3>1
    <3> QED BY <3>3, <3>4, <3>5
  <2> HIDE DEF IInv, Locks
  <2> QED BY <1>1, <2>0, <2>2, <2>4 DEF Call
<1>2. ASSUME NEW r \in Reqs, Goroutine(r) PROVE Locks'
  <2>1. CASE Close(r)
    <3>1. /\ stage[r] = "closing" /\ stage' = [stage EXCEPT ![r] = "gone"]
          /\ activeVMs' = [activeVMs EXCEPT ![vm[r]] = Free]
          /\ cancels' = cancels \ {r}
          /\ UNCHANGED <<vm, server, orphans>>
      BY <2>1 DEF Close
    <3>2. \A q \in Reqs : q # r /\ Busy(q) => vm[q] # vm[r]
      BY <3>1, OneOwner DEF NoParallelMigration, Busy
    <3>3. LockInv' BY <3>1, <3>2 DEF Busy
    <3>4. LockHasOwner'
      <4> SUFFICES ASSUME NEW v \in VMIDs, NEW q \in Reqs,
                          NEW k \in {"placeholder", "migration"},
                          activeVMs'[v] = <<k, q>>
                   PROVE  /\ vm'[q] = v
                          /\ stage'[q] \in (IF k = "placeholder" THEN Calling ELSE Running)
        OBVIOUS
      <4>1. v # vm[r] /\ activeVMs[v] = <<k, q>>
        <5>0. activeVMs'[vm[r]] = Free /\ <<k, q>> # Free BY <1>0, <3>1
        <5>1. v # vm[r] BY <5>0
        <5>2. activeVMs'[v] = activeVMs[v] BY <3>1, <5>1
        <5> QED BY <5>1, <5>2
      <4>2. vm[q] = v /\ stage[q] \in (IF k = "placeholder" THEN Calling ELSE Running)
        BY <4>1
      <4> QED BY <3>1, <4>1, <4>2
    <3>5. RunningIsCancellable' /\ QuietInv' BY <3>1
    <3> QED BY <3>3, <3>4, <3>5
  <2>2. CASE ~Close(r)
    <3>1. PICK s \in Running : /\ stage[r] \in Running
                               /\ stage' = [stage EXCEPT ![r] = s]
                               /\ UNCHANGED <<vm, activeVMs, cancels, server, orphans>>
      BY <1>2, <2>2, GoroutineMoves
    <3>2. \A q \in Reqs : /\ stage[q] \in Calling <=> stage'[q] \in Calling
                          /\ stage[q] \in Running <=> stage'[q] \in Running
      BY <3>1
    <3>3. LockInv' /\ LockHasOwner' BY <3>1, <3>2
    <3>4. RunningIsCancellable' BY <3>1, <3>2
    <3>5. QuietInv' BY <3>1
    <3> QED BY <3>3, <3>4, <3>5
  <2> QED BY <2>1, <2>2
<1>3. ASSUME NEW r \in Reqs, Users(r) PROVE Locks'
  <2>1. CASE Reserve(r)
    <3>1. /\ stage[r] = "idle" /\ stage' = [stage EXCEPT ![r] = "reserved"]
          /\ activeVMs[vm[r]] = Free /\ server = "serving"
          /\ activeVMs' = [activeVMs EXCEPT ![vm[r]] = <<"placeholder", r>>]
          /\ UNCHANGED <<vm, cancels, server, orphans>>
      BY <2>1 DEF Reserve
    <3>2. \A q \in Reqs : Busy(q) => vm[q] # vm[r]
      <4> SUFFICES ASSUME NEW q \in Reqs, Busy(q), vm[q] = vm[r] PROVE FALSE
        OBVIOUS
      <4>1. PICK k \in {"placeholder", "migration"} : activeVMs[vm[q]] = <<k, q>>
        BY DEF Busy
      <4> QED BY <1>0, <3>1, <4>1
    <3>3. LockInv' BY <3>1, <3>2 DEF Busy
    <3>4. LockHasOwner'
      <4> SUFFICES ASSUME NEW v \in VMIDs, NEW q \in Reqs,
                          NEW k \in {"placeholder", "migration"},
                          activeVMs'[v] = <<k, q>>
                   PROVE  /\ vm'[q] = v
                          /\ stage'[q] \in (IF k = "placeholder" THEN Calling ELSE Running)
        OBVIOUS
      <4>1. CASE v = vm[r]
        <5>1. <<k, q>> = <<"placeholder", r>> BY <3>1, <4>1
        <5>2. k = "placeholder" /\ q = r BY <5>1
        <5> QED BY <3>1, <4>1, <5>2
      <4>2. CASE v # vm[r]
        <5>1. activeVMs[v] = <<k, q>> BY <3>1, <4>2
        <5>2. vm[q] = v /\ stage[q] \in (IF k = "placeholder" THEN Calling ELSE Running)
          BY <5>1
        <5> QED BY <3>1, <4>2, <5>2
      <4> QED BY <4>1, <4>2
    <3>5. RunningIsCancellable' /\ QuietInv' BY <3>1
    <3> QED BY <3>3, <3>4, <3>5
  <2> HIDE DEF IInv, Locks
  <2>2. CASE CancelCheck(r) BY <1>a, <2>2, LocksKept DEF CancelCheck
  <2>3. CASE CancelCommit(r) BY <1>a, <2>3, LocksKept DEF CancelCommit
  <2>4. CASE DeleteCheck(r) BY <1>a, <2>4, LocksKept DEF DeleteCheck
  <2>5. CASE DeleteCommit(r) BY <1>a, <2>5, LocksKept DEF DeleteCommit
  <2> QED BY <1>3, <2>1, <2>2, <2>3, <2>4, <2>5 DEF Users
<1>4. ASSUME NEW r \in Reqs, Expire(r) PROVE Locks'
  BY <1>a, <1>4, LocksKept DEF Expire
<1>5. ASSUME Process PROVE Locks'
  <2>1. CASE Crash
    <3>1. /\ server' = "down" /\ orphans' = {} /\ cancels' = {}
          /\ \A r \in Reqs : stage'[r] \in {"idle", "gone"}
          /\ \A v \in VMIDs : activeVMs'[v] = Free
      BY <2>1 DEF Crash
    <3>2. LockInv' BY <3>1
    <3>3. LockHasOwner' BY <1>0, <3>1
    <3>4. RunningIsCancellable' /\ QuietInv' BY <3>1
    <3> QED BY <3>2, <3>3, <3>4
  <2>2. CASE Boot BY <2>2 DEF Boot
  <2>3. ASSUME NEW r \in Reqs, RecoverRecord(r) PROVE Locks'
    BY <2>3 DEF RecoverRecord
  <2>4. CASE Serve
    <3>1. /\ server' = "serving" /\ orphans' = {} /\ cancels' = {} /\ stage' = stage
          /\ \A v \in VMIDs : activeVMs'[v] = Free
      BY <2>4 DEF Serve
    <3>2. \A r \in Reqs : stage'[r] \in {"idle", "gone"}
      BY <2>4, <3>1 DEF Serve
    <3>3. LockInv' BY <3>2
    <3>4. LockHasOwner' BY <1>0, <3>1
    <3>5. RunningIsCancellable' /\ QuietInv' BY <3>1, <3>2
    <3> QED BY <3>3, <3>4, <3>5
  <2> HIDE DEF IInv, Locks
  <2> QED BY <1>5, <2>1, <2>2, <2>3, <2>4 DEF Process
<1>6. CASE UNCHANGED vars BY <1>a, <1>6, LocksKept DEF vars
<1> HIDE DEF IInv, Locks
<1> QED BY <1>1, <1>2, <1>3, <1>4, <1>5, <1>6 DEF ServiceNext

-----------------------------------------------------------------------------
(* The rows.                                                                *)

Rowing == RowInv /\ RequestInv

LEMMA RowStep == IInv /\ [ServiceNext]_vars => Rowing'
<1> SUFFICES ASSUME IInv, [ServiceNext]_vars PROVE Rowing'
  OBVIOUS
<1> USE DEF IInv, TypeOK, Rowing, RowInv, RequestInv, local, requests, boot
<1>1. ASSUME NEW r \in Reqs, Call(r) PROVE Rowing'
  <2>1. CASE Reject(r) BY <2>1 DEF Reject
  <2>2. CASE CreateRecord(r)
    <3>1. record[r] = "absent" BY <2>2 DEF CreateRecord
    <3>2. Rank["pending"] = 0 /\ Rank[status[r]] >= 0
      BY <2>2, RankType, NonTerminalRank DEF CreateRecord, Rank, Statuses, NonTerminal
    <3>3. r \notin deleting /\ r \notin orphans
      BY <3>1, RowKinds, NonTerminalRank, TerminalRank
    <3> QED BY <2>2, <3>1, <3>2, <3>3, RowKinds DEF CreateRecord
  <2>3. CASE CreateFails(r)
    <3>1. r \notin deleting /\ r \notin orphans
      BY <2>3, RowKinds, NonTerminalRank, TerminalRank DEF CreateFails
    <3> QED BY <2>3, <3>1 DEF CreateFails
  <2>4. CASE Register(r) BY <2>4 DEF Register
  <2> HIDE DEF IInv, Rowing
  <2> QED BY <1>1, <2>1, <2>2, <2>3, <2>4 DEF Call
<1>2. ASSUME NEW r \in Reqs, Goroutine(r) PROVE Rowing'
  <2>1. CASE Load(r) BY <2>1 DEF Load
  <2>2. CASE LoadFails(r) BY <2>2 DEF LoadFails
  <2>3. CASE EnterPhase(r)
    <3> DEFINE s == NextPhase(status[r])
    <3>1. s \in NonTerminal /\ Rank[s] > Rank[status[r]]
      BY <2>3, NextPhaseRank DEF EnterPhase
    <3>2. record' = record \/ record' = [record EXCEPT ![r] = s]
      BY <2>3 DEF EnterPhase, UpdateWithCtx, UpdateDetached, RowAfterUpdate
    <3>3. /\ Rank[s] \in 0..6 /\ Rank[status[r]] \in 0..6 /\ Rank[record[r]] \in 0..6
      BY <2>3, <3>1, RankType, NonTerminalRank DEF EnterPhase
    <3>4. r \notin deleting
      BY <2>3, RowKinds, NonTerminalRank, TerminalRank DEF EnterPhase
    <3> QED BY <2>3, <3>1, <3>2, <3>3, <3>4 DEF EnterPhase
  <2>4. CASE PhaseSucceeds(r) BY <2>4 DEF PhaseSucceeds
  <2>5. CASE PhaseFails(r)
    <3> DEFINE s == IF ctx[r] = "cancelled" THEN "cancelled" ELSE "failed"
    <3>1. record' = record \/ record' = [record EXCEPT ![r] = s]
      BY <2>5 DEF PhaseFails, UpdateDetached, RowAfterUpdate
    <3>2. s \in Terminal BY RowKinds
    <3>3. r \notin orphans
      BY <2>5 DEF PhaseFails, QuietInv
    <3> QED BY <2>5, <3>1, <3>2, <3>3 DEF PhaseFails
  <2>6. CASE RollBack(r)
    <3>1. record' = record \/ record' = [record EXCEPT ![r] = status[r]]
      BY <2>6 DEF RollBack, UpdateDetached, RowAfterUpdate
    <3> QED BY <2>6, <3>1, RowKinds DEF RollBack, QuietInv
  <2>7. CASE Complete(r)
    <3>1. record' = record \/ record' = [record EXCEPT ![r] = "completed"]
      BY <2>7 DEF Complete, UpdateWithCtx, UpdateDetached, RowAfterUpdate
    <3> QED BY <2>7, <3>1, RowKinds DEF Complete, QuietInv
  <2>8. CASE Close(r) BY <2>8 DEF Close
  <2> HIDE DEF IInv, Rowing
  <2> QED BY <1>2, <2>1, <2>2, <2>3, <2>4, <2>5, <2>6, <2>7, <2>8 DEF Goroutine
<1>3. ASSUME NEW r \in Reqs, Users(r) PROVE Rowing'
  <2>1. CASE Reserve(r) BY <2>1 DEF Reserve
  <2>2. CASE CancelCheck(r) BY <2>2 DEF CancelCheck
  <2>3. CASE CancelCommit(r) BY <2>3 DEF CancelCommit
  <2>4. CASE DeleteCheck(r) BY <2>4 DEF DeleteCheck
  <2>5. CASE DeleteCommit(r)
    <3>1. record[r] \in Terminal \cup {"deleted"} BY <2>5 DEF DeleteCommit
    <3>2. r \notin orphans BY <3>1, RowKinds, NonTerminalRank
    <3>3. stage[r] \notin {"idle", "reserved", "created", "loading", "work", "worked"}
      BY <3>1, RowKinds, NonTerminalRank, TerminalRank
    <3>4. record' = record \/ record' = [record EXCEPT ![r] = "deleted"]
      BY <2>5 DEF DeleteCommit
    <3> QED BY <2>5, <3>2, <3>3, <3>4 DEF DeleteCommit
  <2> HIDE DEF IInv, Rowing
  <2> QED BY <1>3, <2>1, <2>2, <2>3, <2>4, <2>5 DEF Users
<1>4. ASSUME NEW r \in Reqs, Expire(r) PROVE Rowing'
  BY <1>4 DEF Expire
<1>5. ASSUME Process PROVE Rowing'
  <2>1. CASE Crash BY <2>1 DEF Crash
  <2>2. CASE Boot BY <2>2 DEF Boot
  <2>3. ASSUME NEW r \in Reqs, RecoverRecord(r) PROVE Rowing'
    <3>1. record' = record \/ record' = [record EXCEPT ![r] = "failed"]
      BY <2>3 DEF RecoverRecord, UpdateDetached, RowAfterUpdate
    <3>2. stage[r] \in {"idle", "gone"} BY <2>3 DEF RecoverRecord, QuietInv
    <3>3. stage[r] # "idle"
      BY <2>3, RowKinds, NonTerminalRank DEF RecoverRecord
    <3> QED BY <2>3, <3>1, <3>2, <3>3, RowKinds DEF RecoverRecord
  <2>4. CASE Serve BY <2>4 DEF Serve
  <2> HIDE DEF IInv, Rowing
  <2> QED BY <1>5, <2>1, <2>2, <2>3, <2>4 DEF Process
<1>6. CASE UNCHANGED vars BY <1>6 DEF vars
<1> HIDE DEF IInv, Rowing
<1> QED BY <1>1, <1>2, <1>3, <1>4, <1>5, <1>6 DEF ServiceNext

LEMMA InvStep == IInv /\ [ServiceNext]_vars => IInv'
BY TypeStep, LockStep, RowStep DEF IInv, Locks, Rowing

LEMMA Invariance == ServiceSpec => []IInv
BY InvInit, InvStep, PTL DEF ServiceSpec

\* Every variable keeps its type.
THEOREM TypeCorrect == ServiceSpec => []TypeOK
<1>1. IInv => TypeOK BY DEF IInv
<1> QED BY <1>1, Invariance, PTL

\* Two migrations of the same VM never run at once, however many calls are
\* made, cancelled, rejected or cut off by a restart (activeVMs).
THEOREM MutualExclusion == ServiceSpec => []NoParallelMigration
<1>1. IInv => NoParallelMigration BY OneOwner DEF IInv
<1> QED BY <1>1, Invariance, PTL

\* No path of StartMigration or of the goroutine leaks the lock of a VMID, and a running
\* migration always has its cancel function registered.
THEOREM MapsAreKept == ServiceSpec => []MapsMatchGoroutines
<1>1. IInv => MapsMatchGoroutines BY DEF IInv, MapsMatchGoroutines
<1> QED BY <1>1, Invariance, PTL

-----------------------------------------------------------------------------
(* The rows implement MigrationLifecycle.                                   *)

\* A write that moves a row forward is a step of the lifecycle.
LEMMA ForwardIsAdvance ==
  ASSUME NEW r \in Reqs, NEW s \in Statuses,
         record[r] \in NonTerminal, Rank[s] > Rank[record[r]],
         record' = record \/ record' = [record EXCEPT ![r] = s]
  PROVE  [Next]_record
BY MigrationsAssumption DEF Next, Advance

\* A terminal status is ahead of every other.
LEMMA TerminalIsForward ==
  ASSUME NEW s \in Terminal, NEW q \in NonTerminal
  PROVE  Rank[s] > Rank[q]
BY TerminalRank, NonTerminalRank, RankType

LEMMA RowRefines == IInv /\ [ServiceNext]_vars => [Next]_record
<1> SUFFICES ASSUME IInv, [ServiceNext]_vars PROVE [Next]_record
  OBVIOUS
<1> USE DEF IInv, TypeOK, local, requests, boot
<1>1. ASSUME NEW r \in Reqs, Call(r) PROVE [Next]_record
  <2>1. record' = record \/ (record[r] = "absent" /\ record' = [record EXCEPT ![r] = "pending"])
    BY <1>1 DEF Call, Reject, CreateRecord, CreateFails, Register, RowInv
  <2> QED BY <2>1, MigrationsAssumption DEF Next, Create
<1>2. ASSUME NEW r \in Reqs, Goroutine(r) PROVE [Next]_record
  <2>1. CASE UNCHANGED record BY <2>1
  <2>2. CASE EnterPhase(r)
    <3> DEFINE s == NextPhase(status[r])
    <3>1. s \in NonTerminal /\ Rank[s] > Rank[status[r]]
      BY <2>2, NextPhaseRank DEF EnterPhase, RowInv
    <3>2. record' = record \/ record' = [record EXCEPT ![r] = s]
      BY <2>2 DEF EnterPhase, UpdateWithCtx, UpdateDetached, RowAfterUpdate
    <3>3. /\ record[r] \in NonTerminal /\ Rank[record[r]] <= Rank[status[r]]
          /\ status[r] \in NonTerminal
      BY <2>2 DEF EnterPhase, RowInv
    <3>4. Rank[s] > Rank[record[r]]
      <4>1. Rank[s] \in 0..6 /\ Rank[status[r]] \in 0..6 /\ Rank[record[r]] \in 0..6
        BY <3>1, <3>3, RankType, NonTerminalRank
      <4> QED BY <4>1, <3>1, <3>3
    <3> QED BY <3>1, <3>2, <3>3, <3>4, ForwardIsAdvance, NonTerminalRank
  <2>3. CASE PhaseFails(r)
    <3> DEFINE s == IF ctx[r] = "cancelled" THEN "cancelled" ELSE "failed"
    <3>1. s \in Terminal /\ s \in Statuses BY RowKinds, TerminalRank
    <3>2. record[r] \in NonTerminal BY <2>3 DEF PhaseFails, RowInv
    <3>3. record' = record \/ record' = [record EXCEPT ![r] = s]
      BY <2>3 DEF PhaseFails, UpdateDetached, RowAfterUpdate
    <3>4. Rank[s] > Rank[record[r]] BY <3>1, <3>2, TerminalIsForward
    <3> QED BY <3>1, <3>2, <3>3, <3>4, ForwardIsAdvance
  <2>4. CASE RollBack(r)
    <3>1. status[r] \in Terminal /\ record[r] \in NonTerminal \cup {status[r], "deleted"}
      BY <2>4 DEF RollBack, RowInv
    <3>2. record' = record \/ (record[r] # "deleted" /\ record' = [record EXCEPT ![r] = status[r]])
      BY <2>4 DEF RollBack, UpdateDetached, RowAfterUpdate
    <3>3. CASE record[r] \in NonTerminal
      <4>1. Rank[status[r]] > Rank[record[r]] BY <3>1, <3>3, TerminalIsForward
      <4> QED BY <3>1, <3>2, <3>3, <4>1, ForwardIsAdvance, TerminalRank
    <3>4. CASE record[r] \notin NonTerminal
      <4>1. record' = record BY <3>1, <3>2, <3>4
      <4> QED BY <4>1
    <3> QED BY <3>3, <3>4
  <2>5. CASE Complete(r)
    <3>1. record[r] \in NonTerminal BY <2>5 DEF Complete, RowInv
    <3>2. record' = record \/ record' = [record EXCEPT ![r] = "completed"]
      BY <2>5 DEF Complete, UpdateWithCtx, UpdateDetached, RowAfterUpdate
    <3>3. Rank["completed"] > Rank[record[r]] BY <3>1, RowKinds, TerminalIsForward
    <3> QED BY <3>1, <3>2, <3>3, ForwardIsAdvance, RowKinds, TerminalRank
  <2> QED BY <1>2, <2>1, <2>2, <2>3, <2>4, <2>5
          DEF Goroutine, Load, LoadFails, PhaseSucceeds, Close
<1>3. ASSUME NEW r \in Reqs, Users(r) PROVE [Next]_record
  <2>1. record' = record \/ (record[r] \in Terminal /\ record' = [record EXCEPT ![r] = "deleted"])
    BY <1>3 DEF Users, Reserve, CancelCheck, CancelCommit, DeleteCheck,
                DeleteCommit, RequestInv
  <2> QED BY <2>1, MigrationsAssumption DEF Next, Remove
<1>4. ASSUME NEW r \in Reqs, Expire(r) PROVE [Next]_record
  BY <1>4 DEF Expire
<1>5. ASSUME Process PROVE [Next]_record
  <2>1. ASSUME NEW r \in Reqs, RecoverRecord(r) PROVE [Next]_record
    <3>1. record[r] \in NonTerminal BY <2>1 DEF RecoverRecord, RequestInv
    <3>2. record' = record \/ record' = [record EXCEPT ![r] = "failed"]
      BY <2>1 DEF RecoverRecord, UpdateDetached, RowAfterUpdate
    <3>3. Rank["failed"] > Rank[record[r]] BY <3>1, RowKinds, TerminalIsForward
    <3> QED BY <3>1, <3>2, <3>3, ForwardIsAdvance, RowKinds, TerminalRank
  <2> QED BY <1>5, <2>1 DEF Process, Crash, Boot, Serve
<1>6. CASE UNCHANGED vars BY <1>6 DEF vars
<1> QED BY <1>1, <1>2, <1>3, <1>4, <1>5, <1>6 DEF ServiceNext

\* The status of a row only moves forward, never leaves a terminal state, and
\* a deleted row stays deleted: the service implements MigrationLifecycle.
THEOREM RowsNeverGoBack == ServiceSpec => ImplementsLifecycle
<1>1. ServiceInit => Init BY DEF ServiceInit
<1> QED BY <1>1, RowRefines, Invariance, PTL
        DEF ServiceSpec, ImplementsLifecycle, Spec

-----------------------------------------------------------------------------
(* How a row can be left behind.  NonTerminalRowHasWorker does not hold; as *)
(* long as the database answers, it fails in no other way than these two.   *)

\* The goroutine of a migration that was cancelled never got to load its row; or it did all
\* of its work and wrote the last status with a context that was over.
Dropped(r) == \/ status[r] = "pending" /\ ctx[r] = "cancelled"
              \/ status[r] = "completed" /\ ctx[r] # "live"

\* A row that is not terminal has somebody who will finish it, or was dropped.
StrandedOnlyIfDropped ==
  \A r \in Reqs : server = "serving" /\ record[r] \in NonTerminal => Busy(r) \/ Dropped(r)

\* What each stage knows of it: the goroutine that has chosen another outcome has written it
\* to the row, and a sweep finds every row that a restart has interrupted.
StrandInv ==
  \A r \in Reqs :
    /\ stage[r] \in {"idle", "reserved", "created", "loading"} =>
         status[r] = "pending" /\ ctx[r] # "expired"
    /\ stage[r] = "rollback" => record[r] \notin NonTerminal
    /\ /\ record[r] \in NonTerminal
       /\ stage[r] = "closing" \/ (stage[r] = "gone" /\ server = "serving")
       => Dropped(r)
    /\ server = "booting" /\ record[r] \in NonTerminal => r \in orphans

\* Without errors of the database a detached update sets the row that is there.
LEMMA UpdateIsDone ==
  ASSUME ~DatabaseErrors, record \in [Reqs -> Rows], NEW r \in Reqs, NEW s
  PROVE  /\ UpdateDetached(r, s) =>
              /\ record[r] \in {"absent", "deleted"} => record' = record
              /\ record[r] \notin {"absent", "deleted"} => record' = [record EXCEPT ![r] = s]
         /\ ctx[r] = "live" => (UpdateWithCtx(r, s) => UpdateDetached(r, s))
BY DEF UpdateDetached, UpdateWithCtx, RowAfterUpdate

\* A row of which neither the stage nor anything else that matters has changed stays as it is.
LEMMA StrandKept ==
  ASSUME StrandInv,
         /\ UNCHANGED <<stage, status, server, orphans>>
         /\ \A r \in Reqs : ctx'[r] = ctx[r] \/ (stage[r] \in Running /\ ctx[r] = "live" /\ ctx'[r] = "cancelled")
         /\ \A r \in Reqs : record'[r] = record[r] \/ record'[r] \notin NonTerminal
  PROVE  StrandInv'
BY DEF StrandInv, Dropped, Running

LEMMA StrandStep == ~DatabaseErrors /\ IInv /\ StrandInv /\ [ServiceNext]_vars => StrandInv'
<1> SUFFICES ASSUME ~DatabaseErrors, IInv, StrandInv, [ServiceNext]_vars PROVE StrandInv'
  OBVIOUS
<1>0. TypeOK /\ RowInv /\ RequestInv /\ QuietInv /\ RunningIsCancellable
  BY DEF IInv
<1> USE DEF local, requests, boot
<1>1. ASSUME NEW r \in Reqs, Call(r) PROVE StrandInv'
  <2>1. CASE Reject(r)
    <3>1. record[r] \notin NonTerminal
      BY <1>0, <2>1, RowKinds, NonTerminalRank DEF Reject, RowInv
    <3> QED BY <1>0, <2>1, <3>1 DEF Reject, StrandInv, Dropped, TypeOK
  <2>2. CASE CreateRecord(r)
    <3>1. server # "booting"
      BY <1>0, <2>2 DEF CreateRecord, QuietInv
    <3> QED BY <1>0, <2>2, <3>1 DEF CreateRecord, StrandInv, Dropped, TypeOK
  <2>3. CASE CreateFails(r) BY <2>3 DEF CreateFails
  <2>4. CASE Register(r) BY <1>0, <2>4 DEF Register, StrandInv, Dropped, TypeOK
  <2> QED BY <1>1, <2>1, <2>2, <2>3, <2>4 DEF Call
<1>2. ASSUME NEW r \in Reqs, Goroutine(r) PROVE StrandInv'
  <2>0. server = "serving"
    <3>1. stage[r] \in Running
      BY <1>2 DEF Goroutine, Load, LoadFails, EnterPhase, PhaseSucceeds, PhaseFails, RollBack,
                  Complete, Close, Running
    <3> QED BY <1>0, <3>1 DEF QuietInv, Running
  <2>1. CASE Load(r) BY <1>0, <2>1 DEF Load, StrandInv, Dropped, TypeOK
  <2>2. CASE LoadFails(r)
    <3>1. status[r] = "pending" /\ ctx[r] = "cancelled"
      BY <1>0, <2>2 DEF LoadFails, StrandInv, TypeOK
    <3> QED BY <1>0, <2>2, <3>1 DEF LoadFails, StrandInv, Dropped, TypeOK
  <2>3. CASE EnterPhase(r)
    <3>1. \A q \in Reqs : q # r => record'[q] = record[q]
      BY <1>0, <2>3 DEF EnterPhase, UpdateWithCtx, UpdateDetached, RowAfterUpdate, TypeOK
    <3> QED BY <1>0, <2>0, <2>3, <3>1 DEF EnterPhase, StrandInv, Dropped, TypeOK
  <2>4. CASE PhaseSucceeds(r) BY <1>0, <2>4 DEF PhaseSucceeds, StrandInv, Dropped, TypeOK
  <2>5. CASE PhaseFails(r)
    <3> DEFINE outcome == IF ctx[r] = "cancelled" THEN "cancelled" ELSE "failed"
    <3>1. UpdateDetached(r, outcome)
      BY <2>5 DEF PhaseFails
    <3>2. outcome \notin NonTerminal
      BY RowKinds
    <3> HIDE DEF outcome
    <3>3. record'[r] \notin NonTerminal /\ \A q \in Reqs : q # r => record'[q] = record[q]
      <4>1. record \in [Reqs -> Rows]
        BY <1>0 DEF TypeOK
      <4>2. CASE record[r] \in {"absent", "deleted"}
        BY <3>1, <4>1, <4>2, UpdateIsDone, RowKinds, NonTerminalRank
      <4>3. CASE record[r] \notin {"absent", "deleted"}
        <5>1. record' = [record EXCEPT ![r] = outcome]
          BY <3>1, <4>1, <4>3, UpdateIsDone
        <5> QED BY <3>2, <4>1, <5>1
      <4> QED BY <4>2, <4>3
    <3> QED BY <1>0, <2>0, <2>5, <3>3 DEF PhaseFails, StrandInv, Dropped, TypeOK
  <2>6. CASE RollBack(r)
    <3>1. record[r] \notin NonTerminal /\ status[r] \notin NonTerminal
      BY <1>0, <2>6, RowKinds DEF RollBack, StrandInv, RowInv
    <3>2. record'[r] \notin NonTerminal /\ \A q \in Reqs : q # r => record'[q] = record[q]
      BY <1>0, <2>6, <3>1 DEF RollBack, UpdateDetached, RowAfterUpdate, TypeOK
    <3> QED BY <1>0, <2>0, <2>6, <3>2 DEF RollBack, StrandInv, Dropped, TypeOK
  <2>7. CASE Complete(r)
    <3>1. \A q \in Reqs : q # r => record'[q] = record[q]
      BY <1>0, <2>7 DEF Complete, UpdateWithCtx, UpdateDetached, RowAfterUpdate, TypeOK
    <3>2. ctx[r] = "live" => record'[r] \notin NonTerminal
      BY <1>0, <2>7, RowKinds, NonTerminalRank
         DEF Complete, UpdateWithCtx, UpdateDetached, RowAfterUpdate, TypeOK
    <3> QED BY <1>0, <2>0, <2>7, <3>1, <3>2 DEF Complete, StrandInv, Dropped, TypeOK
  <2>8. CASE Close(r)
    <3>1. Dropped(r) => Dropped(r)'
      BY <1>0, <2>8 DEF Close, Dropped, TypeOK
    <3> QED BY <1>0, <2>8, <3>1 DEF Close, StrandInv, Dropped, TypeOK
  <2> QED BY <1>2, <2>1, <2>2, <2>3, <2>4, <2>5, <2>6, <2>7, <2>8 DEF Goroutine
<1>3. ASSUME NEW r \in Reqs, Users(r) PROVE StrandInv'
  <2>1. CASE Reserve(r)
    BY <1>0, <2>1 DEF Reserve, StrandInv, Dropped, TypeOK
  <2>2. CASE CancelCheck(r) BY <2>2, StrandKept DEF CancelCheck
  <2>3. CASE CancelCommit(r)
    <3>1. \A q \in Reqs : \/ ctx'[q] = ctx[q]
                          \/ stage[q] \in Running /\ ctx[q] = "live" /\ ctx'[q] = "cancelled"
      BY <1>0, <2>3 DEF CancelCommit, RunningIsCancellable, TypeOK
    <3> QED BY <2>3, <3>1, StrandKept DEF CancelCommit
  <2>4. CASE DeleteCheck(r) BY <2>4, StrandKept DEF DeleteCheck
  <2>5. CASE DeleteCommit(r)
    <3>1. \A q \in Reqs : record'[q] = record[q] \/ record'[q] \notin NonTerminal
      BY <1>0, <2>5, RowKinds, NonTerminalRank DEF DeleteCommit, TypeOK
    <3> QED BY <2>5, <3>1, StrandKept DEF DeleteCommit
  <2> QED BY <1>3, <2>1, <2>2, <2>3, <2>4, <2>5 DEF Users
<1>4. ASSUME NEW r \in Reqs, Expire(r) PROVE StrandInv'
  BY <1>0, <1>4 DEF Expire, StrandInv, Dropped, TypeOK
<1>5. ASSUME Process PROVE StrandInv'
  <2>1. CASE Crash BY <1>0, <2>1 DEF Crash, StrandInv, Dropped, TypeOK
  <2>2. CASE Boot
    <3>1. \A r \in Reqs : stage[r] \in {"idle", "gone"}
      BY <1>0, <2>2 DEF Boot, QuietInv
    <3> QED BY <1>0, <2>2, <3>1 DEF Boot, StrandInv, Dropped, TypeOK
  <2>3. ASSUME NEW r \in Reqs, RecoverRecord(r) PROVE StrandInv'
    <3>1. /\ record[r] \in NonTerminal /\ server' = "booting"
          /\ \A q \in Reqs : stage[q] \in {"idle", "gone"}
      BY <1>0, <2>3 DEF RecoverRecord, RequestInv, QuietInv
    <3>2. record' = [record EXCEPT ![r] = "failed"]
      <4>1. record[r] \notin {"absent", "deleted"} /\ record \in [Reqs -> Rows]
        BY <1>0, <3>1, RowKinds, NonTerminalRank DEF TypeOK
      <4>2. UpdateDetached(r, "failed")
        BY <2>3 DEF RecoverRecord
      <4> QED BY <4>1, <4>2, UpdateIsDone
    <3>3. record'[r] \notin NonTerminal /\ \A q \in Reqs : q # r => record'[q] = record[q]
      BY <1>0, <3>2, RowKinds DEF TypeOK
    <3> QED BY <1>0, <2>3, <3>1, <3>3 DEF RecoverRecord, StrandInv, Dropped, TypeOK
  <2>4. CASE Serve
    <3>1. \A r \in Reqs : record[r] \notin NonTerminal
      BY <2>4 DEF Serve, StrandInv
    <3>2. \A r \in Reqs : stage[r] \in {"idle", "gone"}
      BY <1>0, <2>4 DEF Serve, QuietInv
    <3> QED BY <2>4, <3>1, <3>2 DEF Serve, StrandInv, Dropped
  <2> QED BY <1>5, <2>1, <2>2, <2>3, <2>4 DEF Process
<1>6. CASE UNCHANGED vars BY <1>6, StrandKept DEF vars
<1> QED BY <1>1, <1>2, <1>3, <1>4, <1>5, <1>6 DEF ServiceNext

LEMMA StrandInit == ServiceInit => StrandInv
BY MigrationsAssumption DEF ServiceInit, Init, StrandInv, NonTerminal

\* As long as the database answers, a row that nobody works on any more and that is not
\* terminal is one of a migration that was cancelled before its goroutine had loaded it, or
\* one that did its work to the end and wrote "completed" with a context that was over
\* (migration_service.go:318-322 and 1213).
THEOREM RowsAreLeftInTwoWays == ServiceSpec => [](~DatabaseErrors => StrandedOnlyIfDropped)
<1>1. ServiceSpec => [](~DatabaseErrors => StrandInv)
  <2>1. (~DatabaseErrors => StrandInv) /\ IInv /\ [ServiceNext]_vars => (~DatabaseErrors => StrandInv)'
    BY StrandStep
  <2> QED BY <2>1, StrandInit, Invariance, PTL DEF ServiceSpec
<1>2. IInv /\ StrandInv => StrandedOnlyIfDropped
  <2> SUFFICES ASSUME IInv, StrandInv, NEW r \in Reqs, server = "serving", record[r] \in NonTerminal
               PROVE  Busy(r) \/ Dropped(r)
    BY DEF StrandedOnlyIfDropped
  <2>1. stage[r] # "idle"
    BY RowKinds, NonTerminalRank DEF IInv, RowInv
  <2>2. stage[r] \in Calling \cup Running \/ stage[r] = "gone"
    BY <2>1 DEF IInv, TypeOK, Stages
  <2> QED BY <2>2 DEF StrandInv, Busy
<1> QED BY <1>1, <1>2, Invariance, PTL

\* A restart finishes them: as long as the database answers, the server does not serve
\* before the sweep has taken every row to a terminal status (RecoverOrphanedMigrations).
SweepIsComplete == ~DatabaseErrors /\ Serve => \A r \in Reqs : record'[r] \notin NonTerminal

THEOREM RestartFinishesRows == ServiceSpec => [][SweepIsComplete]_vars
<1>1. (~DatabaseErrors => StrandInv) => SweepIsComplete
  BY DEF Serve, SweepIsComplete, StrandInv
<1>2. (~DatabaseErrors => StrandInv) /\ IInv /\ [ServiceNext]_vars => (~DatabaseErrors => StrandInv)'
  BY StrandStep
<1> QED BY <1>1, <1>2, StrandInit, Invariance, PTL DEF ServiceSpec

-----------------------------------------------------------------------------
(* Why every lock is released: the work that is left to a call or goroutine *)
(* is a number that its own steps lower and that nobody else raises.        *)

\* From a stage on there are so many steps at most, and two for every phase still to come.
StepsFrom == [reserved |-> 16, created |-> 15, loading |-> 14, work |-> 4, worked |-> 3,
              rollback |-> 2, closing |-> 1, gone |-> 0, idle |-> 0]

WorkAt(g, s) == StepsFrom[g] + (IF g \in {"work", "worked"} THEN 2 * (5 - Rank[s]) ELSE 0)

\* A step of a call or goroutine gets it nearer to its end, at most 16 of them; nobody else
\* takes it back, except that a call may begin.
OnlyForward ==
  \A r \in Reqs :
    /\ Call(r) \/ Goroutine(r) => WorkAt(stage'[r], status'[r]) < WorkAt(stage[r], status[r])
    /\ Reserve(r) \/ WorkAt(stage'[r], status'[r]) <= WorkAt(stage[r], status[r])

LEMMA WorkValues ==
  ASSUME NEW s
  PROVE  /\ WorkAt("reserved", s) = 16 /\ WorkAt("created", s) = 15 /\ WorkAt("loading", s) = 14
         /\ WorkAt("rollback", s) = 2 /\ WorkAt("closing", s) = 1
         /\ WorkAt("gone", s) = 0 /\ WorkAt("idle", s) = 0
         /\ Rank[s] \in 0..5 => /\ WorkAt("work", s) = 4 + 2 * (5 - Rank[s])
                                /\ WorkAt("worked", s) = 3 + 2 * (5 - Rank[s])
BY DEF WorkAt, StepsFrom

\* What is left is at most 16 steps, and none only if there is nothing left to do.
WorkInv == \A r \in Reqs : /\ WorkAt(stage[r], status[r]) \in 0..16
                           /\ WorkAt(stage[r], status[r]) > 0 <=> Busy(r)

LEMMA WorkBound == IInv => WorkInv
<1> SUFFICES ASSUME IInv, NEW r \in Reqs
             PROVE  /\ WorkAt(stage[r], status[r]) \in 0..16
                    /\ WorkAt(stage[r], status[r]) > 0 <=> Busy(r)
  BY DEF WorkInv
<1>1. stage[r] \in {"work", "worked"} => Rank[status[r]] \in 0..5
  BY RankType, NonTerminalRank DEF IInv, RowInv
<1>2. stage[r] \in Stages
  BY DEF IInv, TypeOK
<1> QED BY <1>1, <1>2, WorkValues DEF Stages, Calling, Running, Busy

\* The steps of one call or goroutine lower the work that is left to it.
LEMMA WorkFalls ==
  ASSUME IInv, NEW r \in Reqs, Call(r) \/ Goroutine(r)
  PROVE  /\ WorkAt(stage'[r], status'[r]) < WorkAt(stage[r], status[r])
         /\ \A q \in Reqs : q # r => stage'[q] = stage[q] /\ status'[q] = status[q]
<1>0. TypeOK /\ RowInv
  BY DEF IInv
<1>1. \A q \in Reqs : q # r => stage'[q] = stage[q] /\ status'[q] = status[q]
  BY <1>0 DEF Call, Reject, CreateRecord, CreateFails, Register, Goroutine, Load, LoadFails,
     EnterPhase, PhaseSucceeds, PhaseFails, RollBack, Complete, Close, local, TypeOK
<1>2. stage[r] \in {"loading", "work", "worked"} => Rank[status[r]] \in 0..5
  BY <1>0, RankType, NonTerminalRank DEF RowInv
<1>3. CASE Call(r)
  <2>1. \/ stage[r] = "reserved" /\ stage'[r] \in {"created", "gone"}
        \/ stage[r] = "created" /\ stage'[r] = "loading"
    BY <1>0, <1>3 DEF Call, Reject, CreateRecord, CreateFails, Register, TypeOK
  <2> QED BY <1>1, <2>1, WorkValues
<1>4. CASE Load(r) \/ PhaseSucceeds(r)
  <2>1. stage[r] \in {"loading", "work"} /\ stage'[r] = "worked" /\ status'[r] = status[r]
    BY <1>0, <1>4 DEF Load, PhaseSucceeds, TypeOK
  <2> QED BY <1>1, <1>2, <2>1, WorkValues
<1>5. CASE EnterPhase(r)
  <2> DEFINE s == NextPhase(status[r])
  <2>1. Rank[s] \in 0..5 /\ Rank[s] > Rank[status[r]]
    BY <1>0, <1>5, NextPhaseRank, NonTerminalRank, RankType DEF EnterPhase, RowInv
  <2>2. /\ stage[r] = "worked" /\ stage'[r] = "work" /\ status'[r] = s
    BY <1>0, <1>5 DEF EnterPhase, TypeOK
  <2> HIDE DEF s
  <2> QED BY <1>1, <1>2, <2>1, <2>2, WorkValues
<1>6. CASE PhaseFails(r) \/ Complete(r) \/ LoadFails(r) \/ RollBack(r) \/ Close(r)
  <2>1. \/ stage[r] = "work" /\ stage'[r] = "rollback"
        \/ stage[r] \in {"worked", "loading", "rollback"} /\ stage'[r] = "closing"
        \/ stage[r] = "closing" /\ stage'[r] = "gone"
    BY <1>0, <1>6 DEF PhaseFails, Complete, LoadFails, RollBack, Close, TypeOK
  <2> QED BY <1>1, <1>2, <2>1, WorkValues
<1> QED BY <1>3, <1>4, <1>5, <1>6 DEF Goroutine

\* Every step of a call or of a goroutine is one of at most 16 to its end, and nothing but a
\* new call adds any: a lock that is never released would need a goroutine that stands still.
THEOREM WorkComesToAnEnd == ServiceSpec => []WorkInv /\ [][OnlyForward]_vars
<1>1. ASSUME IInv, WorkInv, WorkInv', ServiceNext PROVE OnlyForward
  <2> SUFFICES ASSUME NEW r \in Reqs
               PROVE  /\ Call(r) \/ Goroutine(r) =>
                           WorkAt(stage'[r], status'[r]) < WorkAt(stage[r], status[r])
                      /\ Reserve(r) \/ WorkAt(stage'[r], status'[r]) <= WorkAt(stage[r], status[r])
    BY DEF OnlyForward
  <2>1. /\ WorkAt(stage[r], status[r]) \in 0..16 /\ WorkAt(stage'[r], status'[r]) \in 0..16
        /\ TypeOK
    BY <1>1 DEF IInv, WorkInv
  <2>2. Call(r) \/ Goroutine(r) => WorkAt(stage'[r], status'[r]) < WorkAt(stage[r], status[r])
    BY <1>1, WorkFalls
  <2>3. stage'[r] = stage[r] /\ status'[r] = status[r] =>
          WorkAt(stage'[r], status'[r]) <= WorkAt(stage[r], status[r])
    BY <2>1
  <2>4. ASSUME NEW q \in Reqs, Call(q) \/ Goroutine(q)
        PROVE  WorkAt(stage'[r], status'[r]) <= WorkAt(stage[r], status[r])
    <3>1. CASE q = r BY <2>1, <2>2, <2>4, <3>1
    <3>2. CASE q # r
      <4>1. stage'[r] = stage[r] /\ status'[r] = status[r]
        BY <1>1, <2>4, <3>2, WorkFalls
      <4> QED BY <2>3, <4>1
    <3> QED BY <3>1, <3>2
  <2>5. ASSUME NEW q \in Reqs, Users(q) \/ Expire(q), ~Reserve(r)
        PROVE  WorkAt(stage'[r], status'[r]) <= WorkAt(stage[r], status[r])
    <3>1. stage'[r] = stage[r] /\ status'[r] = status[r]
      BY <2>1, <2>5 DEF Users, Reserve, CancelCheck, CancelCommit, DeleteCheck, DeleteCommit,
         Expire, local, TypeOK
    <3> QED BY <2>3, <3>1
  <2>6. CASE Process /\ ~Crash
    <3>1. stage'[r] = stage[r] /\ status'[r] = status[r]
      BY <2>6 DEF Process, Boot, RecoverRecord, Serve, local
    <3> QED BY <2>2, <2>3, <3>1
  <2>7. CASE Crash
    <3>1. stage'[r] = "idle" \/ stage'[r] = "gone"
      BY <2>7 DEF Crash
    <3>2. WorkAt(stage'[r], status'[r]) = 0
      BY <3>1, WorkValues
    <3> QED BY <2>1, <2>2, <3>2
  <2> QED BY <1>1, <2>2, <2>4, <2>5, <2>6, <2>7 DEF ServiceNext
<1>2. IInv /\ WorkInv /\ WorkInv' /\ [ServiceNext]_vars => [OnlyForward]_vars
  BY <1>1
<1> QED BY <1>2, WorkBound, Invariance, PTL DEF ServiceSpec
=============================================================================
