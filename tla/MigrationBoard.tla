--------------------------- MODULE MigrationBoard ---------------------------
(***************************************************************************)
(* The list of migrations in the web console: the store                    *)
(* (stores/migration-store.ts) and the history on the page                 *)
(* (components/migration/migration-history.tsx), which is fed by listings, *)
(* by the hub's progress messages and by the answers of its own commands.  *)
(* The socket is enabled only while the list has an active migration.      *)
(*                                                                         *)
(* The server's rows are reduced to what the list shows of them: they move *)
(* as in MigrationService, and every move but the first is broadcast.      *)
(* The logs of a migration are left out.                                   *)
(***************************************************************************)
EXTENDS Naturals, Sequences

CONSTANTS Migrations,
          ListSlots,     \* bound: listings that are out at a time
          MaxPushes      \* bound: messages on their way

ASSUME MaxPushesAssumption == MaxPushes \in Nat

VARIABLES row,        \* server: status of the row, "none" before and "gone" after
          pushes,     \* progress messages on their way, in order
          up,         \* the page's socket is open
          rows,       \* migrations: per id, the rows of the list in order
          active,     \* activeMigrations, likewise
          listing,    \* per slot: a GET that is out
          command,    \* per id: the command on it that is out
          stale,      \* history: ids whose last change the page has not been told
          tangled       \* history: ids shown before the answer of the retry that made them

boardVars == <<row, pushes, up, rows, active, listing, command, stale, tangled>>

RunStates == {"pending", "running"}
EndStates == {"completed", "failed", "cancelled"}
RowStates == RunStates \cup EndStates
NoGet == [phase |-> "idle", snap |-> [m \in Migrations |-> "none"], since |-> {}]
NoCommand == [kind |-> "none", done |-> FALSE, new |-> {}]

BoardTypeOK ==
  /\ row \in [Migrations -> RowStates \cup {"none", "gone"}]
  /\ pushes \in Seq([id : Migrations, status : RowStates]) /\ Len(pushes) <= MaxPushes
  /\ up \in BOOLEAN
  /\ rows \in [Migrations -> Seq(RowStates)] /\ active \in [Migrations -> Seq(RowStates)]
  /\ listing \in [ListSlots -> [phase : {"idle", "asked", "taken"},
                                snap : [Migrations -> RowStates \cup {"none", "gone"}],
                                since : SUBSET Migrations]]
  /\ command \in [Migrations -> [kind : {"none", "start", "cancel", "delete", "retry"},
                                 done : BOOLEAN, new : SUBSET Migrations]]
  /\ stale \subseteq Migrations /\ tangled \subseteq Migrations

\* The page is opened: its effect fetches the list.
BoardInit ==
  /\ row \in [Migrations -> {"none", "running"}]
  /\ pushes = <<>> /\ up = FALSE
  /\ rows = [m \in Migrations |-> <<>>] /\ active = [m \in Migrations |-> <<>>]
  /\ \E l \in ListSlots : listing = [k \in ListSlots |-> IF k = l THEN [NoGet EXCEPT !.phase = "asked"]
                                                         ELSE NoGet]
  /\ command = [m \in Migrations |-> NoCommand]
  /\ stale = {m \in Migrations : row[m] # "none"} /\ tangled = {}

-----------------------------------------------------------------------------
(* Helpers.                                                                 *)

\* Those of a migration's rows that have not ended, in the order of the list.
Running(q) ==
  LET kept[i \in 0 .. Len(q)] ==
        IF i = 0 THEN <<>>
        ELSE IF q[i] \in RunStates THEN Append(kept[i - 1], q[i]) ELSE kept[i - 1]
  IN kept[Len(q)]

Queued(m, q) == \E i \in DOMAIN q : q[i].id = m

\* The row of m is s from now on; whoever has read it before does not know.
SetRow(m, s) ==
  /\ row' = [row EXCEPT ![m] = s]
  /\ listing' = [k \in ListSlots |-> IF listing[k].phase = "taken"
                                     THEN [listing[k] EXCEPT !.since = @ \cup {m}]
                                     ELSE listing[k]]

\* The list holds r and the active ones a, while q is on its way and the page
\* has missed what happened to the ids of st.  Without an active migration the
\* socket is disabled, and what it has not delivered is lost.
SetBoard(r, a, q, st) ==
  /\ rows' = r /\ active' = a
  /\ IF \A m \in Migrations : a[m] = <<>>
     THEN up' = FALSE /\ pushes' = <<>> /\ stale' = st \cup {m \in Migrations : Queued(m, q)}
     ELSE pushes' = q /\ stale' = st /\ UNCHANGED up

\* fetchMigrations, fetchByNode.
FetchList == \E k \in ListSlots : /\ listing[k].phase = "idle"
                                  /\ listing' = [listing EXCEPT ![k].phase = "asked"]

-----------------------------------------------------------------------------
(* The server, and the socket.                                              *)

\* A phase of executeMigration begins or the migration ends: broadcastProgress.
RowMoves(m, s) ==
  /\ row[m] \in RunStates
  /\ \/ row[m] = "pending" /\ s = "running"
     \/ s \in EndStates
  /\ Len(pushes) < MaxPushes
  /\ SetRow(m, s)
  /\ IF up THEN pushes' = Append(pushes, [id |-> m, status |-> s]) /\ UNCHANGED stale
     ELSE UNCHANGED pushes /\ stale' = stale \cup {m}
  /\ UNCHANGED <<up, rows, active, command, tangled>>

\* Somebody else starts a migration: the new row is not broadcast.
OtherStarts(m) ==
  /\ row[m] = "none" /\ \A k \in Migrations : m \notin command[k].new
  /\ SetRow(m, "pending") /\ stale' = stale \cup {m}
  /\ UNCHANGED <<pushes, up, rows, active, command, tangled>>

SocketUp ==
  /\ ~up /\ \E m \in Migrations : active[m] # <<>>
  /\ up' = TRUE
  /\ UNCHANGED <<row, pushes, rows, active, listing, command, stale, tangled>>

SocketDown ==
  /\ up /\ up' = FALSE /\ pushes' = <<>>
  /\ stale' = stale \cup {m \in Migrations : Queued(m, pushes)}
  /\ UNCHANGED <<row, rows, active, listing, command, tangled>>

Pushed_OnlyKnown(q, s) == [i \in DOMAIN q |-> s]

\* updateMigrationProgress: the row is replaced, or added at the front.
Pushed(q, s) == IF q = <<>> THEN <<s>> ELSE [i \in DOMAIN q |-> s]

PushArrives ==
  LET m == Head(pushes).id
      r == [rows EXCEPT ![m] = Pushed(@, Head(pushes).status)]
  IN /\ pushes # <<>>
     /\ SetBoard(r, [k \in Migrations |-> Running(r[k])], Tail(pushes),
                 IF row[m] = "gone" THEN stale \cup {m} ELSE stale \ {m})
     /\ UNCHANGED <<row, listing, command, tangled>>

-----------------------------------------------------------------------------
(* Listings.                                                                *)

\* The page is visited again.
Revisit == /\ FetchList
           /\ UNCHANGED <<row, pushes, up, rows, active, command, stale, tangled>>

ListTaken(k) ==
  /\ listing[k].phase = "asked"
  /\ listing' = [listing EXCEPT ![k] = [phase |-> "taken", snap |-> row, since |-> {}]]
  /\ UNCHANGED <<row, pushes, up, rows, active, command, stale, tangled>>

\* The answer takes the place of the whole list.
ListArrives(k) ==
  LET r == [m \in Migrations |-> IF listing[k].snap[m] \in RowStates
                                 THEN <<listing[k].snap[m]>> ELSE <<>>]
  IN /\ listing[k].phase = "taken"
     /\ listing' = [listing EXCEPT ![k] = NoGet]
     /\ SetBoard(r, [m \in Migrations |-> Running(r[m])], pushes,
                 {m \in listing[k].since : ~Queued(m, pushes)})
     /\ tangled' = {}
     /\ UNCHANGED <<row, command>>

ListLost(k) ==
  /\ listing[k].phase # "idle"
  /\ listing' = [listing EXCEPT ![k] = NoGet]
  /\ UNCHANGED <<row, pushes, up, rows, active, command, stale, tangled>>

-----------------------------------------------------------------------------
(* Commands: asked, carried out by the server, answered.                    *)

Asks(m, kind, new) ==
  /\ command[m] = NoCommand                       \* bound: one at a time per migration
  /\ \A k \in Migrations : command[k].new \cap new = {}
  /\ command' = [command EXCEPT ![m] = [kind |-> kind, done |-> FALSE, new |-> new]]
  /\ UNCHANGED <<row, pushes, up, rows, active, listing, stale, tangled>>

\* The buttons of a row: they are there for what the list shows.
AskStart(m) == row[m] = "none" /\ Asks(m, "start", {m})
AskCancel(m) == active[m] # <<>> /\ Asks(m, "cancel", {})
AskDelete(m) == rows[m] # <<>> /\ rows[m] # active[m] /\ Asks(m, "delete", {})
AskRetry(m) == \E i \in DOMAIN rows[m] : rows[m][i] = "failed"
               /\ \E n \in Migrations : row[n] = "none" /\ Asks(m, "retry", {n})

Answered(m) == command' = [command EXCEPT ![m] = NoCommand]
Performed(m) == command' = [command EXCEPT ![m].done = TRUE]

\* StartMigration answers with the row, and the list is fetched.
StartPerformed(m) ==
  /\ command[m].kind = "start" /\ ~command[m].done
  /\ Performed(m) /\ SetRow(m, "pending") /\ stale' = stale \cup {m}
  /\ UNCHANGED <<pushes, up, rows, active, tangled>>

StartAnswered(m) ==
  /\ command[m].kind = "start" /\ command[m].done
  /\ Answered(m) /\ FetchList
  /\ UNCHANGED <<row, pushes, up, rows, active, stale, tangled>>

\* CancelMigration cancels the context of the goroutine and answers at once; the
\* list shows the row as cancelled.
CancelAnswered(m) ==
  LET r == [rows EXCEPT ![m] = [i \in DOMAIN @ |-> "cancelled"]]
  IN /\ command[m].kind = "cancel"
     /\ Answered(m)
     /\ SetBoard(r, [active EXCEPT ![m] = <<>>], pushes,
                 IF row[m] = "cancelled" /\ ~Queued(m, pushes) THEN stale ELSE stale \cup {m})
     /\ UNCHANGED <<row, listing, tangled>>

\* DeleteMigration, alone or as the first half of retryMigration; it refuses a
\* row that is not terminal.
DeletePerformed(m) ==
  /\ command[m].kind = "delete" /\ ~command[m].done
  /\ row[m] \in EndStates
  /\ Performed(m) /\ SetRow(m, "gone")
  /\ UNCHANGED <<pushes, up, rows, active, stale, tangled>>

DeleteAnswered(m) ==
  /\ command[m].kind = "delete" /\ command[m].done
  /\ Answered(m)
  /\ SetBoard([rows EXCEPT ![m] = <<>>], [active EXCEPT ![m] = <<>>], pushes, stale \ {m})
  /\ UNCHANGED <<row, listing, tangled>>

\* retryMigration: what has become of the delete is ignored.
RetryDeletes(m) ==
  /\ command[m].kind = "retry" /\ ~command[m].done
  /\ row[m] \in EndStates
  /\ SetRow(m, "gone")
  /\ UNCHANGED <<pushes, up, rows, active, command, stale, tangled>>

RetryStarts(m) ==
  /\ command[m].kind = "retry" /\ ~command[m].done
  /\ Performed(m) /\ \E n \in command[m].new : SetRow(n, "pending")
  /\ UNCHANGED <<pushes, up, rows, active, stale, tangled>>

\* The new row is put in front, the old one is taken out of the list.
RetryAnswered(m) ==
  /\ command[m].kind = "retry" /\ command[m].done
  /\ Answered(m)
  /\ \E n \in command[m].new :
       /\ SetBoard([[rows EXCEPT ![m] = <<>>] EXCEPT ![n] = <<"pending">> \o @],
                   [active EXCEPT ![n] = <<"pending">> \o @], pushes,
                   (stale \ {m}) \cup (IF row[m] = "gone" THEN {} ELSE {m})
                                 \cup (IF row[n] = "pending" THEN {} ELSE {n}))
       /\ tangled' = tangled \cup {k \in {n} : rows[k] # <<>>} \cup {k \in {m} : active[k] # <<>>}
  /\ UNCHANGED <<row, listing>>

\* An error: the command may have been carried out, in part or all of it, and
\* the list stays as it is.
CommandFails(m) ==
  /\ command[m] # NoCommand
  /\ Answered(m)
  /\ stale' = stale \cup {m} \cup command[m].new
  /\ UNCHANGED <<row, pushes, up, rows, active, listing, tangled>>

BoardNext ==
  \/ SocketUp \/ SocketDown \/ PushArrives \/ Revisit
  \/ \E k \in ListSlots : ListTaken(k) \/ ListArrives(k) \/ ListLost(k)
  \/ \E m \in Migrations :
       \/ \E s \in RowStates : RowMoves(m, s)
       \/ OtherStarts(m)
       \/ AskStart(m) \/ AskCancel(m) \/ AskDelete(m) \/ AskRetry(m)
       \/ StartPerformed(m) \/ StartAnswered(m) \/ CancelAnswered(m)
       \/ DeletePerformed(m) \/ DeleteAnswered(m)
       \/ RetryDeletes(m) \/ RetryStarts(m) \/ RetryAnswered(m) \/ CommandFails(m)

BoardSpec == BoardInit /\ [][BoardNext]_boardVars

-----------------------------------------------------------------------------
(* Properties.                                                              *)

\* The two lists of the store agree, and no migration is listed twice, whatever
\* listings, messages and answers overlap; but for the answer of a retry, which
\* puts the new row in front although a message has shown it already, and leaves
\* the old one among the active if a listing has made it so (migration-store.ts:157).
ListsAgree ==
  \A m \in Migrations \ tangled : active[m] = Running(rows[m]) /\ Len(rows[m]) <= 1

\* And when nothing is on its way, the list shows the server's rows, but for those
\* whose change was lost with the socket, was overtaken by an older listing or
\* message, or was hidden by the answer of a cancel (migration-store.ts:108, which
\* says cancelled while the goroutine may still run, and complete).
QuietBoardIsServer ==
  /\ ListsAgree
  /\ /\ pushes = <<>> /\ \A k \in ListSlots : listing[k] = NoGet
     /\ \A m \in Migrations : command[m] = NoCommand
     => \A m \in Migrations \ (stale \cup tangled) :
          rows[m] = IF row[m] \in RowStates THEN <<row[m]>> ELSE <<>>
=============================================================================
