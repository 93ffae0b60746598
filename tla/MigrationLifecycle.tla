------------------------- MODULE MigrationLifecycle -------------------------
(***************************************************************************)
(* What the rows of vm_migrations promise their readers: the status of a   *)
(* migration only moves forward through the pipeline, ends in one of three *)
(* terminal states, never leaves a terminal state, and a row is removed    *)
(* only once it is terminal.  MigrationService implements this.            *)
(***************************************************************************)
EXTENDS Naturals

CONSTANT Migrations

VARIABLE record

Terminal == {"completed", "failed", "cancelled"}

NonTerminal == {"pending", "preparing", "backing_up", "transferring",
                "restoring", "cleaning_up"}

Statuses == NonTerminal \cup Terminal

\* The order in which the pipeline goes through its statuses.
Rank == [s \in Statuses |->
           CASE s = "pending"      -> 0
             [] s = "preparing"    -> 1
             [] s = "backing_up"   -> 2
             [] s = "transferring" -> 3
             [] s = "restoring"    -> 4
             [] s = "cleaning_up"  -> 5
             [] OTHER              -> 6]

\* "absent": no row was inserted yet; "deleted": the row was removed again.
Rows == Statuses \cup {"absent", "deleted"}

Init == record = [m \in Migrations |-> "absent"]

Create(m) == /\ record[m] = "absent"
             /\ record' = [record EXCEPT ![m] = "pending"]

\* An update that was lost makes the next one skip a status; none goes back.
Advance(m) == /\ record[m] \in NonTerminal
              /\ \E s \in Statuses : /\ Rank[s] > Rank[record[m]]
                                     /\ record' = [record EXCEPT ![m] = s]

Remove(m) == /\ record[m] \in Terminal
             /\ record' = [record EXCEPT ![m] = "deleted"]

Next == \E m \in Migrations : Create(m) \/ Advance(m) \/ Remove(m)

Spec == Init /\ [][Next]_record
=============================================================================
