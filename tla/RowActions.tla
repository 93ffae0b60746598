----------------------------- MODULE RowActions -----------------------------
(***************************************************************************)
(* The orders that the tables of the console make for their rows: a        *)
(* deletion, a test, an acknowledgement.  Each table is a record that says *)
(* how it does so; one of them is chosen at the start.  An order may be    *)
(* answered when another row is being asked about, and the rows may change *)
(* meanwhile: what a listing shows is that of ListScreens, here any.       *)
(***************************************************************************)
EXTENDS FiniteSets, Naturals

-----------------------------------------------------------------------------
(* How a table orders.                                                      *)

\* The buttons of the rows order at once, and stay open while an order is out.
Plain == [asks |-> FALSE,     \* a confirmation, or a dialog with the details, comes first
          direct |-> TRUE,    \* a row has a button without it
          modal |-> FALSE,    \* nothing else can be clicked meanwhile
          inside |-> FALSE,   \* it is drawn in its row, and not without it
          shut |-> {},        \* "start", "ok", "fail": when the code closes it
          busy |-> "none",    \* what shows the order: "rows", a set of them; "one", a single id;
                              \* "table", a flag; or "none"
          guards |-> "send"]  \* which button a busy row disables: "send" or "ask"

Busy == [Plain EXCEPT !.busy = "rows"]
BusyOne == [Plain EXCEPT !.busy = "one"]
Inline == [Plain EXCEPT !.asks = TRUE, !.direct = FALSE, !.inside = TRUE]
Modal == [Plain EXCEPT !.asks = TRUE, !.direct = FALSE, !.modal = TRUE]

-----------------------------------------------------------------------------
(* Tables with confirmations.                                               *)

BackupRows == [Inline EXCEPT !.shut = {"ok"}]
ReflexRows == [Inline EXCEPT !.shut = {"ok", "fail"}]
BaselineLabels == [Inline EXCEPT !.shut = {"ok", "fail"}]
BackupsPageRows == [Modal EXCEPT !.inside = TRUE, !.shut = {"start", "ok"}]
SnapshotRows == [Modal EXCEPT !.shut = {"start", "ok", "fail"}, !.busy = "one", !.guards = "ask"]
ProcessRows == [Modal EXCEPT !.shut = {"start"}]
VMGroupRows == [Modal EXCEPT !.shut = {"start"}]
NodeRows == [Modal EXCEPT !.shut = {"ok"}, !.busy = "table"]
UserRows == NodeRows

\* Dialogs with the details of a row.
IncidentRows == [Modal EXCEPT !.direct = TRUE, !.shut = {"start"}]
DriftFiles == Modal
SessionRows == Modal

-----------------------------------------------------------------------------
(* Tables with buttons only.                                                *)

ISOCells == Busy
ISORows == Busy
SecurityRows == Busy
BriefingRows == Busy
AlertRows == BusyOne
ChannelTests == BusyOne
BaselineRows == BusyOne
ChannelRows == Plain
AlertRuleRows == Plain
ReflexRuleRows == Plain
PolicyRows == Plain
ScheduleRows == Plain
DialogScheduleRows == Plain
AnomalyRows == Plain
ServiceRows == Plain
EnvironmentRows == Plain
TagRows == Plain
TagsPageRows == Plain
InvitationRows == Plain
MemberRows == Plain
ActionRows == Plain
SnapshotPolicyRows == Plain
BrainRows == Plain
KeyRows == Plain
TokenRows == Plain
DependencyRows == Plain
MigrationRows == Plain

Tables == {BackupRows, ReflexRows, BaselineLabels, BackupsPageRows, SnapshotRows, ProcessRows, VMGroupRows,
           NodeRows, UserRows, IncidentRows, DriftFiles, SessionRows, ISOCells, ISORows, SecurityRows,
           BriefingRows, AlertRows, ChannelTests, BaselineRows, ChannelRows, AlertRuleRows, ReflexRuleRows,
           PolicyRows, ScheduleRows, DialogScheduleRows, AnomalyRows, ServiceRows, EnvironmentRows, TagRows,
           TagsPageRows, InvitationRows, MemberRows, ActionRows, SnapshotPolicyRows, BrainRows, KeyRows,
           TokenRows, DependencyRows, MigrationRows}

-----------------------------------------------------------------------------
(* The state of one.                                                        *)

CONSTANTS TableRows, NoRow,
          MaxOut      \* bound: orders for one row that are out

ASSUME NoRowAssumption == NoRow \notin TableRows

VARIABLES table,      \* its record
          onList,     \* the rows on screen
          asking,     \* the row of the confirmation, or NoRow
          used,       \* an order was made from it
          marked,     \* the rows that are shown busy
          ordered,    \* per row: orders out
          overOrder,  \* history: orders were out when the confirmation was opened
          crossed,    \* history: orders for several rows were out together
          doubled,    \* history: one confirmation made an order while another one of it was out
          ghost       \* history: an order was made for a row that is not on screen

rowVars == <<table, onList, asking, used, marked, ordered, overOrder, crossed, doubled, ghost>>

RowTypeOK ==
  /\ table \in Tables /\ onList \subseteq TableRows /\ asking \in TableRows \cup {NoRow}
  /\ marked \subseteq TableRows /\ ordered \in [TableRows -> 0..MaxOut]
  /\ {used, overOrder, crossed, doubled, ghost} \subseteq BOOLEAN

RowInit ==
  /\ table \in Tables /\ onList = TableRows
  /\ asking = NoRow /\ used = FALSE /\ marked = {} /\ ordered = [r \in TableRows |-> 0]
  /\ overOrder = FALSE /\ crossed = FALSE /\ doubled = FALSE /\ ghost = FALSE

OutFor == {r \in TableRows : ordered[r] > 0}

-----------------------------------------------------------------------------

\* The confirmation on screen, and the rows whose buttons can be reached.
Confirming == asking # NoRow /\ (table.inside => asking \in onList)
Reachable == IF Confirming /\ table.modal THEN {} ELSE onList

Blocked(r, button) == table.guards = button /\ r \in marked

AskFor(r) ==
  /\ table.asks /\ r \in Reachable /\ r # asking /\ ~Blocked(r, "ask")
  /\ asking' = r /\ used' = FALSE /\ overOrder' = (OutFor # {})
  /\ UNCHANGED <<table, onList, marked, ordered, crossed, doubled, ghost>>

CancelAsk ==
  /\ Confirming /\ asking' = NoRow
  /\ UNCHANGED <<table, onList, used, marked, ordered, overOrder, crossed, doubled, ghost>>

MarkedBy(r) == CASE table.busy = "rows" -> marked \cup {r}
                 [] table.busy = "one" -> {r}
                 [] table.busy = "table" -> TableRows
                 [] OTHER -> {}

Order(r) ==
  /\ ~Blocked(r, "send") /\ ordered[r] < MaxOut
  /\ ordered' = [ordered EXCEPT ![r] = @ + 1]
  /\ marked' = MarkedBy(r)
  /\ crossed' = (crossed \/ OutFor \ {r} # {})
  /\ ghost' = (ghost \/ r \notin onList)

\* A button of the row.
OrderForRow(r) ==
  /\ table.direct /\ r \in Reachable /\ Order(r)
  /\ UNCHANGED <<table, onList, asking, used, overOrder, doubled>>

\* The button of the confirmation.
Confirm ==
  /\ Confirming /\ Order(asking)
  /\ used' = TRUE /\ doubled' = (doubled \/ (used /\ asking \in OutFor))
  /\ asking' = IF "start" \in table.shut THEN NoRow ELSE asking
  /\ UNCHANGED <<table, onList, overOrder>>

Unmarked(r) == IF table.busy = "rows" THEN marked \ {r} ELSE {}

\* The answer closes the confirmation, whichever row that is for by then.
OrderAnswered(r, how) ==
  /\ r \in OutFor /\ ordered' = [ordered EXCEPT ![r] = @ - 1]
  /\ marked' = Unmarked(r)
  /\ asking' = IF how \in table.shut THEN NoRow ELSE asking
  /\ crossed' = (crossed /\ \E o \in TableRows : ordered'[o] > 0)
  /\ UNCHANGED <<table, onList, used, overOrder, doubled, ghost>>

\* The rows are listed again.
ListedAgain(S) ==
  /\ S # onList /\ onList' = S
  /\ UNCHANGED <<table, asking, used, marked, ordered, overOrder, crossed, doubled, ghost>>

\* The page is left: nothing of it waits for an answer any more.
LeaveTable ==
  /\ onList' = TableRows /\ asking' = NoRow /\ used' = FALSE /\ marked' = {}
  /\ ordered' = [r \in TableRows |-> 0] /\ overOrder' = FALSE /\ crossed' = FALSE
  /\ UNCHANGED <<table, doubled, ghost>>

RowNext ==
  \/ CancelAsk \/ Confirm \/ LeaveTable
  \/ \E r \in TableRows : \/ AskFor(r) \/ OrderForRow(r)
                          \/ \E how \in {"ok", "fail"} : OrderAnswered(r, how)
  \/ \E S \in SUBSET TableRows : ListedAgain(S)

RowSpec == RowInit /\ [][RowNext]_rowVars

-----------------------------------------------------------------------------

\* A row that shows what is out for it has one order at a time, unless the table has only
\* one id for all rows and orders for several were made; and nothing is busy for no reason.
RowsAreOrderedOnce ==
  table.busy # "none" /\ (table.busy = "one" => ~crossed) =>
    /\ \A r \in TableRows : ordered[r] <= 1
    /\ marked = (IF table.busy = "table" /\ OutFor # {} THEN TableRows ELSE OutFor)

\* One confirmation is one order, unless it stays open and nothing shows the first; it is
\* for a row on screen, unless it is a dialog of its own; and there is an order of another
\* row whose answer may take it away only if that was out before, or needed none.
ConfirmationsAreKept ==
  /\ doubled => table.busy = "none" /\ "start" \notin table.shut
  /\ ghost => table.asks /\ ~table.inside
  /\ Confirming /\ asking \notin OutFor /\ OutFor # {} => overOrder \/ table.direct
=============================================================================
