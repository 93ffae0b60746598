------------------------------- MODULE VMList -------------------------------
(***************************************************************************)
(* The list of a node's guests (vm-list.tsx): the search, the rows that    *)
(* are ticked, a row's menu, the confirmations, and the orders to the      *)
(* guests, one at a time for a row or together for what is ticked.         *)
(*                                                                         *)
(* The search text is abstracted to the guests that it matches.  Guests    *)
(* change on the server at any time: a refresh shows any states.  How late *)
(* listings are handled is NodeStore of ListScreens.                       *)
(***************************************************************************)
EXTENDS FiniteSets, Naturals

CONSTANTS Guests, NoGuest,
          Orders         \* bound: the orders that are out at a time

ASSUME NoGuestAssumption == NoGuest \notin Guests

VARIABLES rows,       \* per guest: its state in the list, or "gone": not listed
          found,      \* the guests that the search matches
          picked,     \* selectedVmIds
          actionLoading, \* the guest whose row shows a spinner, or NoGuest
          stopping,   \* stopConfirmVm, or NoGuest
          bulkAsked,  \* the confirmation of a bulk action is open
          bulkLoading,
          order,      \* per slot: an order that is out
          ticked,     \* history: the guests ticked in a row on screen, and not cleared since
          interleaved \* history: row orders for two guests were out together

vmListVars == <<rows, found, picked, actionLoading, stopping, bulkAsked, bulkLoading, order,
                ticked, interleaved>>

GuestStates == {"running", "stopped", "paused", "gone"}

NoOrder == [by |-> "none", on |-> {}]

VMListTypeOK ==
  /\ rows \in [Guests -> GuestStates]
  /\ found \subseteq Guests /\ picked \subseteq Guests /\ ticked \subseteq Guests
  /\ actionLoading \in Guests \cup {NoGuest} /\ stopping \in Guests \cup {NoGuest}
  /\ bulkAsked \in BOOLEAN /\ bulkLoading \in BOOLEAN /\ interleaved \in BOOLEAN
  /\ order \in [Orders -> [by : {"none", "row", "bulk"}, on : SUBSET Guests]]

VMListInit ==
  /\ rows = [g \in Guests |-> "running"] /\ found = Guests
  /\ picked = {} /\ actionLoading = NoGuest /\ stopping = NoGuest
  /\ bulkAsked = FALSE /\ bulkLoading = FALSE
  /\ order = [o \in Orders |-> NoOrder]
  /\ ticked = {} /\ interleaved = FALSE

\* filteredAndSorted, without its order.
OnScreen == {g \in found : rows[g] # "gone"}

\* Without a guest the list is replaced by a note, and its dialogs are not rendered.
Rendered == \E g \in Guests : rows[g] # "gone"

\* No confirmation covers the list.
Free == Rendered /\ stopping = NoGuest /\ ~bulkAsked

-----------------------------------------------------------------------------
(* Search and ticks.                                                        *)

Search(S) ==
  /\ Free /\ found' = S
  /\ UNCHANGED <<rows, picked, actionLoading, stopping, bulkAsked, bulkLoading, order, ticked, interleaved>>

\* toggleSelect
Tick(g) ==
  /\ Free /\ g \in OnScreen
  /\ IF g \in picked THEN picked' = picked \ {g} /\ ticked' = ticked \ {g}
                     ELSE picked' = picked \cup {g} /\ ticked' = ticked \cup {g}
  /\ UNCHANGED <<rows, found, actionLoading, stopping, bulkAsked, bulkLoading, order, interleaved>>

TickAll_Listed ==
  LET listed == {g \in Guests : rows[g] # "gone"}
      all == listed # {} /\ listed \subseteq picked IN
  /\ Free
  /\ picked' = IF all THEN {} ELSE listed
  /\ ticked' = IF all THEN {} ELSE OnScreen
  /\ UNCHANGED <<rows, found, actionLoading, stopping, bulkAsked, bulkLoading, order, interleaved>>

\* toggleSelectAll: the rows on screen replace what was ticked.
TickAll ==
  LET all == OnScreen # {} /\ OnScreen \subseteq picked IN
  /\ Free
  /\ picked' = IF all THEN {} ELSE OnScreen
  /\ ticked' = IF all THEN {} ELSE OnScreen
  /\ UNCHANGED <<rows, found, actionLoading, stopping, bulkAsked, bulkLoading, order, interleaved>>

\* "Auswahl aufheben", or tags were given to what is ticked.
Untick ==
  /\ Free /\ picked # {} /\ picked' = {} /\ ticked' = {}
  /\ UNCHANGED <<rows, found, actionLoading, stopping, bulkAsked, bulkLoading, order, interleaved>>

-----------------------------------------------------------------------------
(* Orders.                                                                  *)

\* What the menu of a row offers for the state that it shows.
Menu == [running |-> {"shutdown", "stop", "suspend"}, stopped |-> {"start"}, paused |-> {"resume"},
         gone |-> {}]

RowOrders == {o \in Orders : order[o].by = "row"}

\* handleAction: there is one spinner for all rows.
SendForRow(g) ==
  /\ \E o \in Orders : order[o] = NoOrder /\ order' = [order EXCEPT ![o] = [by |-> "row", on |-> {g}]]
  /\ actionLoading' = g
  /\ interleaved' = (interleaved \/ \E o \in RowOrders : order[o].on # {g})

\* A row that shows the spinner has no menu.  A hard stop is confirmed first.
Choose(g, action) ==
  /\ Free /\ g \in OnScreen /\ actionLoading # g
  /\ action \in Menu[rows[g]]
  /\ IF action = "stop"
     THEN stopping' = g /\ UNCHANGED <<actionLoading, order, interleaved>>
     ELSE SendForRow(g) /\ UNCHANGED stopping
  /\ UNCHANGED <<rows, found, picked, bulkAsked, bulkLoading, ticked>>

ConfirmStop ==
  /\ Rendered /\ stopping # NoGuest
  /\ SendForRow(stopping) /\ stopping' = NoGuest
  /\ UNCHANGED <<rows, found, picked, bulkAsked, bulkLoading, ticked>>

CancelDialog ==
  /\ Rendered
  /\ stopping # NoGuest \/ bulkAsked
  /\ stopping' = NoGuest /\ bulkAsked' = FALSE
  /\ UNCHANGED <<rows, found, picked, actionLoading, bulkLoading, order, ticked, interleaved>>

\* The bar of what is ticked offers start, shutdown and stop.
AskBulk ==
  /\ Free /\ picked # {} /\ ~bulkLoading /\ bulkAsked' = TRUE
  /\ UNCHANGED <<rows, found, picked, actionLoading, stopping, bulkLoading, order, ticked, interleaved>>

\* handleBulkAction
RunBulk ==
  /\ Rendered /\ bulkAsked /\ bulkAsked' = FALSE
  /\ picked # {} /\ bulkLoading' = TRUE
  /\ \E o \in Orders : order[o] = NoOrder /\ order' = [order EXCEPT ![o] = [by |-> "bulk", on |-> picked]]
  /\ UNCHANGED <<rows, found, picked, actionLoading, stopping, ticked, interleaved>>

OrderOver(o) == order' = [order EXCEPT ![o] = NoOrder]

RowOver_KeepsSpinner(o) ==
  /\ order[o].by = "row" /\ OrderOver(o)
  /\ actionLoading' = IF order[o].on = {actionLoading} THEN NoGuest ELSE actionLoading
  /\ interleaved' = (interleaved /\ RowOrders # {o})
  /\ UNCHANGED <<rows, found, picked, stopping, bulkAsked, bulkLoading, ticked>>

\* The order is answered, or fails.  The spinner ends, whichever row has it.
RowOver(o) ==
  /\ order[o].by = "row" /\ OrderOver(o)
  /\ actionLoading' = NoGuest
  /\ interleaved' = (interleaved /\ RowOrders # {o})
  /\ UNCHANGED <<rows, found, picked, stopping, bulkAsked, bulkLoading, ticked>>

\* The answer unticks every row, those ticked in the meantime too.
BulkOver(o, failed) ==
  /\ order[o].by = "bulk" /\ OrderOver(o)
  /\ IF failed THEN UNCHANGED <<picked, ticked>> ELSE picked' = {} /\ ticked' = {}
  /\ bulkLoading' = FALSE /\ bulkAsked' = FALSE
  /\ UNCHANGED <<rows, found, actionLoading, stopping, interleaved>>

\* The list is loaded again, two seconds after an order or by the page: guests may have
\* changed, left or come.  A failure empties it.  What is ticked stays.
Refreshed(R) ==
  /\ rows' = R
  /\ UNCHANGED <<found, picked, actionLoading, stopping, bulkAsked, bulkLoading, order, ticked, interleaved>>

VMListNext ==
  \/ \E S \in SUBSET Guests : Search(S)
  \/ \E g \in Guests : Tick(g)
  \/ TickAll \/ Untick
  \/ \E g \in Guests, a \in {"start", "shutdown", "stop", "suspend", "resume"} : Choose(g, a)
  \/ ConfirmStop \/ CancelDialog \/ AskBulk \/ RunBulk
  \/ \E o \in Orders : RowOver(o) \/ \E failed \in BOOLEAN : BulkOver(o, failed)
  \/ \E R \in [Guests -> GuestStates] : Refreshed(R)

VMListSpec == VMListInit /\ [][VMListNext]_vmListVars

-----------------------------------------------------------------------------

\* A bulk order names only guests whose row the user saw when it was ticked, whatever is
\* searched for and loaded since; and a guest has one row order out, unless the orders of
\* two rows were out together: they share one spinner (vm-list.tsx:291).
OrdersAreMeant ==
  /\ bulkAsked => picked \subseteq ticked
  /\ \/ interleaved
     \/ \A o, p \in RowOrders : o # p => order[o].on # order[p].on
=============================================================================
