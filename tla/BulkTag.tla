------------------------------ MODULE BulkTag ------------------------------
(***************************************************************************)
(* The dialog that gives a tag to many VMs, or takes it from them          *)
(* (components/tags/bulk-tag-dialog.tsx).  A handler of React belongs to   *)
(* the render that made it: what it sets is seen by the next render's      *)
(* handlers, not by the rest of its own.                                   *)
(***************************************************************************)
CONSTANTS Machines, Labels, NoLabel

VARIABLES shown,       \* open
          collecting,  \* loading: the tags and the VMs are being fetched
          label,       \* selectedTagId
          picked,      \* selectedVMs
          mode,        \* of the last render
          operating,
          bulks,       \* bulk requests that are out: the button, the route, what they carry
          dismissals   \* a timeout that will close the dialog is pending

bulkVars == <<shown, collecting, label, picked, mode, operating, bulks, dismissals>>

Modes == {"assign", "remove"}
BulkTypeOK ==
  /\ shown \in BOOLEAN /\ collecting \in BOOLEAN /\ operating \in BOOLEAN /\ dismissals \in BOOLEAN
  /\ label \in Labels \cup {NoLabel} /\ picked \subseteq Machines /\ mode \in Modes
  /\ bulks \subseteq [button : Modes, route : Modes, tag : Labels, vms : SUBSET Machines]

BulkInit ==
  /\ shown = FALSE /\ collecting = FALSE /\ operating = FALSE /\ dismissals = FALSE
  /\ label = NoLabel /\ picked = {} /\ mode = "assign" /\ bulks = {}

\* The effect of `open`: all is reset, the data is fetched (nothing preselected).
OpenBulk ==
  /\ ~shown /\ shown' = TRUE
  /\ collecting' = TRUE /\ operating' = FALSE /\ mode' = "assign"
  /\ label' = NoLabel /\ picked' = {}
  /\ UNCHANGED <<bulks, dismissals>>

CloseBulk ==
  /\ shown /\ shown' = FALSE
  /\ UNCHANGED <<collecting, label, picked, mode, operating, bulks, dismissals>>

Collected ==
  /\ collecting /\ collecting' = FALSE
  /\ UNCHANGED <<shown, label, picked, mode, operating, bulks, dismissals>>

\* The lists are there once the data is.
PickLabel(g) ==
  /\ shown /\ ~collecting /\ label' = g
  /\ UNCHANGED <<shown, collecting, picked, mode, operating, bulks, dismissals>>

\* toggleVM.
Toggle(v) ==
  /\ shown /\ ~collecting
  /\ picked' = (picked \ {v}) \cup ({v} \ picked)
  /\ UNCHANGED <<shown, collecting, label, mode, operating, bulks, dismissals>>

\* A click on the button of b: setMode(b), and handleExecute of the same render,
\* which reads the mode of that render.
Click(b) ==
  /\ shown /\ label # NoLabel /\ picked # {} /\ ~operating
  /\ mode' = b /\ operating' = TRUE
  /\ bulks' = bulks \cup {[button |-> b, route |-> mode, tag |-> label, vms |-> picked]}
  /\ UNCHANGED <<shown, collecting, label, picked, dismissals>>

\* Success leaves the dialog open for half a second more, an error for good.
BulkAnswered(r) ==
  /\ r \in bulks /\ bulks' = bulks \ {r}
  /\ operating' = FALSE /\ dismissals' \in {dismissals, TRUE}
  /\ UNCHANGED <<shown, collecting, label, picked, mode>>

\* The timeout closes the dialog, be it the one of the next visit.
Dismissed ==
  /\ dismissals /\ dismissals' = FALSE /\ shown' = FALSE
  /\ UNCHANGED <<collecting, label, picked, mode, operating, bulks>>

BulkNext ==
  \/ OpenBulk \/ CloseBulk \/ Collected \/ Dismissed
  \/ \E g \in Labels : PickLabel(g)
  \/ \E v \in Machines : Toggle(v)
  \/ \E b \in Modes : Click(b)
  \/ \E r \in bulks : BulkAnswered(r)

BulkSpec == BulkInit /\ [][BulkNext]_bulkVars

-----------------------------------------------------------------------------

\* The button "Tag entfernen" (bulk-tag-dialog.tsx:497) removes the tag and the
\* other one assigns it: a request takes the route of the button that was clicked.
DoesWhatTheButtonSays == \A r \in bulks : r.route = r.button
=============================================================================
