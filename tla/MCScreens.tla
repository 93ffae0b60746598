----------------------------- MODULE MCScreens -----------------------------
(* The screens of the console for TLC.  They do not read what another one
   keeps, so a behaviour is one of a single screen, chosen at the start: a
   record of ScreenTable, of EditForms or of RowActions, or one of the screens
   with a module of their own; the variables of the others keep one fixed
   value. *)
EXTENDS ListScreens, EditForms, VMList, TopologyMap, SearchPalette, SearchPage, MigrationForm,
        NodeGauges, VMAssistant, VMShell, LogTail, RowActions, TLC

CONSTANT ScreenKinds

VARIABLE kind    \* the one in use

screensVars == <<kind, listVars, formVars, vmListVars, mapVars, paletteVars, searchVars,
                 migrationFormVars, gaugeVars, assistantVars, shellVars, logTailVars,
                 rowVars>>

ScreensInit ==
  /\ kind \in ScreenKinds
  /\ ListInit /\ (kind # "screen" => screen = NodeStore)
  /\ FormInit /\ (kind # "form" => form = Dialog)
  /\ VMListInit /\ MapInit /\ PaletteInit /\ SearchInit /\ MigrationFormInit /\ GaugesInit
  /\ AssistantInit /\ ShellInit /\ LogTailInit
  /\ RowInit /\ (kind # "rows" => table = Plain)

ScreensNext ==
  /\ UNCHANGED kind
  /\ IF kind = "screen" THEN ListNext ELSE UNCHANGED listVars
  /\ IF kind = "form" THEN FormNext ELSE UNCHANGED formVars
  /\ IF kind = "vms" THEN VMListNext ELSE UNCHANGED vmListVars
  /\ IF kind = "map" THEN MapNext ELSE UNCHANGED mapVars
  /\ IF kind = "palette" THEN PaletteNext ELSE UNCHANGED paletteVars
  /\ IF kind = "search" THEN SearchNext ELSE UNCHANGED searchVars
  /\ IF kind = "migrations" THEN MigrationFormNext ELSE UNCHANGED migrationFormVars
  /\ IF kind = "gauges" THEN GaugesNext ELSE UNCHANGED gaugeVars
  /\ IF kind = "assistant" THEN AssistantNext ELSE UNCHANGED assistantVars
  /\ IF kind = "shell" THEN ShellNext ELSE UNCHANGED shellVars
  /\ IF kind = "tail" THEN LogTailNext ELSE UNCHANGED logTailVars
  /\ IF kind = "rows" THEN RowNext ELSE UNCHANGED rowVars

ScreensSpec == ScreensInit /\ [][ScreensNext]_screensVars

\* What the user has not asked for is not ordered: the orders of a list of guests and the
\* request of the assistant for migrations are for the objects that were picked for them,
\* a command of the cockpit's assistant does not run a second time over a first click, and
\* a row of a table that shows an order is ordered once, from the confirmation of it.
ActionsAreMeant ==
  OrdersAreMeant /\ MigrationIsMeant /\ CommandsRunOnce /\ RowsAreOrderedOnce /\ ConfirmationsAreKept

\* What a view says agrees with what it has: a cluster is called operative only when every
\* node said so, and the views that hold a conversation or a connection do not show another
\* one than they have, or keep it behind.
ViewsAreTrue == GaugesAreTrue /\ AssistantIsTrue /\ ShellIsTrue /\ LogTailIsTrue

\* What is drawn or found is all there is: no thing of the map is drawn twice or without its
\* host, and the row that Enter opens in a search is there and nothing matches better.
MapAndSearchesAreTrue == MapIsWhole /\ PaletteIsUsable /\ EnterOpensBest

\* Two hosts: one with a guest of each kind, a storage and a bridge; one with a guest.
TwoHosts == <<"h1", "h2">>
FiveThings ==
  << [id |-> "a1", host |-> "h1", type |-> "vm"], [id |-> "a2", host |-> "h1", type |-> "ct"],
     [id |-> "a3", host |-> "h2", type |-> "vm"], [id |-> "s1", host |-> "h1", type |-> "storage"],
     [id |-> "b1", host |-> "h1", type |-> "network"] >>

\* One item of each category of the palette; a page and an action with the same path.
InPalette ==
  << [id |-> "node1", category |-> "nodes", path |-> "/n1"],
     [id |-> "nav1", category |-> "navigation", path |-> "/b"],
     [id |-> "act1", category |-> "actions", path |-> "/b"],
     [id |-> "set1", category |-> "settings", path |-> "/s"] >>

\* Every match of the page and the action, with few of the others.
PaletteMatches ==
  {[node1 |-> m, nav1 |-> p, act1 |-> a, set1 |-> "text"] :
     m \in {"none", "letters"}, p \in DOMAIN ScoreOf, a \in {"none", "letters", "name"}}

\* The items of the page, and three terms that find other ones of them.
OnPage ==
  << [id |-> "n1", category |-> "nodes"], [id |-> "v1", category |-> "vms"], [id |-> "v2", category |-> "vms"],
     [id |-> "p1", category |-> "navigation"], [id |-> "s1", category |-> "settings"] >>

ThreeTerms ==
  [t1 |-> [n1 |-> "letters", v1 |-> "none", v2 |-> "name", p1 |-> "text", s1 |-> "none"],
   t2 |-> [n1 |-> "none", v1 |-> "text", v2 |-> "letters", p1 |-> "name", s1 |-> "name"],
   t3 |-> [n1 |-> "name", v1 |-> "none", v2 |-> "none", p1 |-> "none", s1 |-> "none"]]

Symmetry == Permutations(Changes) \cup Permutations(RowGets)
=============================================================================
