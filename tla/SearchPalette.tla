--------------------------- MODULE SearchPalette ---------------------------
(***************************************************************************)
(* The search palette over every page (search-command.tsx).                *)
(***************************************************************************)
EXTENDS RowOrder

CONSTANTS PaletteItems,   \* the nodes, pages, actions and settings, in their order; what
                          \* has the same path leads to the same page
          PaletteTerms,   \* what may be typed: the match of each item with it
          MaxRecent

\* The order of the categories.
CategoryOrder == [recent |-> 1, nodes |-> 2, vms |-> 3, navigation |-> 4, actions |-> 5, settings |-> 6]

ASSUME PaletteAssumption ==
  /\ MaxRecent \in Nat \ {0}
  /\ PaletteItems \in Seq([id : {PaletteItems[i].id : i \in DOMAIN PaletteItems},
                            path : {PaletteItems[i].path : i \in DOMAIN PaletteItems},
                            category : DOMAIN CategoryOrder \ {"recent"}])
  /\ \A i, j \in DOMAIN PaletteItems : PaletteItems[i].id = PaletteItems[j].id => i = j
  /\ PaletteTerms \subseteq [{PaletteItems[i].id : i \in DOMAIN PaletteItems} -> DOMAIN ScoreOf]

VARIABLES paletteOpen,
          typedIn,        \* the match of each item with what is typed, or Blank
          activeIndex,    \* of the row that is marked, from 0
          recentPaths,
          nodesKnown,     \* the store has the nodes
          rowsMoved       \* history: the nodes came or went since something was typed

paletteVars == <<paletteOpen, typedIn, activeIndex, recentPaths, nodesKnown, rowsMoved>>

PalettePaths == {PaletteItems[i].path : i \in DOMAIN PaletteItems}

PaletteTypeOK ==
  /\ paletteOpen \in BOOLEAN /\ nodesKnown \in BOOLEAN /\ rowsMoved \in BOOLEAN
  /\ typedIn \in PaletteTerms \cup {Blank}
  /\ activeIndex \in -1..(2 * Len(PaletteItems))
  /\ Range(recentPaths) \subseteq PalettePaths

PaletteInit ==
  /\ paletteOpen = FALSE /\ typedIn = Blank /\ activeIndex = 0
  /\ recentPaths = <<>> /\ nodesKnown = FALSE /\ rowsMoved = FALSE

-----------------------------------------------------------------------------

KnownItems ==
  Kept(PaletteItems, {i \in DOMAIN PaletteItems : PaletteItems[i].category = "nodes" => nodesKnown})

\* A path that was visited is shown first of all, and once more, by the page, the node or
\* the setting that has it; not by an action.
RecentRows(items) ==
  LET At(path) == {j \in DOMAIN items : items[j].path = path /\ items[j].category # "actions"}
      paths == Kept(recentPaths, {i \in DOMAIN recentPaths : At(recentPaths[i]) # {}}) IN
  [k \in DOMAIN paths |-> [items[Min(At(paths[k]))] EXCEPT !.category = "recent"]]

AllRows == LET items == KnownItems IN RecentRows(items) \o items

Found ==
  LET rows == AllRows IN
  IF typedIn = Blank
  THEN Kept(rows, {i \in DOMAIN rows : rows[i].category \in {"recent", "navigation", "actions"}})
  ELSE Ranked(rows, typedIn)

PaletteRows == GroupedBy(Found, CategoryOrder)

-----------------------------------------------------------------------------

\* Ctrl+K opens the palette, with nothing typed, or closes it; Escape and a click beside
\* it close it.
TogglePalette ==
  /\ paletteOpen' = ~paletteOpen
  /\ IF ~paletteOpen THEN typedIn' = Blank /\ activeIndex' = 0 /\ rowsMoved' = FALSE
     ELSE UNCHANGED <<typedIn, activeIndex, rowsMoved>>
  /\ UNCHANGED <<recentPaths, nodesKnown>>

\* Only typing marks the first row again: the effect depends on the query.
TypeInPalette(t) ==
  /\ paletteOpen /\ t # typedIn
  /\ typedIn' = t /\ activeIndex' = 0 /\ rowsMoved' = FALSE
  /\ UNCHANGED <<paletteOpen, recentPaths, nodesKnown>>

\* The arrows stop at both ends.
MovePalette(up) ==
  /\ paletteOpen
  /\ LET last == Len(PaletteRows) - 1 IN
     activeIndex' = IF up THEN (IF activeIndex < 1 THEN 0 ELSE activeIndex - 1)
                    ELSE (IF activeIndex + 1 < last THEN activeIndex + 1 ELSE last)
  /\ UNCHANGED <<paletteOpen, typedIn, recentPaths, nodesKnown, rowsMoved>>

\* The mouse marks the row that it enters.
PointAt(i) ==
  /\ paletteOpen /\ i + 1 \in DOMAIN PaletteRows /\ activeIndex' = i
  /\ UNCHANGED <<paletteOpen, typedIn, recentPaths, nodesKnown, rowsMoved>>

\* execute: the path is remembered, of an action too.
Execute(row) ==
  /\ paletteOpen' = FALSE
  /\ recentPaths' = ToFront(recentPaths, row.path, MaxRecent)
  /\ UNCHANGED <<typedIn, activeIndex, nodesKnown, rowsMoved>>

\* Enter opens the row that is marked, a click the row it hits.
EnterInPalette ==
  /\ paletteOpen /\ activeIndex + 1 \in DOMAIN PaletteRows
  /\ Execute(PaletteRows[activeIndex + 1])

ClickInPalette == paletteOpen /\ \E i \in DOMAIN PaletteRows : Execute(PaletteRows[i])

\* The store loads the nodes, or a load of it fails or is for another user.
NodesChange ==
  /\ nodesKnown' = ~nodesKnown /\ rowsMoved' = TRUE
  /\ UNCHANGED <<paletteOpen, typedIn, activeIndex, recentPaths>>

PaletteNext ==
  \/ TogglePalette \/ \E t \in PaletteTerms \cup {Blank} : TypeInPalette(t)
  \/ \E up \in BOOLEAN : MovePalette(up)
  \/ \E i \in 0..(2 * Len(PaletteItems) - 1) : PointAt(i)
  \/ EnterInPalette \/ ClickInPalette \/ NodesChange

PaletteSpec == PaletteInit /\ [][PaletteNext]_paletteVars

-----------------------------------------------------------------------------

\* While there are rows one of them is marked, which Enter opens, unless the rows changed
\* under the mark, or an arrow moved it when there were none; in each category the better
\* match comes first; and what was visited is remembered once.
PaletteIsUsable ==
  paletteOpen =>
    LET rows == PaletteRows IN
    /\ ~rowsMoved /\ rows # <<>> => activeIndex + 1 \in DOMAIN rows
    /\ typedIn # Blank => OrderedInCategories(rows, typedIn)
    /\ IsSet(recentPaths) /\ IsSet(rows)
=============================================================================
