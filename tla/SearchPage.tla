----------------------------- MODULE SearchPage -----------------------------
(***************************************************************************)
(* The page of the search (search/page.tsx).  What is typed is one of a    *)
(* few terms, each with its match of every item.                           *)
(***************************************************************************)
EXTENDS RowOrder

CONSTANTS SearchItems,   \* the nodes, guests, pages and settings, in their order
          MatchesOf,     \* per term: the match of each item
          MaxSearches    \* how many searches are remembered

ASSUME SearchAssumption ==
  /\ MaxSearches \in Nat \ {0}
  /\ SearchItems \in Seq([id : {SearchItems[i].id : i \in DOMAIN SearchItems},
                           category : {SearchItems[i].category : i \in DOMAIN SearchItems}])
  /\ \A i, j \in DOMAIN SearchItems : SearchItems[i].id = SearchItems[j].id => i = j
  /\ \A t \in DOMAIN MatchesOf :
       MatchesOf[t] \in [{SearchItems[i].id : i \in DOMAIN SearchItems} -> DOMAIN ScoreOf]
  /\ Blank \notin DOMAIN MatchesOf

VARIABLES query,
          debouncedQuery,   \* what was typed 200 ms ago
          activeCategory,
          selectedIndex,    \* of the row that is marked, from 0; -1: none
          recentSearches,
          listed,           \* the store has the nodes and their guests
          itemsMoved        \* history: they came or went since the mark was taken away

searchVars == <<query, debouncedQuery, activeCategory, selectedIndex, recentSearches, listed, itemsMoved>>

Terms == DOMAIN MatchesOf
SearchCategories == {"nodes", "vms", "navigation", "settings", "alerts"}

SearchTypeOK ==
  /\ query \in Terms \cup {Blank} /\ debouncedQuery \in Terms \cup {Blank}
  /\ activeCategory \in SearchCategories \cup {"all"}
  /\ selectedIndex \in -1..Len(SearchItems)
  /\ Range(recentSearches) \subseteq Terms
  /\ listed \in BOOLEAN /\ itemsMoved \in BOOLEAN

SearchInit ==
  /\ query = Blank /\ debouncedQuery = Blank /\ activeCategory = "all" /\ selectedIndex = -1
  /\ recentSearches = <<>> /\ listed = FALSE /\ itemsMoved = FALSE

-----------------------------------------------------------------------------

AllItems == Kept(SearchItems, {i \in DOMAIN SearchItems : SearchItems[i].category \in {"nodes", "vms"} => listed})

InCategory == LET rows == AllItems IN Kept(rows, {i \in DOMAIN rows : activeCategory \in {"all", rows[i].category}})

Results == IF debouncedQuery = Blank THEN InCategory ELSE Ranked(InCategory, MatchesOf[debouncedQuery])

\* The categories in the order of their best rows.
FlatResults == LET rows == Results IN GroupedBy(rows, FirstSeen(rows))

-----------------------------------------------------------------------------

\* A term that is typed, suggested or was searched for; Escape and the cross clear it.
SetQuery(q) ==
  /\ query' = q
  /\ UNCHANGED <<debouncedQuery, activeCategory, selectedIndex, recentSearches, listed, itemsMoved>>

SearchAgain(i) == query = Blank /\ SetQuery(recentSearches[i])

NoMark == selectedIndex' = -1 /\ itemsMoved' = FALSE

Debounce ==
  /\ debouncedQuery # query /\ debouncedQuery' = query /\ NoMark
  /\ UNCHANGED <<query, activeCategory, recentSearches, listed>>

SetCategory(c) ==
  /\ activeCategory # c /\ activeCategory' = c /\ NoMark
  /\ UNCHANGED <<query, debouncedQuery, recentSearches, listed>>

\* The arrows go round, whether or not the rows are shown.
MoveMark(up) ==
  /\ LET last == Len(FlatResults) - 1 IN
     selectedIndex' = IF up THEN (IF selectedIndex > 0 THEN selectedIndex - 1 ELSE last)
                      ELSE (IF selectedIndex < last THEN selectedIndex + 1 ELSE 0)
  /\ UNCHANGED <<query, debouncedQuery, activeCategory, recentSearches, listed, itemsMoved>>

\* handleSelect leaves the page; it starts again with what was searched for.
HandleSelect ==
  /\ recentSearches' = IF query = Blank THEN recentSearches ELSE ToFront(recentSearches, query, MaxSearches)
  /\ query' = Blank /\ debouncedQuery' = Blank /\ activeCategory' = "all" /\ NoMark
  /\ UNCHANGED listed

\* handleSearch: the row that is marked, or the first; none if the mark is past the rows.
Target == IF selectedIndex >= 0 THEN selectedIndex + 1 ELSE 1

EnterInSearch == Target \in DOMAIN FlatResults /\ HandleSelect

ClickInSearch == query # Blank /\ FlatResults # <<>> /\ HandleSelect

RemoveSearch(i) ==
  /\ query = Blank
  /\ recentSearches' = Kept(recentSearches, {j \in DOMAIN recentSearches : recentSearches[j] # recentSearches[i]})
  /\ UNCHANGED <<query, debouncedQuery, activeCategory, selectedIndex, listed, itemsMoved>>

ClearSearches ==
  /\ query = Blank /\ recentSearches # <<>> /\ recentSearches' = <<>>
  /\ UNCHANGED <<query, debouncedQuery, activeCategory, selectedIndex, listed, itemsMoved>>

\* The store gets the nodes and the guests, or loses them.
ItemsChange ==
  /\ listed' = ~listed /\ itemsMoved' = TRUE
  /\ UNCHANGED <<query, debouncedQuery, activeCategory, selectedIndex, recentSearches>>

SearchNext ==
  \/ \E q \in Terms \cup {Blank} : SetQuery(q)
  \/ \E i \in DOMAIN recentSearches : SearchAgain(i) \/ RemoveSearch(i)
  \/ Debounce
  \/ \E c \in SearchCategories \cup {"all"} : SetCategory(c)
  \/ \E up \in BOOLEAN : MoveMark(up)
  \/ EnterInSearch \/ ClickInSearch \/ ClearSearches \/ ItemsChange

SearchSpec == SearchInit /\ [][SearchNext]_searchVars

-----------------------------------------------------------------------------

\* Once the results are those of what is typed, Enter opens the row that is marked, or
\* else one that nothing on the page matches better, unless the rows changed under the
\* mark; in each category the better match comes first, and a search is remembered once.
EnterOpensBest ==
  LET rows == FlatResults
      Score(i) == ScoreOf[MatchesOf[query][rows[i].id]] IN
  /\ query # Blank /\ query = debouncedQuery /\ rows # <<>> =>
       /\ Target \in DOMAIN rows \/ itemsMoved
       /\ selectedIndex = -1 => \A i \in DOMAIN rows : Score(Target) >= Score(i)
  /\ debouncedQuery # Blank => OrderedInCategories(rows, MatchesOf[debouncedQuery])
  /\ IsSet(recentSearches) /\ IsSet(rows)
=============================================================================
