------------------------------ MODULE RowOrder ------------------------------
(***************************************************************************)
(* What the console makes of a list by filters, stable sorts and groups.   *)
(* Each is the rows at some of the places, in an order of these places;    *)
(* the two searches (search-command.tsx, search/page.tsx) and the map of   *)
(* the cluster (topology-map.tsx) are put together from these.             *)
(***************************************************************************)
EXTENDS SequencesExt

CONSTANT Blank   \* nothing typed

\* The rows at the places of I, in the strict order `ahead` of the places.
Arrange(rows, I, ahead) ==
  LET rank == [i \in I |-> Cardinality({j \in I : <<j, i>> \in ahead})] IN
  [k \in 1..Cardinality(I) |-> rows[CHOOSE i \in I : rank[i] = k - 1]]

\* filter: the order stays.
Kept(rows, I) == Arrange(rows, I, {e \in I \X I : e[1] < e[2]})

\* Lists one after the other.
Joined(lists) ==
  LET I == UNION {{i} \X DOMAIN lists[i] : i \in DOMAIN lists}
      Ahead(d, e) == d[1] < e[1] \/ (d[1] = e[1] /\ d[2] < e[2]) IN
  Arrange([e \in I |-> lists[e[1]][e[2]]], I, {d \in I \X I : Ahead(d[1], d[2])})

-----------------------------------------------------------------------------
(* Searches.  A row is a record with an id and a category; what is typed is *)
(* abstracted to the score of each item.                                    *)

\* scoreMatch: the strongest way in which an item matches; 0 does not.  "name": the name
\* equals, starts with or contains what is typed, "text": the description or a tag does,
\* "letters": only its letters occur in that order.
ScoreOf == [none |-> 0, letters |-> 1, text |-> 2, name |-> 3]

\* The rows that match, the best first; equal ones in their order.
Ranked(rows, typed) ==
  LET score(i) == ScoreOf[typed[rows[i].id]]
      Ahead(i, j) == score(i) > score(j) \/ (score(i) = score(j) /\ i < j)
      I == {i \in DOMAIN rows : score(i) > 0} IN
  Arrange(rows, I, {e \in I \X I : Ahead(e[1], e[2])})

\* Rows put together by category; the categories have different places.
GroupedBy(rows, place) ==
  LET group(i) == place[rows[i].category]
      Ahead(i, j) == group(i) < group(j) \/ (group(i) = group(j) /\ i < j)
      I == DOMAIN rows IN
  Arrange(rows, I, {e \in I \X I : Ahead(e[1], e[2])})

\* The place of a category is that of its first row.
FirstSeen(rows) ==
  [c \in {rows[i].category : i \in DOMAIN rows} |-> Min({i \in DOMAIN rows : rows[i].category = c})]

\* Of two rows of one category, the one that scores more comes first.
OrderedInCategories(rows, typed) ==
  \A i, j \in DOMAIN rows : i < j /\ rows[i].category = rows[j].category
                              => ScoreOf[typed[rows[i].id]] >= ScoreOf[typed[rows[j].id]]

ToFront_AndStays(list, x, n) ==
  LET new == <<x>> \o list IN SubSeq(new, 1, IF Len(new) < n THEN Len(new) ELSE n)

\* x moves to the front of a list without repetitions, which keeps the first n.
ToFront(list, x, n) ==
  LET new == <<x>> \o Kept(list, {i \in DOMAIN list : list[i] # x}) IN
  SubSeq(new, 1, IF Len(new) < n THEN Len(new) ELSE n)

IsSet(list) == \A i, j \in DOMAIN list : i # j => list[i] # list[j]
=============================================================================
