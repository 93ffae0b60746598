---------------------------- MODULE ListScreens ----------------------------
(***************************************************************************)
(* The screens of the console that list rows of the server and change      *)
(* them: pages, dialogs and stores, each a record of ScreenTable.  One of  *)
(* them is chosen at the start; its requests overlap and are answered in   *)
(* any order, or not at all.                                               *)
(*                                                                         *)
(* A list is abstracted to the object whose rows it has and the changes    *)
(* made through the screen that are visible in it.  An effect of React     *)
(* runs with the change that triggers it.                                  *)
(***************************************************************************)
EXTENDS ScreenTable

CONSTANTS Subjects, NoSubject,
          Changes,            \* bound: the changes that are made
          RowGets               \* bound: the listings that are out at a time

ASSUME NoSubjectAssumption == NoSubject \notin Subjects

VARIABLES screen,     \* the record of the screen
          subject,    \* the object it is open for, or NoSubject: closed or left
          list,       \* what is displayed: whose rows, the changes in them, a row twice
          loading,    \* its isLoading
          rowListing, \* per slot: a listing that is out
          change,     \* per change: what has become of it
          serverRows, \* server: per object, the changes made to its rows
          rowsCrossed, \* history: see Crossing
          leftover,   \* history: rows stayed because a listing of another object failed
          outdated    \* history: a listing failed, or was older than a change already heard of

listVars == <<screen, subject, list, loading, rowListing, change, serverRows,
              rowsCrossed, leftover, outdated>>

Kinds == {"create", "update", "delete"}

NoList == [of |-> NoSubject, has |-> {}, twice |-> FALSE]
NoListing == [phase |-> "none", of |-> NoSubject, has |-> {}, late |-> FALSE]
NoChange == [phase |-> "idle", kind |-> "create", of |-> NoSubject, follow |-> {}]

ListTypeOK ==
  /\ screen \in Screens
  /\ subject \in Subjects \cup {NoSubject}
  /\ list \in [of : Subjects \cup {NoSubject}, has : SUBSET Changes, twice : BOOLEAN]
  /\ loading \in BOOLEAN
  /\ rowListing \in [RowGets -> [phase : {"none", "asked", "taken"}, of : Subjects \cup {NoSubject},
                            has : SUBSET Changes, late : BOOLEAN]]
  /\ change \in [Changes -> [phase : {"idle", "sent", "made", "over"}, kind : Kinds,
                             of : Subjects \cup {NoSubject}, follow : SUBSET {"copy", "list"}]]
  /\ serverRows \in [Subjects -> SUBSET Changes]
  /\ rowsCrossed \in BOOLEAN /\ leftover \in BOOLEAN /\ outdated \in BOOLEAN

ListInit ==
  /\ screen \in Screens
  /\ subject = NoSubject /\ list = NoList /\ loading = FALSE
  /\ rowListing = [s \in RowGets |-> NoListing]
  /\ change = [c \in Changes |-> NoChange]
  /\ serverRows = [o \in Subjects |-> {}]
  /\ rowsCrossed = FALSE /\ leftover = FALSE /\ outdated = FALSE

-----------------------------------------------------------------------------
(* Listings.                                                                *)

Out(L) == {s \in RowGets : L[s].phase # "none"}

\* Answers for different objects may now come in any order, or the one that is
\* asked for is not that of the object the screen is open for.
Crossing(L, of) == \/ \E s \in Out(L) : L[s].of # of
                   \/ rowsCrossed /\ Out(L) # {}
                   \/ of # subject'

AskRows_Quietly(of, L) ==
  /\ \E s \in RowGets \ Out(L) :
       rowListing' = [r \in RowGets |->
                     IF r = s THEN [NoListing EXCEPT !.phase = "asked", !.of = of]
                     ELSE [L[r] EXCEPT !.late = r \in Out(L) /\ screen.latest]]
  /\ rowsCrossed' = (~screen.latest /\ Crossing(L, of))
  /\ UNCHANGED loading

\* The rows of `of` are asked for, besides what is out in L.  A screen that drops
\* late answers lets only this one through from now on.
AskRows(of, L) ==
  /\ \E s \in RowGets \ Out(L) :
       rowListing' = [r \in RowGets |->
                     IF r = s THEN [NoListing EXCEPT !.phase = "asked", !.of = of]
                     ELSE [L[r] EXCEPT !.late = r \in Out(L) /\ screen.latest]]
  /\ loading' = TRUE
  /\ rowsCrossed' = (~screen.latest /\ Crossing(L, of))

\* The server answers with the rows as they are now.
Serve(s) ==
  /\ rowListing[s].phase = "asked"
  /\ rowListing' = [rowListing EXCEPT ![s].phase = "taken", ![s].has = serverRows[rowListing[s].of]]
  /\ UNCHANGED <<screen, subject, list, loading, change, serverRows, rowsCrossed, leftover, outdated>>

\* The changes of object o that the screen has heard of.
Heard(o) == {c \in serverRows[o] : change[c].phase = "over" /\ change[c].follow # {}}

\* The answer replaces the list.
RowsListed(s) ==
  LET r == rowListing[s] IN
  /\ r.phase = "taken" /\ ~r.late
  /\ rowListing' = [rowListing EXCEPT ![s] = NoListing]
  /\ list' = [of |-> r.of, has |-> r.has, twice |-> FALSE]
  /\ loading' = FALSE /\ leftover' = FALSE
  /\ outdated' = ~(Heard(r.of) \subseteq r.has)
  /\ UNCHANGED <<screen, subject, change, serverRows, rowsCrossed>>

\* It fails: the list stays, or is cleared.
ListFails(s) ==
  LET r == rowListing[s] IN
  /\ r.phase # "none" /\ ~r.late
  /\ rowListing' = [rowListing EXCEPT ![s] = NoListing]
  /\ IF screen.fails = "clears"
     THEN list' = NoList /\ leftover' = FALSE
     ELSE UNCHANGED list /\ leftover' = (list.of # NoSubject /\ (leftover \/ list.of # r.of))
  /\ loading' = FALSE /\ outdated' = TRUE
  /\ UNCHANGED <<screen, subject, change, serverRows, rowsCrossed>>

\* It comes too late for a screen that checks.
ListDropped(s) ==
  /\ rowListing[s].late
  /\ rowListing' = [rowListing EXCEPT ![s] = NoListing]
  /\ UNCHANGED <<screen, subject, list, loading, change, serverRows, rowsCrossed, leftover, outdated>>

-----------------------------------------------------------------------------
(* The user.                                                                *)

\* The object of a screen that has only one.
TheOne == CHOOSE o \in Subjects : TRUE

Open_NotAsking(o) ==
  /\ o # subject /\ (screen.one => o = TheOne)
  /\ screen.holds = "page" => subject = NoSubject
  /\ subject' = o
  /\ UNCHANGED <<screen, list, loading, rowListing, change, serverRows, rowsCrossed, leftover, outdated>>

\* The screen is opened for object o, or its selection moves to o; a page has the
\* object in its route and is built again for another.
Open(o) ==
  /\ o # subject /\ (screen.one => o = TheOne)
  /\ screen.holds = "page" => subject = NoSubject
  /\ subject' = o
  /\ AskRows(o, rowListing)
  /\ list' = IF screen.empties THEN NoList ELSE list
  /\ UNCHANGED <<screen, change, serverRows, leftover, outdated>>

\* It is closed or left.  What a page keeps is gone, with the answers it waited for;
\* a dialog stays mounted, and a store outlives all pages.
Close ==
  /\ subject # NoSubject /\ ~screen.stays
  /\ subject' = NoSubject
  /\ IF screen.holds = "page"
     THEN /\ list' = NoList /\ loading' = FALSE
          /\ rowListing' = [s \in RowGets |-> NoListing]
          /\ change' = [c \in Changes |-> [change[c] EXCEPT !.follow = {}]]
     ELSE UNCHANGED <<list, loading, rowListing, change>>
  /\ UNCHANGED <<screen, serverRows, rowsCrossed, leftover, outdated>>

\* A button, or a timer, lists again.
Again ==
  /\ subject # NoSubject
  /\ screen.again = "always" \/ (screen.again = "idle" /\ ~loading)
  /\ UNCHANGED <<screen, subject, list, change, serverRows, leftover, outdated>>
  /\ AskRows(subject, rowListing)

\* A row is created, changed or deleted; the request names the open object.
Start(c) ==
  /\ subject # NoSubject /\ change[c].phase = "idle"
  /\ \E k \in Kinds :
       /\ screen[k] # Lacks
       /\ k \in screen.busy => ~\E d \in Changes : change[d].kind = k /\ change[d].phase \in {"sent", "made"}
       /\ k # "create" => list.of # NoSubject /\ ~(screen.hides /\ loading)
       /\ change' = [change EXCEPT ![c] = [phase |-> "sent", kind |-> k, of |-> subject,
                                           follow |-> screen[k]]]
  /\ UNCHANGED <<screen, subject, list, loading, rowListing, serverRows, rowsCrossed, leftover, outdated>>

-----------------------------------------------------------------------------
(* Changes.                                                                 *)

Make(c) ==
  /\ change[c].phase = "sent"
  /\ change' = [change EXCEPT ![c].phase = "made"]
  /\ serverRows' = [serverRows EXCEPT ![change[c].of] = @ \cup {c}]
  /\ UNCHANGED <<screen, subject, list, loading, rowListing, rowsCrossed, leftover, outdated>>

\* What is remembered of a change: whether it has been followed up.
Over(follow) == [NoChange EXCEPT !.phase = "over", !.follow = follow]

\* The same change in the list: a new row is added to it, whether it is there or not.
Copied(c) ==
  IF list.of = change[c].of
  THEN [list EXCEPT !.has = @ \cup {c},
                    !.twice = @ \/ (change[c].kind = "create" /\ c \in list.has)]
  ELSE list

ChangeAnswered_CopiesOnly(c) ==
  /\ change[c].phase = "made"
  /\ change' = [change EXCEPT ![c] = Over(@.follow)]
  /\ list' = IF "copy" \in change[c].follow THEN Copied(c) ELSE list
  /\ UNCHANGED <<screen, subject, rowListing, loading, serverRows, rowsCrossed, leftover, outdated>>

\* The answer of a change is followed up: its object's list is changed, then listed.
ChangeAnswered(c) ==
  LET relists == "list" \in change[c].follow IN
  /\ change[c].phase = "made"
  /\ change' = [change EXCEPT ![c] = Over(@.follow)]
  /\ list' = IF "copy" \in change[c].follow THEN Copied(c) ELSE list
  /\ subject' = IF relists /\ screen.reopens THEN change[c].of ELSE subject
  /\ IF relists THEN AskRows(IF screen.stays THEN subject ELSE change[c].of, rowListing)
     ELSE UNCHANGED <<rowListing, loading, rowsCrossed>>
  /\ UNCHANGED <<screen, serverRows, leftover, outdated>>

\* An error, before or after the change was made.
ChangeFails(c) ==
  /\ change[c].phase \in {"sent", "made"}
  /\ change' = [change EXCEPT ![c] = Over({})]
  /\ UNCHANGED <<screen, subject, list, loading, rowListing, serverRows, rowsCrossed, leftover, outdated>>

ListNext ==
  \/ \E o \in Subjects : Open(o)
  \/ Close \/ Again
  \/ \E s \in RowGets : Serve(s) \/ RowsListed(s) \/ ListFails(s) \/ ListDropped(s)
  \/ \E c \in Changes : Start(c) \/ Make(c) \/ ChangeAnswered(c) \/ ChangeFails(c)

ListSpec == ListInit /\ [][ListNext]_listVars

-----------------------------------------------------------------------------
(* Properties.                                                              *)

Quiet == Out(rowListing) = {} /\ \A c \in Changes : change[c].phase \in {"idle", "over"}

\* When nothing is out, a screen shows the object it is open for, or nothing: unless
\* listings of two objects were out together and nothing tells them apart, or a
\* failed one left the rows of the object before.
QuietScreenIsOfItsSubject ==
  Quiet /\ subject # NoSubject /\ ~rowsCrossed /\ ~leftover => list.of \in {subject, NoSubject}

\* When nothing is out, every change that the screen has heard of is in its list,
\* and no row is there twice, except where a created row is only added to the list:
\* unless a listing failed, or an older one came after the change's answer.
QuietScreenIsCurrent ==
  Quiet /\ list.of = subject /\ subject # NoSubject /\ ~outdated =>
    /\ Heard(subject) \subseteq list.has
    /\ screen.create # Copies => ~list.twice

\* A row that is changed or deleted belongs to the object the request names: always
\* on a page of one object, and where the rows are hidden while they are loaded
\* unless requests for two objects crossed or a failure left the old rows.
ActsOnItsRows ==
  [][\A c \in Changes :
        /\ change[c].phase = "idle" /\ change'[c].phase = "sent" /\ change'[c].kind # "create"
        /\ screen.holds = "page" \/ screen.one \/ (screen.hides /\ ~rowsCrossed /\ ~leftover)
        => list.of = subject]_listVars
=============================================================================
