---------------------------- MODULE LatestView ----------------------------
(***************************************************************************)
(* What a page promises that loads several panels for a selected object:   *)
(* whatever order the answers come in, a panel changes only to the answer  *)
(* of its latest request, or to nothing, so that it never goes back to an  *)
(* older answer or to another object's after the selected one's is shown.  *)
(* A request is numbered within its panel.                                 *)
(***************************************************************************)
EXTENDS Naturals

CONSTANTS Panels, Objects, Nothing

VARIABLES asked,    \* per panel: the latest request and its object
          shown     \* per panel: the request and object of what is displayed

Request == [seq : Nat, of : Objects \cup {Nothing}]

Init == /\ asked = [p \in Panels |-> [seq |-> 0, of |-> Nothing]]
        /\ shown = [p \in Panels |-> [seq |-> 0, of |-> Nothing]]

\* The panels of P are asked for again, each for some object.
Asks(P) == \E o \in [P -> Objects] :
             asked' = [p \in Panels |-> IF p \in P
                                        THEN [seq |-> asked[p].seq + 1, of |-> o[p]]
                                        ELSE asked[p]]

\* The panels of P show the answer of their latest request or its failure.
Shows(P) == \E Q \in SUBSET P :
              shown' = [p \in Panels |->
                          IF p \in Q THEN asked[p]
                          ELSE IF p \in P THEN [asked[p] EXCEPT !.of = Nothing]
                          ELSE shown[p]]

Next == \E P, Q \in SUBSET Panels : Asks(P) /\ Shows(Q)

Spec == Init /\ [][Next]_<<asked, shown>>

\* What follows: a panel never goes back to an earlier request.
NeverBack == [][\A p \in Panels : shown'[p].seq >= shown[p].seq]_<<asked, shown>>
=============================================================================
