------------------------------- MODULE PlanShelf -------------------------------
(***************************************************************************)
(* What the profile store promises of published profiles: a version that   *)
(* can be read once can be read for ever, and its content is always the    *)
(* same.                                                                   *)
(***************************************************************************)
EXTENDS Naturals

VARIABLE shelf  \* the <<plan, version, content>> that are served

Init == shelf = {}

Publish ==
  \E new \in shelf' :
    /\ new[2] \in Nat \ {0}
    /\ \A old \in shelf : <<old[1], old[2]>> # <<new[1], new[2]>>
    /\ shelf' = shelf \cup {new}

Spec == Init /\ [][Publish]_shelf
=============================================================================
