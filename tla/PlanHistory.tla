------------------------------ MODULE PlanHistory ------------------------------
(***************************************************************************)
(* What the classroom service promises of the published plans of an        *)
(* experiment: the versions of a series are numbered without gaps, a       *)
(* version never changes or disappears, one state of a draft is published  *)
(* at most once, and the experiment shows a version that exists.           *)
(***************************************************************************)
EXTENDS Naturals, Sequences

CONSTANTS Series, Source, Content

VARIABLES
  versions,  \* by series: the sequence of its versions
  bound      \* the version the experiment shows, <<0, 0>> before the first

Init ==
  /\ versions = [s \in Series |-> <<>>]
  /\ bound = <<0, 0>>

Published(src) == \E s \in Series : \E n \in DOMAIN versions[s] : versions[s][n].source = src

Publish(s) ==
  /\ Len(versions'[s]) = Len(versions[s]) + 1
  /\ LET new == versions'[s][Len(versions[s]) + 1]
     IN  /\ new.source \in Source /\ new.content \in Content /\ ~Published(new.source)
         /\ versions' = [versions EXCEPT ![s] = Append(@, new)]
  /\ bound' = <<s, Len(versions[s]) + 1>>

Show(s) ==
  /\ \E n \in DOMAIN versions[s] : bound' = <<s, n>>
  /\ UNCHANGED versions

Next == \E s \in Series : Publish(s) \/ Show(s)

Spec == Init /\ [][Next]_<<versions, bound>>
=============================================================================
