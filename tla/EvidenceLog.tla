------------------------------ MODULE EvidenceLog ------------------------------
(***************************************************************************)
(* What the VS Code extension promises of a session's evidence, whatever   *)
(* is interrupted: its events are numbered from one without a gap, they    *)
(* are only added to, and none is added or changed once the session has    *)
(* ended.  A session may be given up; nothing is promised of it any more.   *)
(***************************************************************************)
EXTENDS Naturals, Sequences

CONSTANTS Session, MaxEvent

VARIABLES
  events,  \* by session: the numbers of its events, in the order of the file
  ending,  \* by session: how it ended, or "open"
  lost     \* the sessions that are given up

vars == <<events, ending, lost>>

Ending == {"completed", "partial", "abandoned"}
Upto(n) == [i \in 1..n |-> i]

Init == events = [s \in Session |-> <<>>] /\ ending = [s \in Session |-> "open"] /\ lost = {}

Extend(s) ==
  /\ ending[s] = "open"
  /\ \E n \in Len(events[s]) + 1..MaxEvent : events' = [events EXCEPT ![s] = Upto(n)]
  /\ UNCHANGED <<ending, lost>>

End(s) ==
  /\ ending[s] = "open"
  /\ \E e \in Ending : ending' = [ending EXCEPT ![s] = e]
  /\ UNCHANGED <<events, lost>>

\* The session s is given up, now or before.
Lose(s) ==
  /\ lost' = lost \cup {s}
  /\ \A r \in Session \ {s} : events'[r] = events[r] /\ ending'[r] = ending[r]

Next == \E s \in Session : Extend(s) \/ End(s) \/ Lose(s)

Spec == Init /\ [][Next]_vars
=============================================================================
