------------------------------ MODULE LogicalBrief ------------------------------
(***************************************************************************)
(* What the classroom service promises of a monitor session, whoever       *)
(* closes it: a session that opens is closed once, by a first brief; later *)
(* submissions only add revisions to that same brief, which keeps the time *)
(* of its first submission.  The design also says that no session stays    *)
(* open for ever (AllClosed).                                              *)
(***************************************************************************)
EXTENDS Naturals

CONSTANT Session

VARIABLE brief   \* by session: its phase, revisions and first submission time

NoBrief == [phase |-> "none", revisions |-> 0, submittedAt |-> 0]

Init == brief = [s \in Session |-> NoBrief]

Open(s) ==
  /\ brief[s].phase = "none"
  /\ brief' = [brief EXCEPT ![s].phase = "open"]

Close(s) ==
  /\ brief[s].phase = "open"
  /\ brief'[s].submittedAt \in Nat
  /\ brief' = [brief EXCEPT ![s] = [phase |-> "closed", revisions |-> 1,
                                    submittedAt |-> brief'[s].submittedAt]]

Revise(s) ==
  /\ brief[s].phase = "closed"
  /\ brief' = [brief EXCEPT ![s].revisions = @ + 1]

Next == \E s \in Session : Open(s) \/ Close(s) \/ Revise(s)

Safety == Init /\ [][Next]_brief

\* An open session is closed in the end.
AllClosed == \A s \in Session : (brief[s].phase = "open") ~> (brief[s].phase = "closed")
=============================================================================
