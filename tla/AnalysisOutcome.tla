----------------------------- MODULE AnalysisOutcome -----------------------------
(***************************************************************************)
(* What a student is promised of the AI analyses of a brief, whatever the  *)
(* workers, leases, provider errors and crashes: a request gets one        *)
(* outcome, which never changes; a newer submission of the same brief      *)
(* supersedes the request that was pending; no request stays pending.      *)
(***************************************************************************)
CONSTANT Request

VARIABLE outcome   \* by request

Init == outcome = [r \in Request |-> "none"]

Superseded == [r \in Request |-> IF outcome[r] = "pending" THEN "superseded" ELSE outcome[r]]

\* A submission without analysis.
Resubmit == outcome' = Superseded

Ask(r) ==
  /\ outcome[r] = "none"
  /\ outcome' = [Superseded EXCEPT ![r] = "pending"]

Answer(r) ==
  /\ outcome[r] = "pending"
  /\ \E o \in {"ready", "unavailable"} : outcome' = [outcome EXCEPT ![r] = o]

Next == Resubmit \/ \E r \in Request : Ask(r) \/ Answer(r)

Safety == Init /\ [][Next]_outcome

\* A request does not stay pending.
AllAnswered == \A r \in Request : (outcome[r] = "pending") ~> (outcome[r] # "pending")

Spec == Safety /\ AllAnswered
=============================================================================
