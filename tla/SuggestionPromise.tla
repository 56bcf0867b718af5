--------------------------- MODULE SuggestionPromise ---------------------------
(***************************************************************************)
(* What a teacher is promised of the AI suggestion of an authoring         *)
(* session, whatever the workers, leases and provider errors: one session  *)
(* is open at a time; it asks for a suggestion at most once, gets one      *)
(* answer, and the answer never changes; a session that is abandoned has   *)
(* no answer to come.                                                      *)
(***************************************************************************)
CONSTANT Session

VARIABLE flow   \* by session: its status and its suggestion

Init == flow = [s \in Session |-> [status |-> "none", suggestion |-> "not_requested"]]

Open(s) ==
  /\ flow[s].status = "none"
  /\ \A r \in Session : flow[r].status # "open"
  /\ flow' = [flow EXCEPT ![s].status = "open"]

Ask(s) ==
  /\ flow[s] = [status |-> "open", suggestion |-> "not_requested"]
  /\ flow' = [flow EXCEPT ![s].suggestion = "pending"]

Answers == {f \in [Session -> [status : {"none", "open", "published", "abandoned"},
                               suggestion : {"not_requested", "pending", "ready", "failed"}]] :
              \A s \in Session : /\ f[s].status = flow[s].status
                                 /\ \/ f[s] = flow[s]
                                    \/ /\ flow[s].suggestion = "pending"
                                       /\ f[s].suggestion \in {"ready", "failed"}}

\* Some of the suggestions that are pending get their answers.
Answer == flow' \in Answers

Publish(s) ==
  /\ flow[s].status = "open"
  /\ flow' = [flow EXCEPT ![s].status = "published"]

Abandon(s) ==
  /\ flow[s].status = "open"
  /\ flow' = [flow EXCEPT ![s] = [status |-> "abandoned",
                                  suggestion |-> IF flow[s].suggestion = "pending" THEN "failed"
                                                 ELSE flow[s].suggestion]]

Next == Answer \/ \E s \in Session : Open(s) \/ Ask(s) \/ Publish(s) \/ Abandon(s)

Safety == Init /\ [][Next]_flow

\* A suggestion does not stay pending.
AllAnswered ==
  \A s \in Session : (flow[s].suggestion = "pending") ~> (flow[s].suggestion # "pending")

Spec == Safety /\ AllAnswered
=============================================================================
