----------------------------- MODULE PlanAuthoring -----------------------------
(***************************************************************************)
(* The authoring sessions a teacher opens for one experiment and the AI    *)
(* plan suggestions they ask for: a session links one durable job, a page  *)
(* of the older version submits jobs without a session, and workers lease  *)
(* jobs, call the provider outside every transaction and store the answer. *)
(*                                                                         *)
(* Rows are locked before they are read, and the unique constraints make   *)
(* the loser of a race read the winner's row, so each transaction is one   *)
(* action.  Time is what it has done to a job: its delay or its lease has  *)
(* ended or not.  The teacher and the experiment are the same for all.     *)
(*                                                                         *)
(* MaxSession and MaxJob bound what is ever created.                       *)
(***************************************************************************)
EXTENDS Integers, FiniteSets

CONSTANTS
  MaxSession, MaxJob,
  Input,        \* canonical suggestion inputs, by hash
  LegacyInput,  \* those of the older page, which knows Python only
  Worker,       \* worker processes, each with an id of its own
  MaxAttempts,  \* max_attempts
  RetryErrors,  \* retry_provider_errors: the provider is a Coding Plan
  None

ASSUME AuthoringBounds ==
  /\ MaxSession \in Nat \ {0} /\ MaxJob \in Nat \ {0} /\ MaxAttempts \in Nat \ {0}
  /\ RetryErrors \in BOOLEAN /\ LegacyInput \subseteq Input

ASSUME NoneAssumption == None \notin Input /\ None \notin Worker

AuthoringSession == 1..MaxSession
Job == 1..MaxJob

VARIABLES
  authoring,  \* PlanAuthoringSession rows
  job,        \* ClassroomPlanSuggestionJob rows
  worker      \* what each worker process is doing

authoringVars == <<authoring, job, worker>>

NoSession == [status |-> "none", job |-> 0]

\* input: request_hash; source: suggestion_input still holds the teacher's
\* text; slot: active_slot; due: run_at has come; lease: "held" or "ended".
NoJob == [status |-> "none", session |-> 0, input |-> None, source |-> FALSE, slot |-> FALSE,
          due |-> FALSE, owner |-> None, lease |-> "none", attempts |-> 0]

AtRest == [pc |-> "loop", job |-> 0]

AuthoringInit ==
  /\ authoring = [s \in AuthoringSession |-> NoSession]
  /\ job = [j \in Job |-> NoJob]
  /\ worker = [w \in Worker |-> AtRest]

-----------------------------------------------------------------------------
(* Rows *)

Unfinished(j) == job[j].status \in {"pending", "leased"}
Terminal(j) == job[j].status \in {"ready", "failed"}

\* The text is kept for a retry that will not come.
Ended_Slip(row, status) ==
  [row EXCEPT !.status = status, !.slot = FALSE, !.owner = None, !.lease = "none"]

\* Every way to end a job drops its source and gives its slot back.
Ended(row, status) ==
  [row EXCEPT !.status = status, !.source = FALSE, !.slot = FALSE,
              !.owner = None, !.lease = "none"]

NewJob(s, input) ==
  [NoJob EXCEPT !.status = "pending", !.session = s, !.input = input,
                !.source = TRUE, !.slot = TRUE, !.due = TRUE]

\* _active_request_statement
ActiveRequest(input) == {j \in Job : job[j].slot /\ job[j].input = input}

\* A new row takes the next id.
NextJob(j) == job[j].status = "none" /\ \A i \in 1..j - 1 : job[i].status # "none"
-----------------------------------------------------------------------------
(* The teacher *)

\* create_or_return_open: the unique open slot decides between two tabs.
CreateOrReturnOpen(s) ==
  /\ authoring[s].status = "none"
  /\ \A r \in AuthoringSession : authoring[r].status # "open"
  /\ authoring' = [authoring EXCEPT ![s].status = "open"]
  /\ UNCHANGED <<job, worker>>

Link(s, j) == authoring' = [authoring EXCEPT ![s].job = j]

\* A waiting request of an older page becomes the session's.
AdoptLegacyJob(s, j) ==
  /\ Unfinished(j) /\ job[j].session = 0
  /\ job' = [job EXCEPT ![j].session = s]
  /\ Link(s, j)

\* request_suggestion and _submit_in_session.  A session that has its job keeps
\* it, whatever the new input; an identical request that waits for another
\* session is a conflict.
RequestSuggestion(s, input) ==
  /\ authoring[s].status = "open" /\ authoring[s].job = 0
  /\ \/ \E j \in ActiveRequest(input) : AdoptLegacyJob(s, j)
     \/ /\ ActiveRequest(input) = {}
        /\ \E j \in Job : /\ NextJob(j)
                          /\ job' = [job EXCEPT ![j] = NewJob(s, input)]
                          /\ Link(s, j)
  /\ UNCHANGED worker

\* The older page: an identical active request is reused, whoever made it.
SubmitLegacy(input) ==
  /\ ActiveRequest(input) = {}
  /\ \E j \in Job : NextJob(j) /\ job' = [job EXCEPT ![j] = NewJob(0, input)]
  /\ UNCHANGED <<authoring, worker>>

\* cancel_for_authoring_session; without a provider, the same by hand.
CancelJob(j) ==
  IF j # 0 /\ Unfinished(j)
    THEN job' = [job EXCEPT ![j] = Ended(job[j], "failed")]
    ELSE UNCHANGED job

Abandon(s) ==
  /\ authoring[s].status = "open"
  /\ authoring' = [authoring EXCEPT ![s].status = "abandoned"]
  /\ CancelJob(authoring[s].job)
  /\ UNCHANGED worker

\* publish_draft closes the session of its draft and leaves its job alone.
Publish(s) ==
  /\ authoring[s].status = "open"
  /\ authoring' = [authoring EXCEPT ![s].status = "published"]
  /\ UNCHANGED <<job, worker>>

-----------------------------------------------------------------------------
(* The workers *)

Available(j) == Unfinished(j) /\ job[j].due /\ job[j].lease # "held"
Exhausted == {j \in Job : Available(j) /\ job[j].attempts >= MaxAttempts}

Claimable == {j \in Job : Available(j) /\ job[j].attempts < MaxAttempts}

\* A job out of attempts is left as it is.
Swept_Slip == job

Swept == [j \in Job |-> IF j \in Exhausted THEN Ended(job[j], "failed") ELSE job[j]]

Leased(row, w) ==
  [row EXCEPT !.status = "leased", !.owner = w, !.lease = "held", !.attempts = @ + 1]

\* claim_due_jobs ends the jobs that are out of attempts and leases one other;
\* which one is due first is not told apart.
ClaimDueJobs(w) ==
  /\ worker[w].pc = "loop" /\ Exhausted \cup Claimable # {}
  /\ IF Claimable = {}
       THEN job' = Swept /\ UNCHANGED worker
       ELSE \E j \in Claimable :
              /\ job' = [Swept EXCEPT ![j] = Leased(job[j], w)]
              /\ worker' = [worker EXCEPT ![w] = [pc |-> "read", job |-> j]]
  /\ UNCHANGED authoring

\* _locked_job without its test.
Holds_Slip(w) == TRUE

\* The row says the worker still has the job.
Holds(w) == LET j == worker[w].job IN job[j].status = "leased" /\ job[j].owner = w

\* _source_for_leased_job: a lease that was lost is a failure like another.
ReadSource(w) ==
  /\ worker[w].pc = "read"
  /\ worker' = [worker EXCEPT ![w].pc = IF Holds(w) THEN "generate" ELSE "lost"]
  /\ UNCHANGED <<authoring, job>>

\* complete_with_metadata: a timeout, a network error, 429 and 5xx are worth
\* another attempt, any other refusal is final.
ProviderOutcome == {"answer", "again", "final"}

\* What generate returns is decided when it is stored; a text that is not a
\* suggestion is final.
Outcomes(w) == CASE worker[w].pc = "generate" -> ProviderOutcome
                 [] worker[w].pc = "lost" -> {"again"}
                 [] OTHER -> {}

Finish(w) == worker' = [worker EXCEPT ![w] = AtRest] /\ UNCHANGED authoring

\* complete; the job of another worker, or one that ended, is left alone.
Complete(w) ==
  /\ "answer" \in Outcomes(w)
  /\ LET j == worker[w].job IN
       job' = IF Holds(w) THEN [job EXCEPT ![j] = Ended(job[j], "ready")] ELSE job
  /\ Finish(w)

\* _retry_delay has one for this attempt, which is the row's last one as long as
\* the worker holds the job.
Retries(w, outcome) ==
  outcome = "again" /\ RetryErrors /\ job[worker[w].job].attempts < MaxAttempts

Delayed(row) == [row EXCEPT !.status = "pending", !.owner = None, !.lease = "none", !.due = FALSE]

RecordFailure(w) ==
  /\ \E outcome \in Outcomes(w) \ {"answer"} :
       LET j == worker[w].job
           row == IF Retries(w, outcome) THEN Delayed(job[j]) ELSE Ended(job[j], "failed")
       IN  job' = IF Holds(w) THEN [job EXCEPT ![j] = row] ELSE job
  /\ Finish(w)

\* A worker process dies, or an error nobody expected ends its tick.
WorkerDies(w) ==
  /\ worker[w].pc # "loop"
  /\ Finish(w)
  /\ UNCHANGED job

-----------------------------------------------------------------------------
(* Time *)

LeaseEnds(j) ==
  /\ job[j].lease = "held"
  /\ job' = [job EXCEPT ![j].lease = "ended"]
  /\ UNCHANGED <<authoring, worker>>

DelayEnds(j) ==
  /\ Unfinished(j) /\ ~job[j].due
  /\ job' = [job EXCEPT ![j].due = TRUE]
  /\ UNCHANGED <<authoring, worker>>

-----------------------------------------------------------------------------
Teacher ==
  \/ \E s \in AuthoringSession : CreateOrReturnOpen(s) \/ Abandon(s) \/ Publish(s)
  \/ \E s \in AuthoringSession, input \in Input : RequestSuggestion(s, input)
  \/ \E input \in LegacyInput : SubmitLegacy(input)

RunDueJobs(w) == ClaimDueJobs(w) \/ ReadSource(w) \/ Complete(w) \/ RecordFailure(w)

Time == \E j \in Job : LeaseEnds(j) \/ DelayEnds(j)

AuthoringNext == Teacher \/ Time \/ \E w \in Worker : RunDueJobs(w) \/ WorkerDies(w)

AuthoringSpec == AuthoringInit /\ [][AuthoringNext]_authoringVars

\* Some worker ticks and time passes; no teacher must do anything.  A worker may
\* die at every step: attempts run out.
FairSpec == AuthoringSpec /\ WF_authoringVars(\E w \in Worker : RunDueJobs(w)) /\ WF_authoringVars(Time)
-----------------------------------------------------------------------------
(* Properties *)

\* Type correctness of the rows and the workers.
AuthoringTypeOK ==
  /\ authoring \in [AuthoringSession -> [status : {"none", "open", "published", "abandoned"}, job : 0..MaxJob]]
  /\ job \in [Job -> [status : {"none", "pending", "leased", "ready", "failed"},
                      session : 0..MaxSession, input : Input \cup {None},
                      source : BOOLEAN, slot : BOOLEAN, due : BOOLEAN,
                      owner : Worker \cup {None}, lease : {"none", "held", "ended"},
                      attempts : 0..MaxAttempts]]
  /\ worker \in [Worker -> [pc : {"loop", "read", "generate", "lost"}, job : 0..MaxJob]]

\* Session and job name each other, so _linked_job never finds the row of
\* somebody else, whichever of a new request, an adoption and a retry won.
LinksAgree ==
  /\ \A s \in AuthoringSession : authoring[s].job # 0 => job[authoring[s].job].session = s
  /\ \A j \in Job : job[j].session # 0 => authoring[job[j].session].job = j

\* The teacher's text is kept exactly while a worker may still need it: it
\* goes, with the slot, however the job ends, and a job that waits for a retry
\* has it.
SourceKeptWhileNeeded ==
  \A j \in Job : /\ job[j].source <=> Unfinished(j)
                 /\ job[j].slot <=> Unfinished(j)

\* What PlanAuthoringSnapshot shows of the suggestion.
ShownSuggestion(s) ==
  IF authoring[s].job = 0 THEN "not_requested"
  ELSE LET status == job[authoring[s].job].status
       IN  IF status = "leased" THEN "pending" ELSE status

ShownFlow == [s \in AuthoringSession |-> [status |-> authoring[s].status, suggestion |-> ShownSuggestion(s)]]

Promise == INSTANCE SuggestionPromise WITH Session <- AuthoringSession, flow <- ShownFlow

\* One session is open at a time and gets one answer, which a late worker, a
\* second request or the end of the session never changes.
OneSuggestion == Promise!Safety

\* No suggestion is pending for ever, of a session or of an older page, and the
\* provider need not answer for that.
SuggestionsSettle == \A j \in Job : Unfinished(j) ~> ~Unfinished(j)
=============================================================================
