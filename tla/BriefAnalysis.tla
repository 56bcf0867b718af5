------------------------------ MODULE BriefAnalysis ------------------------------
(***************************************************************************)
(* The AI analysis jobs of one student brief: a submission may leave a     *)
(* durable job, workers lease it, call the provider outside every          *)
(* transaction, and append the answer as a revision of the same brief      *)
(* unless a newer one exists.                                              *)
(*                                                                         *)
(* A job's source is a revision and a revision has at most one job, so     *)
(* the job's id is the number of its source.  Time is kept as countdowns:  *)
(* a job's wait is run_at minus the clock, its lease lease_expires_at      *)
(* minus the clock, both floored at zero; a worker's left is what remains  *)
(* of the longest time it may keep what it leased.  Row locks are taken    *)
(* before rows are read, so each transaction is one action.                *)
(*                                                                         *)
(* MaxRevision bounds the submissions and MaxCrash the worker deaths.      *)
(* A definition named ..._Slip is its neighbour with one slip a programmer *)
(* could make; it is not part of the specification.                        *)
(***************************************************************************)
EXTENDS Integers, Sequences, FiniteSets

CONSTANTS
  Worker,       \* worker processes
  Name,         \* their CLASSROOM_WORKER_ID: replicas may share one
  MaxRevision,  \* submissions stop at this revision
  MaxAttempts,  \* max_attempts
  Lease,        \* _LEASE_SECONDS
  Budget,       \* longest time from taking a lease to recording its outcome
  RetryDelay,   \* _RETRY_DELAYS, by the number of attempts made
  MaxCrash,     \* worker deaths
  None

ASSUME BoundsAssumption ==
  /\ MaxRevision \in Nat /\ MaxAttempts \in Nat \ {0} /\ MaxCrash \in Nat
  /\ Lease \in Nat \ {0} /\ Budget \in Nat
  /\ RetryDelay \in [1..MaxAttempts -> Nat]

Names == {Name[w] : w \in Worker}

ASSUME NoneAssumption == None \notin Names

ASSUME WorkerAssumption == IsFiniteSet(Worker)

Job == 1..MaxRevision

VARIABLES
  briefs,    \* StudentBrief revisions of the session
  job,       \* ClassroomBriefAnalysisJob rows, by the revision they analyse
  worker,    \* the process state of the workers
  calls,     \* provider calls made for each job
  crashes    \* worker deaths so far

vars == <<briefs, job, worker, calls, crashes>>

NoJob == [status |-> "absent", wait |-> 0, owner |-> None, lease |-> 0, attempts |-> 0]
IdleWorker == [pc |-> "loop", todo |-> {}, cur |-> 0, attempt |-> 0, retry |-> FALSE, left |-> 0]

Init ==
  /\ briefs = <<>>
  /\ job = [j \in Job |-> NoJob]
  /\ worker = [w \in Worker |-> IdleWorker]
  /\ calls = [j \in Job |-> 0]
  /\ crashes = 0

-----------------------------------------------------------------------------
(* What the rows say *)

\* The lease is not looked at.
Available_Slip == {j \in Job : /\ job[j].status \in {"pending", "leased"}
                               /\ job[j].wait = 0}

\* A leased job is never taken again.
AvailableOnce_Slip == {j \in Job : /\ job[j].status = "pending"
                                   /\ job[j].wait = 0}

Available == {j \in Job : /\ job[j].status \in {"pending", "leased"}
                          /\ job[j].wait = 0
                          /\ job[j].owner = None \/ job[j].lease = 0}

Exhausted == {j \in Available : job[j].attempts >= MaxAttempts}

Claimable == {j \in Available : job[j].attempts < MaxAttempts}

Held(w, j) == job[j].status = "leased" /\ job[j].owner = Name[w]

-----------------------------------------------------------------------------
(* Submission *)

\* BriefService.submit, by the student or the deadline worker: a new
\* revision, with a job when the analysis is permitted and its input ready.
Submit(ai) ==
  LET revision == Len(briefs) + 1 IN
  /\ revision <= MaxRevision
  /\ briefs' = Append(briefs, [source |-> 0, ai |-> ai])
  /\ job' = IF ai = "pending" THEN [job EXCEPT ![revision].status = "pending"] ELSE job
  /\ UNCHANGED <<worker, calls, crashes>>

-----------------------------------------------------------------------------
(* How a lease ends *)

Release(j, status, wait) ==
  job' = [job EXCEPT ![j] = [status |-> status, wait |-> wait, owner |-> None, lease |-> 0,
                             attempts |-> @.attempts]]

\* The source is rewritten in place of a new revision.
SettleInPlace_Slip(j, ai) ==
  /\ briefs' = [briefs EXCEPT ![j].ai = ai]
  /\ Release(j, "completed", job[j].wait)

\* The answer becomes a revision only while its source is the latest one;
\* a superseded job completes without.
Settle(j, ai) ==
  /\ briefs' = IF Len(briefs) = j THEN Append(briefs, [source |-> j, ai |-> ai]) ELSE briefs
  /\ Release(j, "completed", job[j].wait)

\* record_analysis_failure with the delay of _retry_delay.
Fail(j, attempt, retry) ==
  IF retry /\ attempt < MaxAttempts
    THEN Release(j, "pending", RetryDelay[attempt]) /\ UNCHANGED briefs
    ELSE Settle(j, "unavailable")

-----------------------------------------------------------------------------
(* run_due_jobs, one transaction at a time *)

LeasedBy(w, j, attempts) ==
  [status |-> "leased", wait |-> job[j].wait, owner |-> Name[w], lease |-> Lease,
   attempts |-> attempts]

\* Every exhausted job is leased, without an attempt.
LeaseExhausted(w) ==
  /\ worker[w].pc = "loop"
  /\ job' = [j \in Job |-> IF j \in Exhausted THEN LeasedBy(w, j, job[j].attempts) ELSE job[j]]
  /\ worker' = [worker EXCEPT ![w].pc = "exhausting", ![w].todo = Exhausted,
                              ![w].left = Budget]
  /\ UNCHANGED <<briefs, calls, crashes>>

\* One of them is recorded as failed; a lease lost meanwhile is passed over.
FailExhausted(w, j) ==
  /\ worker[w].pc = "exhausting" /\ j \in worker[w].todo
  /\ IF Held(w, j) THEN Fail(j, job[j].attempts, FALSE) ELSE UNCHANGED <<briefs, job>>
  /\ worker' = [worker EXCEPT ![w].todo = @ \ {j}]
  /\ UNCHANGED <<calls, crashes>>

\* One due job at most, so that none waits leased behind a provider call.
Claim(w, j) ==
  /\ worker[w].pc = "exhausting" /\ worker[w].todo = {}
  /\ j \in Claimable
  /\ job' = [job EXCEPT ![j] = LeasedBy(w, j, job[j].attempts + 1)]
  /\ worker' = [worker EXCEPT ![w] = [pc |-> "starting", todo |-> {}, cur |-> j, retry |-> FALSE,
                                      attempt |-> job[j].attempts + 1, left |-> Budget]]
  /\ UNCHANGED <<briefs, calls, crashes>>

ClaimNothing(w) ==
  /\ worker[w].pc = "exhausting" /\ worker[w].todo = {}
  /\ Claimable = {}
  /\ worker' = [worker EXCEPT ![w] = IdleWorker]
  /\ UNCHANGED <<briefs, job, calls, crashes>>

\* The source is read without a lock; a lost lease is a retryable error, a
\* stored input that no longer validates a final one.
ReadSource(w) ==
  LET j == worker[w].cur IN
  /\ worker[w].pc = "starting"
  /\ \/ /\ Held(w, j)
        /\ worker' = [worker EXCEPT ![w].pc = "calling"]
        /\ calls' = [calls EXCEPT ![j] = @ + 1]
     \/ /\ worker' = [worker EXCEPT ![w] = [@ EXCEPT !.pc = "failing", !.retry = ~Held(w, j)]]
        /\ UNCHANGED calls
  /\ UNCHANGED <<briefs, job, crashes>>

\* The provider answers, or the call fails or times out, to be retried or not.
Answer(w) ==
  /\ worker[w].pc = "calling"
  /\ \/ worker' = [worker EXCEPT ![w].pc = "completing"]
     \/ \E retry \in BOOLEAN :
          worker' = [worker EXCEPT ![w] = [@ EXCEPT !.pc = "failing", !.retry = retry]]
  /\ UNCHANGED <<briefs, job, calls, crashes>>

\* A worker that lost its lease is refused, and goes on.
Complete(w) ==
  LET j == worker[w].cur IN
  /\ worker[w].pc = "completing"
  /\ IF Held(w, j) THEN Settle(j, "ready") ELSE UNCHANGED <<briefs, job>>
  /\ worker' = [worker EXCEPT ![w] = IdleWorker]
  /\ UNCHANGED <<calls, crashes>>

RecordFailure(w) ==
  LET j == worker[w].cur IN
  /\ worker[w].pc = "failing"
  /\ IF Held(w, j) THEN Fail(j, worker[w].attempt, worker[w].retry) ELSE UNCHANGED <<briefs, job>>
  /\ worker' = [worker EXCEPT ![w] = IdleWorker]
  /\ UNCHANGED <<calls, crashes>>

\* The process dies, or an error that is no provider error ends it.
WorkerCrash(w) ==
  /\ worker[w].pc # "loop"
  /\ crashes < MaxCrash
  /\ crashes' = crashes + 1
  /\ worker' = [worker EXCEPT ![w] = IdleWorker]
  /\ UNCHANGED <<briefs, job, calls>>

Less(n) == IF n = 0 THEN 0 ELSE n - 1

\* The worker is between taking a lease and recording what came of it.
Leasing(w) == worker[w].todo # {} \/ worker[w].pc \notin {"loop", "exhausting"}

\* The HTTP timeouts end a provider call within its budget, and a worker's
\* own transactions are short.
Tick ==
  /\ \A w \in Worker : Leasing(w) => worker[w].left > 0
  /\ job' = [j \in Job |-> [job[j] EXCEPT !.wait = Less(job[j].wait), !.lease = Less(job[j].lease)]]
  /\ worker' = [w \in Worker |-> [worker[w] EXCEPT !.left = Less(@)]]
  /\ UNCHANGED <<briefs, calls, crashes>>

-----------------------------------------------------------------------------
WorkerStep(w) ==
  \/ LeaseExhausted(w) \/ ClaimNothing(w) \/ ReadSource(w) \/ Answer(w)
  \/ Complete(w) \/ RecordFailure(w)
  \/ \E j \in Job : FailExhausted(w, j) \/ Claim(w, j)

Next ==
  \/ Tick
  \/ \E ai \in {"not_requested", "pending", "unavailable"} : Submit(ai)
  \/ \E w \in Worker : WorkerStep(w) \/ WorkerCrash(w)

Spec == Init /\ [][Next]_vars

\* Time passes, a restarted worker keeps polling and a call ends in time.
FairSpec == Spec /\ WF_vars(Tick) /\ \A w \in Worker : WF_vars(WorkerStep(w))

-----------------------------------------------------------------------------
(* Types and safety *)

BriefRow == [source : 0..MaxRevision, ai : {"not_requested", "pending", "ready", "unavailable"}]
JobRow == [status : {"absent", "pending", "leased", "completed"}, wait : Nat,
           owner : Names \cup {None}, lease : 0..Lease, attempts : 0..MaxAttempts]
WorkerState == [pc : {"loop", "exhausting", "starting", "calling", "completing", "failing"},
                todo : SUBSET Job, cur : 0..MaxRevision, attempt : 0..MaxAttempts,
                retry : BOOLEAN, left : 0..Budget]

\* Every row and every process holds a value of its type.
TypeOK ==
  /\ briefs \in Seq(BriefRow)
  /\ Len(briefs) <= MaxRevision + 1
  /\ job \in [Job -> JobRow]
  /\ worker \in [Worker -> WorkerState]
  /\ calls \in [Job -> Nat]
  /\ crashes \in 0..MaxCrash

\* The exhausted path recovers a crashed last attempt without another
\* provider request: however workers die and leases expire, the provider is
\* called at most once for an attempt and at most MaxAttempts times for a job.
CallsArePaid == \A j \in Job : calls[j] <= job[j].attempts /\ calls[j] <= MaxAttempts

\* An analysis never hides a newer submission: it directly follows the
\* revision that asked for it, so a source has at most one analysis.
AnalysisFollowsSource ==
  \A i \in 1..Len(briefs) : briefs[i].source # 0 =>
    briefs[i].source = i - 1 /\ briefs[i - 1].ai = "pending"

\* A brief that shows "pending" has an unfinished job behind it, so it is
\* never left pending for ever by a job that failed or was superseded.
PendingHasJob ==
  \A i \in 1..Len(briefs) : i = Len(briefs) /\ briefs[i].ai = "pending" =>
    job[i].status \in {"pending", "leased"}

Calling(w, j) == worker[w].pc = "calling" /\ worker[w].cur = j

\* While a call fits in its lease, no two workers call the provider for one
\* job at the same time.
OneCallPerJob ==
  \A v, w \in Worker : \A j \in Job : Calling(v, j) /\ Calling(w, j) => v = w

-----------------------------------------------------------------------------
(* Liveness, and what the service promises *)

\* Every analysis job is completed in the end, across provider failures,
\* crashes on the last attempt and lost leases.
AnalysisJobsSettle ==
  \A j \in Job : (job[j].status \in {"pending", "leased"}) ~> (job[j].status = "completed")

Outcome(r) ==
  CASE r > Len(briefs) -> "none"
    [] r <= Len(briefs) /\ briefs[r].ai # "pending" -> "none"
    [] r = Len(briefs) /\ briefs[r].ai = "pending" -> "pending"
    [] OTHER -> IF briefs[r + 1].source = r THEN briefs[r + 1].ai ELSE "superseded"

AO == INSTANCE AnalysisOutcome WITH Request <- Job, outcome <- [r \in Job |-> Outcome(r)]

\* The service keeps the promise of AnalysisOutcome; with fairness, also
\* that no request stays pending.
OneOutcome == AO!Safety
EveryRequestAnswered == AO!AllAnswered

-----------------------------------------------------------------------------
(* What the documents say and the code does not do *)

\* The design: an analysis is "unavailable" when it could not be generated
\* in three attempts.
UnavailableAfterAllAttempts ==
  \A i \in 1..Len(briefs) : briefs[i].source # 0 /\ briefs[i].ai = "unavailable" =>
    job[briefs[i].source].attempts = MaxAttempts

=============================================================================
