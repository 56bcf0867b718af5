--------------------------- MODULE AnalysisJobStore ---------------------------
(***************************************************************************)
(* The whole-session analyses of the Jupyter server: a directory of JSON   *)
(* files per job, the bounded queue and the one worker thread that runs    *)
(* jobs, the request handlers that create, retry and delete them, and the  *)
(* recovery at startup.                                                    *)
(*                                                                         *)
(* One action writes one file.  Handlers and startup run on the server's   *)
(* main thread, the worker on its own; an operation on a job holds that    *)
(* job's lock from its first file to its last, so between two files only   *)
(* the other thread, on other jobs, moves.  The process may die between    *)
(* any two files, and a write may fail; the thread may end with it.  A job *)
(* belongs to one finalized session and carries its name.                  *)
(*                                                                         *)
(* MaxRetry and MaxTrouble bound the retries of a job, and the deaths      *)
(* of the process and the failed writes.                                   *)
(***************************************************************************)
EXTENDS Integers, Sequences, FiniteSets, Functions

CONSTANTS
  Job,          \* finalized sessions, each with at most one job
  QueueMax,     \* queue.Queue(maxsize=100)
  MaxRetry, MaxTrouble,
  None

ASSUME JobAssumption ==
  /\ IsFiniteSet(Job) /\ None \notin Job
  /\ QueueMax \in Nat \ {0}
  /\ MaxRetry \in Nat /\ MaxTrouble \in Nat

Outcome == {"ready", "partial", "error"}
JobStatus == {"absent", "made", "queued", "running"} \cup Outcome
AttemptStatus == {"running"} \cup Outcome

VARIABLES
  disk,      \* what the files of each job and its session say
  queue,     \* AnalysisWorker._queue
  enqueued,  \* AnalysisWorker._enqueued
  server,    \* the Jupyter server process
  main,      \* the main thread: a request handler, or startup
  worker,    \* the worker thread
  cut,       \* jobs with an operation that stopped between two of its files
  troubles   \* deaths and failed writes so far

vars == <<disk, queue, enqueued, server, main, worker, cut, troubles>>
memory == <<queue, enqueued, server>>
history == <<cut, troubles>>

\* A session that is finalized and has no analysis job.  job: the status in
\* job.json ("made": the directory exists, job.json does not); listed: how many
\* attempts job.json names; active: the attempt it points at, or 0; attempt: the
\* attempt files; audit: the lines of retry_history.jsonl; result: the attempts
\* whose result.json is stored; deletion: the last line about the session in
\* session_deletions.jsonl.
NoJob == [job |-> "absent", listed |-> 0, active |-> 0, attempt |-> <<>>, audit |-> 0,
          result |-> {}, attached |-> FALSE, session |-> "finalized", deletion |-> "none"]

Idle == [pc |-> "idle", job |-> None]

Init ==
  /\ disk = [j \in Job |-> NoJob]
  /\ queue = <<>> /\ enqueued = {} /\ server = "down"
  /\ main = Idle /\ worker = Idle
  /\ cut = {} /\ troubles = 0

-----------------------------------------------------------------------------
(* What the files say *)

Exists(j) == disk[j].job # "absent"
Published(j) == disk[j].job \notin {"absent", "made"}
DeletionStarted(j) == disk[j].deletion # "none"

\* _validate_job: what the fields of one job.json may say together.
JobFields(d) ==
  /\ d.active <= d.listed
  /\ d.active = 0 <=> d.job = "queued"

\* The retry lines a job has: one per attempt after the first, and one more
\* for a retry that waits.
RetryLines(d) ==
  IF d.attempt = <<>> THEN 0 ELSE Len(d.attempt) - (IF d.job = "queued" THEN 0 ELSE 1)

\* _read_complete_job accepts the directory: job.json, the attempt files and
\* the retry lines tell one story.
Trusted(j) ==
  LET d == disk[j]
      n == Len(d.attempt)
  IN  /\ Published(j) /\ JobFields(d)
      /\ d.listed = n
      /\ \A k \in 1..n : d.attempt[k] = "running" => d.job = "running" /\ k = n
      /\ d.job = "running" => n > 0 /\ d.active = n /\ d.attempt[n] = "running"
      /\ d.job \in Outcome => n > 0 /\ d.active = n /\ d.attempt[n] = d.job
      /\ d.audit = RetryLines(d)

\* A retry already asked for, waiting to be run.
PendingRetry(j) == disk[j].job = "queued" /\ disk[j].audit > 0

\* load_public_result: a finished job of which the active attempt has a result.
Servable(j) ==
  Trusted(j) /\ disk[j].job \in {"ready", "partial"} /\ disk[j].active \in disk[j].result

\* A job that waits or runs is deleted too.
Deletable_Slip(j) ==
  /\ \A k \in Job : Published(k) => Trusted(k)
  /\ disk[j].attached => Published(j)

\* _trusted_delete_targets: every published job is trusted, the session's own is
\* not active, and a job the session names is still there.
Deletable(j) ==
  /\ \A k \in Job : Published(k) => Trusted(k)
  /\ disk[j].job \notin {"queued", "running"}
  /\ disk[j].attached => Published(j)

\* The lock of a job, held between the files of one operation.
WorkerHolds(j) == worker.job = j /\ worker.pc \in {"listing", "finishing"}
MainHolds(j) ==
  \/ main.job = j /\ main.pc \in {"made", "retrying", "recovering", "requeueing"}
  \/ main.pc \in {"purging", "unlinking", "dropping", "forgetting", "closing"}

Request == server = "up" /\ main.pc = "idle"
-----------------------------------------------------------------------------
(* Requests: SessionFinalizeRouteHandler *)

\* create finds no job of the session; it reads every job directory first, and
\* refuses a session whose deletion has begun.
MakeJob(j) ==
  /\ Request /\ ~Exists(j)
  /\ disk[j].session = "finalized" /\ ~DeletionStarted(j)
  /\ \A k \in Job : ~WorkerHolds(k) /\ (Exists(k) => Trusted(k))
  /\ disk' = [disk EXCEPT ![j].job = "made"]
  /\ main' = [pc |-> "made", job |-> j]
  /\ UNCHANGED <<memory, worker, history>>

PublishJob(j) ==
  /\ main = [pc |-> "made", job |-> j]
  /\ disk' = [disk EXCEPT ![j].job = "queued"]
  /\ main' = [pc |-> "created", job |-> j]
  /\ UNCHANGED <<memory, worker, history>>

\* A repeated request: create returns the job it finds, if it can trust it.
FindJob(j) ==
  /\ Request /\ ~WorkerHolds(j) /\ Trusted(j) /\ ~DeletionStarted(j)
  /\ main' = [pc |-> IF disk[j].job = "queued" THEN "created" ELSE "found", job |-> j]
  /\ UNCHANGED <<disk, memory, worker, history>>

AttachJob(j) ==
  /\ main.job = j /\ main.pc \in {"created", "found"}
  /\ disk' = [disk EXCEPT ![j].attached = TRUE]
  /\ main' = IF main.pc = "created" THEN [pc |-> "enqueue", job |-> j] ELSE Idle
  /\ UNCHANGED <<memory, worker, history>>

\* AnalysisWorker.enqueue: a job the worker already knows is left alone, a job
\* that is not queued or a full queue is an error of the request.
Enqueue(j) ==
  /\ main = [pc |-> "enqueue", job |-> j] /\ ~WorkerHolds(j)
  /\ main' = Idle
  /\ IF j \notin enqueued /\ Trusted(j) /\ disk[j].job = "queued" /\ Len(queue) < QueueMax
       THEN queue' = Append(queue, j) /\ enqueued' = enqueued \cup {j}
       ELSE UNCHANGED <<queue, enqueued>>
  /\ UNCHANGED <<disk, server, worker, history>>

-----------------------------------------------------------------------------
(* Requests: AnalysisRetryRouteHandler *)

\* The retry line of a partial or failed job.
Retry(j) ==
  /\ Request /\ ~WorkerHolds(j) /\ Trusted(j)
  /\ disk[j].job \in {"partial", "error"} /\ disk[j].audit < MaxRetry
  /\ disk' = [disk EXCEPT ![j].audit = @ + 1]
  /\ main' = [pc |-> "retrying", job |-> j]
  /\ UNCHANGED <<memory, worker, history>>

RetryQueued(j) ==
  /\ main = [pc |-> "retrying", job |-> j]
  /\ disk' = [disk EXCEPT ![j].job = "queued", ![j].active = 0]
  /\ main' = [pc |-> "enqueue", job |-> j]
  /\ UNCHANGED <<memory, worker, history>>

\* The same retry again, while it waits: nothing is written, the job is offered
\* to the worker once more.
RepeatRetry(j) ==
  /\ Request /\ ~WorkerHolds(j) /\ Trusted(j) /\ PendingRetry(j)
  /\ main' = [pc |-> "enqueue", job |-> j]
  /\ UNCHANGED <<disk, memory, worker, history>>

-----------------------------------------------------------------------------
(* Requests: delete_cascade, under every job's lock *)

DeleteBegin(j) ==
  /\ Request /\ disk[j].session = "finalized" /\ Deletable(j)
  /\ \A k \in Job : ~WorkerHolds(k)
  /\ disk' = [disk EXCEPT ![j].deletion = "intent"]
  /\ main' = [pc |-> "purging", job |-> j]
  /\ UNCHANGED <<memory, worker, history>>

\* The targets in the order of their paths: analyses, jobs, sessions.
\* A directory that never had a job.json is not a target.
PurgeResults(j) ==
  /\ main = [pc |-> "purging", job |-> j]
  /\ disk' = [disk EXCEPT ![j].result = {}]
  /\ main' = [main EXCEPT !.pc = IF disk[j].job \in Outcome THEN "unlinking" ELSE "forgetting"]
  /\ UNCHANGED <<memory, worker, history>>

\* rmtree empties the job directory in an order of its own.
UnlinkSome(j) ==
  /\ main = [pc |-> "unlinking", job |-> j]
  /\ \/ disk' = [disk EXCEPT ![j].job = "made", ![j].listed = 0, ![j].active = 0]
     \/ disk' = [disk EXCEPT ![j].attempt = <<>>]
  /\ main' = [main EXCEPT !.pc = "dropping"]
  /\ UNCHANGED <<memory, worker, history>>

DropJob(j) ==
  /\ main = [pc |-> "dropping", job |-> j]
  /\ disk' = [disk EXCEPT ![j].job = "absent", ![j].listed = 0, ![j].active = 0,
                          ![j].attempt = <<>>, ![j].audit = 0]
  /\ main' = [main EXCEPT !.pc = "forgetting"]
  /\ UNCHANGED <<memory, worker, history>>

ForgetSession(j) ==
  /\ main = [pc |-> "forgetting", job |-> j]
  /\ disk' = [disk EXCEPT ![j].session = "gone"]
  /\ main' = [main EXCEPT !.pc = "closing"]
  /\ UNCHANGED <<memory, worker, history>>

DeleteEnd(j) ==
  /\ main = [pc |-> "closing", job |-> j]
  /\ disk' = [disk EXCEPT ![j].deletion = "completed"]
  /\ main' = Idle
  /\ UNCHANGED <<memory, worker, history>>

-----------------------------------------------------------------------------
(* The worker thread *)

Take ==
  /\ server = "up" /\ worker.pc = "idle" /\ queue # <<>>
  /\ worker' = [pc |-> "begin", job |-> Head(queue)]
  /\ queue' = Tail(queue)
  /\ UNCHANGED <<disk, enqueued, server, main, history>>

\* begin_attempt: the attempt's own file first.  A job that is not queued or
\* not trusted is dropped.
Begin(j) ==
  /\ worker = [pc |-> "begin", job |-> j] /\ ~MainHolds(j)
  /\ IF Trusted(j) /\ disk[j].job = "queued"
       THEN /\ disk' = [disk EXCEPT ![j].attempt = Append(@, "running")]
            /\ worker' = [worker EXCEPT !.pc = "listing"]
       ELSE /\ worker' = [worker EXCEPT !.pc = "release"]
            /\ UNCHANGED disk
  /\ UNCHANGED <<memory, main, history>>

ListAttempt(j) ==
  /\ worker = [pc |-> "listing", job |-> j]
  /\ disk' = [disk EXCEPT ![j].job = "running", ![j].listed = @ + 1, ![j].active = disk[j].listed + 1]
  /\ worker' = [worker EXCEPT !.pc = "analysing"]
  /\ UNCHANGED <<memory, main, history>>

\* _write_private_json: a result is written once and never replaced.
StoreResult(j) == [disk EXCEPT ![j].result = @ \cup {Len(disk[j].attempt)}]

\* The outcome is announced whether or not the result was stored.
Analyse_Slip(j) ==
  /\ worker = [pc |-> "analysing", job |-> j]
  /\ \E out \in Outcome, stored \in BOOLEAN :
       /\ disk' = IF stored THEN StoreResult(j) ELSE disk
       /\ worker' = [pc |-> out, job |-> j]
  /\ UNCHANGED <<memory, main, history>>

\* The provider answers.  A result is stored before it is announced; an error
\* may come before or after that.
Analyse(j) ==
  /\ worker = [pc |-> "analysing", job |-> j]
  /\ \E out \in Outcome, stored \in BOOLEAN :
       /\ out # "error" => stored
       /\ disk' = IF stored THEN StoreResult(j) ELSE disk
       /\ worker' = [pc |-> out, job |-> j]
  /\ UNCHANGED <<memory, main, history>>

\* finish_attempt: the attempt's own file first.
FinishAttempt(j) ==
  /\ worker.job = j /\ worker.pc \in Outcome /\ ~MainHolds(j)
  /\ disk' = [disk EXCEPT ![j].attempt[Len(disk[j].attempt)] = worker.pc]
  /\ worker' = [worker EXCEPT !.pc = "finishing"]
  /\ UNCHANGED <<memory, main, history>>

ProjectOutcome(j) ==
  /\ worker = [pc |-> "finishing", job |-> j]
  /\ disk' = [disk EXCEPT ![j].job = disk[j].attempt[Len(disk[j].attempt)]]
  /\ worker' = [worker EXCEPT !.pc = "release"]
  /\ UNCHANGED <<memory, main, history>>

\* _run forgets the id when _execute has returned.
Release(j) ==
  /\ worker = [pc |-> "release", job |-> j]
  /\ enqueued' = enqueued \ {j}
  /\ worker' = Idle
  /\ UNCHANGED <<disk, queue, server, main, history>>

-----------------------------------------------------------------------------
(* Startup: _load_jupyter_server_extension *)

\* A start, or a new one after a start that failed.
Start ==
  /\ server \in {"down", "failed"}
  /\ server' = "starting"
  /\ main' = [pc |-> "scanning", job |-> None]
  /\ UNCHANGED <<disk, queue, enqueued, worker, history>>

\* recover_interrupted: the attempt, the retry line, then the job.
RecoverAttempt(j) ==
  /\ main.pc = "scanning" /\ Trusted(j) /\ disk[j].job = "running"
  /\ disk' = [disk EXCEPT ![j].attempt[Len(disk[j].attempt)] = "error"]
  /\ main' = [pc |-> "recovering", job |-> j]
  /\ UNCHANGED <<memory, worker, history>>

\* The retry line of the restart is forgotten.
RecoverAudit_Slip(j) ==
  /\ main = [pc |-> "recovering", job |-> j]
  /\ main' = [pc |-> "requeueing", job |-> j]
  /\ UNCHANGED <<disk, memory, worker, history>>

RecoverAudit(j) ==
  /\ main = [pc |-> "recovering", job |-> j]
  /\ disk' = [disk EXCEPT ![j].audit = @ + 1]
  /\ main' = [pc |-> "requeueing", job |-> j]
  /\ UNCHANGED <<memory, worker, history>>

RecoverJob(j) ==
  /\ main = [pc |-> "requeueing", job |-> j]
  /\ disk' = [disk EXCEPT ![j].job = "queued", ![j].active = 0]
  /\ main' = [pc |-> "scanning", job |-> None]
  /\ UNCHANGED <<memory, worker, history>>

Waiting == {j \in Job : disk[j].job = "queued"}

\* Jobs that were running are left as they are.
StartUp_Slip ==
  /\ main.pc = "scanning"
  /\ \A j \in Job : Exists(j) => Trusted(j)
  /\ Cardinality(Waiting) <= QueueMax
  /\ \E order \in [1..Cardinality(Waiting) -> Waiting] :
       /\ IsInjective(order)
       /\ queue' = order
  /\ enqueued' = Waiting /\ server' = "up" /\ main' = Idle
  /\ UNCHANGED <<disk, worker, history>>

\* No job is left running: list_queued gives every waiting job to the worker,
\* which starts when the queue has taken them all.
StartUp ==
  /\ main.pc = "scanning"
  /\ \A j \in Job : Exists(j) => Trusted(j) /\ disk[j].job # "running"
  /\ Cardinality(Waiting) <= QueueMax
  /\ \E order \in [1..Cardinality(Waiting) -> Waiting] :
       /\ IsInjective(order)
       /\ queue' = order
  /\ enqueued' = Waiting /\ server' = "up" /\ main' = Idle
  /\ UNCHANGED <<disk, worker, history>>

\* A directory that is not trusted, or one waiting job too many, raises: the
\* extension does not load.
StartFails ==
  /\ main.pc = "scanning"
  /\ \/ \E j \in Job : Exists(j) /\ ~Trusted(j)
     \/ /\ \A j \in Job : disk[j].job # "running"
        /\ Cardinality(Waiting) > QueueMax
  /\ server' = "failed" /\ main' = Idle
  /\ UNCHANGED <<disk, queue, enqueued, worker, history>>

-----------------------------------------------------------------------------
(* Failures *)

\* The jobs an operation has left between two files.
Torn == {j \in Job : WorkerHolds(j) \/ (main.job = j /\ MainHolds(j))}

\* The process dies: files stay, memory is lost.
Crash ==
  /\ server \in {"starting", "up"} /\ troubles < MaxTrouble
  /\ server' = "down" /\ queue' = <<>> /\ enqueued' = {}
  /\ main' = Idle /\ worker' = Idle
  /\ cut' = cut \cup Torn /\ troubles' = troubles + 1
  /\ UNCHANGED disk

\* A write of the worker fails.  begin_attempt gives the job up, for good when
\* the attempt is written already; an outcome that cannot be written becomes an
\* error, unless the attempt says it already.  The write of an error is not
\* caught: it ends the thread, and the server stays up without one.
WorkerWriteFails(j) ==
  /\ worker.job = j /\ troubles < MaxTrouble
  /\ \/ /\ worker.pc = "begin" /\ ~MainHolds(j) /\ Trusted(j) /\ disk[j].job = "queued"
        /\ worker' = [worker EXCEPT !.pc = "release"] /\ UNCHANGED <<enqueued, cut>>
     \/ /\ \/ worker.pc = "listing"
           \/ worker.pc = "finishing" /\ disk[j].attempt[Len(disk[j].attempt)] # "error"
        /\ worker' = [worker EXCEPT !.pc = "release"] /\ cut' = cut \cup {j}
        /\ UNCHANGED enqueued
     \/ /\ worker.pc \in {"ready", "partial"} /\ ~MainHolds(j)
        /\ worker' = [worker EXCEPT !.pc = "error"] /\ UNCHANGED <<enqueued, cut>>
     \/ /\ \/ worker.pc = "error" /\ ~MainHolds(j) /\ UNCHANGED cut
           \/ /\ worker.pc = "finishing" /\ disk[j].attempt[Len(disk[j].attempt)] = "error"
              /\ cut' = cut \cup {j}
        /\ worker' = [worker EXCEPT !.pc = "dead"] /\ enqueued' = enqueued \ {j}
  /\ troubles' = troubles + 1
  /\ UNCHANGED <<disk, queue, server, main>>

\* Somebody stops a server whose analyses do not go on.
StopServer ==
  /\ Request /\ worker.pc = "dead"
  /\ server' = "down" /\ queue' = <<>> /\ enqueued' = {}
  /\ worker' = Idle
  /\ UNCHANGED <<disk, main, history>>

\* A write of a handler fails, and the request with it; or one of the recovery,
\* and startup with it.
MainWriteFails(j) ==
  /\ main.job = j /\ MainHolds(j) /\ troubles < MaxTrouble
  /\ server' = IF server = "starting" THEN "failed" ELSE server
  /\ main' = Idle
  /\ cut' = cut \cup {j} /\ troubles' = troubles + 1
  /\ UNCHANGED <<disk, queue, enqueued, worker>>

-----------------------------------------------------------------------------
RequestStep(j) ==
  \/ MakeJob(j) \/ PublishJob(j) \/ FindJob(j) \/ AttachJob(j) \/ Enqueue(j)
  \/ Retry(j) \/ RetryQueued(j) \/ RepeatRetry(j)
  \/ DeleteBegin(j) \/ PurgeResults(j) \/ UnlinkSome(j) \/ DropJob(j)
  \/ ForgetSession(j) \/ DeleteEnd(j)

WorkerStep ==
  \/ Take
  \/ \E j \in Job : \/ Begin(j) \/ ListAttempt(j) \/ Analyse(j)
                    \/ FinishAttempt(j) \/ ProjectOutcome(j) \/ Release(j)

StartStep ==
  \/ Start \/ StartUp \/ StartFails
  \/ \E j \in Job : RecoverAttempt(j) \/ RecoverAudit(j) \/ RecoverJob(j)

\* What a request has begun, it finishes.
RequestEnds == \E j \in Job :
  \/ PublishJob(j) \/ AttachJob(j) \/ Enqueue(j) \/ RetryQueued(j) \/ PurgeResults(j)
  \/ UnlinkSome(j) \/ DropJob(j) \/ ForgetSession(j) \/ DeleteEnd(j)

Failure ==
  Crash \/ \E j \in Job : WorkerWriteFails(j) \/ MainWriteFails(j)

Next == (\E j \in Job : RequestStep(j)) \/ WorkerStep \/ StartStep \/ StopServer \/ Failure

Spec == Init /\ [][Next]_vars

\* Threads run, and somebody starts a server that is down.  No request must
\* come, and nobody has to notice a thread that ended.
FairSpec == Spec /\ WF_vars(WorkerStep) /\ WF_vars(StartStep) /\ WF_vars(RequestEnds)
-----------------------------------------------------------------------------
(* Properties *)

\* Type correctness of the files, the queue and the threads.
TypeOK ==
  /\ disk \in [Job -> [job : JobStatus, listed : Nat, active : Nat, attempt : Seq(AttemptStatus),
                       audit : Nat, result : SUBSET Nat, attached : BOOLEAN,
                       session : {"finalized", "gone"},
                       deletion : {"none", "intent", "completed"}]]
  /\ queue \in Seq(Job) /\ Len(queue) <= QueueMax
  /\ enqueued \subseteq Job
  /\ server \in {"down", "starting", "up", "failed"}
  /\ main \in [pc : {"idle", "made", "created", "found", "enqueue", "retrying", "purging",
                     "unlinking", "dropping", "forgetting", "closing", "scanning",
                     "recovering", "requeueing"}, job : Job \cup {None}]
  /\ worker \in [pc : {"idle", "begin", "listing", "analysing", "finishing", "release", "dead"} \cup Outcome,
                 job : Job \cup {None}]
  /\ cut \subseteq Job
  /\ troubles \in 0..MaxTrouble

\* Only an operation that stopped between two of its files leaves a directory
\* the store refuses to read: whatever requests, worker and recovery do in
\* whatever order, what they complete is one consistent story.
OnlyCutsAreRefused ==
  \A j \in Job : Exists(j) /\ j \notin cut \cup Torn => Trusted(j)

\* While the server is up, memory and disk agree on who has a job: one that
\* waits in the queue waits once and waits on disk, whatever is retried or
\* deleted meanwhile; the worker knows the ids of the jobs that wait and of the
\* one it holds, and no others; an attempt that runs on disk is the worker's,
\* or was when its thread ended.
MemoryMatchesDisk ==
  server = "up" =>
    /\ IsInjective(queue) /\ worker.job \notin Range(queue)
    /\ enqueued = Range(queue) \cup (IF worker.pc \in {"idle", "dead"} THEN {} ELSE {worker.job})
    /\ \A j \in Job \ cut :
         /\ j \in Range(queue) => disk[j].job = "queued"
         /\ disk[j].job = "running" =>
              worker.job = j /\ worker.pc \in {"analysing", "finishing", "dead"} \cup Outcome

\* A job that says it is ready or partial can be served: the result of its last
\* attempt was stored before the attempt and the job said so, and neither a
\* retry nor a restart loses it.
AnnouncedIsServable ==
  \A j \in Job : disk[j].job \in {"ready", "partial"} =>
    Servable(j) \/ DeletionStarted(j) \/ j \in cut \cup Torn

\* Attempts are only added, and only one that runs changes; the files go when
\* the session is deleted, and not before.
AttemptsAreKept == [][
  \A j \in Job : ~DeletionStarted(j) =>
    LET old == disk[j].attempt
        new == disk'[j].attempt
    IN  /\ Len(new) \in Len(old)..Len(old) + 1
        /\ \A k \in 1..Len(old) : new[k] = old[k] \/ old[k] = "running"]_vars

\* A session that was deleted stays deleted: no job, attempt or result of it
\* is ever on disk again.
DeletedIsGone ==
  \A j \in Job : disk[j].deletion = "completed" =>
    /\ disk[j].session = "gone"
    /\ disk[j].job = "absent" \/ j \in cut
    /\ disk[j].result = {}

\* The extension fails to load only because an operation was cut, or because
\* more jobs wait on disk than the queue holds: a job refused with a full
\* queue stays on disk.
StartFailsOnlyFor ==
  server = "failed" => cut # {} \/ Cardinality(Waiting) > QueueMax

\* The store and the extension refuse nothing but what an operation that was cut
\* has left, or more jobs than the queue holds (_read_complete_job,
\* _load_jupyter_server_extension).
RefusalsHaveACause == OnlyCutsAreRefused /\ StartFailsOnlyFor

\* An attempt never runs for ever: it ends, or the next start ends it and
\* queues the job again, unless a torn directory keeps the extension from
\* loading.  The thread that ended while it had this very job is the other
\* exception: the job runs until somebody stops the server.
RunningEnds ==
  \A j \in Job : (disk[j].job = "running") ~>
    (disk[j].job # "running" \/ cut # {} \/ worker = [pc |-> "dead", job |-> j])

\* "服务重启后重新加载 `queued` 和 `running` 任务" (after a restart the queued and
\* running jobs are loaded again): the extension loads after a restart.
RestartLoadsJobs == server # "failed"
=============================================================================
