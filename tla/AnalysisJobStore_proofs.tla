------------------------ MODULE AnalysisJobStore_proofs ------------------------
(***************************************************************************)
(* Theorems about AnalysisJobStore for any number of sessions, retries,    *)
(* deaths and failed writes, and any length of the queue.                  *)
(***************************************************************************)
EXTENDS AnalysisJobStore, FiniteSetTheorems, SequenceTheorems, TLAPS

USE JobAssumption

-----------------------------------------------------------------------------
(* What the files of a job may say together *)

Last(d) == d.attempt[Len(d.attempt)]

\* Every attempt but those after the m-th has an outcome.
EndedUpTo(d, m) == \A k \in 1..m : d.attempt[k] \in Outcome

\* job.json names all attempts and points at the last.
PointsAtLast(d) ==
  LET n == Len(d.attempt) IN n > 0 /\ d.listed = n /\ d.active = n

\* The directories recovery reads without a complaint.
WaitsRow(d) ==
  LET n == Len(d.attempt)
  IN  d.job = "queued" /\ d.active = 0 /\ d.listed = n /\ d.audit = n /\ EndedUpTo(d, n)

RunsRow(d) ==
  LET n == Len(d.attempt)
  IN  /\ d.job = "running" /\ PointsAtLast(d) /\ d.audit = n - 1
      /\ Last(d) = "running" /\ EndedUpTo(d, n - 1)

EndedRow(d) ==
  LET n == Len(d.attempt)
  IN  /\ d.job \in Outcome /\ PointsAtLast(d) /\ d.audit = n - 1
      /\ Last(d) = d.job /\ EndedUpTo(d, n)

WholeRow(d) == WaitsRow(d) \/ RunsRow(d) \/ EndedRow(d)

\* A session without a job has no files of one.
BlankRow(d) ==
  d.listed = 0 /\ d.active = 0 /\ d.attempt = <<>> /\ d.audit = 0 /\ d.result = {}

\* The directories in the middle of an operation.
ListingRow(d) ==
  LET n == Len(d.attempt)
  IN  /\ d.job = "queued" /\ d.active = 0 /\ n > 0 /\ d.listed = n - 1 /\ d.audit = n - 1
      /\ Last(d) = "running" /\ EndedUpTo(d, n - 1)

\* An outcome other than an error has its result.
HasResult(d, out) == out # "error" => Len(d.attempt) \in d.result

FinishingRow(d) ==
  LET n == Len(d.attempt)
  IN  /\ d.job = "running" /\ PointsAtLast(d) /\ d.audit = n - 1
      /\ EndedUpTo(d, n) /\ HasResult(d, Last(d))

RetryingRow(d) ==
  LET n == Len(d.attempt)
  IN  d.job \in Outcome /\ PointsAtLast(d) /\ d.audit = n /\ EndedUpTo(d, n)

RecoveringRow(d, lines) ==
  LET n == Len(d.attempt)
  IN  d.job = "running" /\ PointsAtLast(d) /\ d.audit = n - 1 + lines /\ EndedUpTo(d, n)

-----------------------------------------------------------------------------
(* The invariant *)

\* Where the threads may be.
Threads ==
  /\ server # "up" => worker.pc = "idle"
  /\ main.pc \in {"scanning", "recovering", "requeueing"} <=> server = "starting"
  /\ server \in {"down", "failed"} => main.pc = "idle"
  /\ worker.pc # "idle" => worker.job \in Job
  /\ main.pc \notin {"idle", "scanning"} => main.job \in Job

\* What the worker relies on about the job it has, in the middle of a file
\* operation or of an analysis, whatever requests come meanwhile.
WorkerRow ==
  LET d == disk[worker.job]
  IN  /\ worker.pc = "listing" => ListingRow(d)
      /\ worker.pc \in {"analysing"} \cup Outcome => RunsRow(d)
      /\ worker.pc \in Outcome => HasResult(d, worker.pc)
      /\ worker.pc = "finishing" => FinishingRow(d)

\* What a deletion has left of the job: no directory, or one whose creation was cut.
Removed(d, j) == d.job = "absent" \/ (d.job = "made" /\ j \in cut)

Deleting == {"purging", "unlinking", "dropping", "forgetting", "closing"}

\* What the main thread relies on about the job it has.
MainRow ==
  LET d == disk[main.job]
  IN  /\ main.pc = "made" => d.job = "made" /\ BlankRow(d) /\ d.deletion = "none"
      /\ main.pc = "retrying" => RetryingRow(d)
      /\ main.pc = "recovering" => RecoveringRow(d, 0)
      /\ main.pc = "requeueing" => RecoveringRow(d, 1)
      /\ main.pc \in Deleting => d.deletion = "intent"
      /\ main.pc = "purging" => d.job \in Outcome \/ Removed(d, main.job)
      /\ main.pc \in Deleting \ {"purging"} => d.result = {}
      /\ main.pc = "unlinking" => d.job \in Outcome
      /\ main.pc = "dropping" => d.job \in Outcome \cup {"made"}
      /\ main.pc \in {"forgetting", "closing"} => Removed(d, main.job)
      /\ main.pc = "closing" => d.session = "gone"

\* What the files of each job say, whoever has it.
Row(j) ==
  LET d == disk[j]
  IN  /\ d.job = "absent" => BlankRow(d)
      /\ d.job \in {"ready", "partial"} => d.active \in d.result \/ DeletionStarted(j)
      /\ d.deletion = "completed" => d.session = "gone" /\ Removed(d, j) /\ d.result = {}
      /\ j \notin cut \cup Torn => d.job = "absent" \/ WholeRow(d)

Rows == \A j \in Job : Row(j)

IInv == TypeOK /\ Threads /\ WorkerRow /\ MainRow /\ Rows

-----------------------------------------------------------------------------
(* Types *)

DiskRow == [job : JobStatus, listed : Nat, active : Nat, attempt : Seq(AttemptStatus),
            audit : Nat, result : SUBSET Nat, attached : BOOLEAN,
            session : {"finalized", "gone"}, deletion : {"none", "intent", "completed"}]

DiskTyped == disk \in [Job -> DiskRow]

\* One action writes the files of one job.
Writes(j, row) == disk' = [disk EXCEPT ![j] = row]

\* The statuses a job goes through are not outcomes, and outcomes are statuses.
LEMMA Statuses ==
  /\ \A x \in {"absent", "made", "queued", "running"} : x \in JobStatus /\ x \notin Outcome
  /\ Outcome \subseteq JobStatus /\ Outcome \subseteq AttemptStatus
  /\ \A x \in {"ready", "partial", "error"} : x \in Outcome
  /\ "running" \in AttemptStatus
  BY DEF JobStatus, Outcome, AttemptStatus

\* A job whose files are written has the files, and no other job has changed.
LEMMA WriteFacts ==
  ASSUME DiskTyped, NEW j \in Job, NEW row \in DiskRow, Writes(j, row)
  PROVE  DiskTyped' /\ disk'[j] = row /\ \A k \in Job : k # j => disk'[k] = disk[k]
  BY DEF DiskTyped, Writes

\* An attempt that is added.
LEMMA AttemptAdded ==
  ASSUME NEW q \in Seq(AttemptStatus), NEW x \in AttemptStatus
  PROVE  /\ Append(q, x) \in Seq(AttemptStatus)
         /\ Len(Append(q, x)) = Len(q) + 1 /\ Len(q) \in Nat
         /\ Append(q, x)[Len(q) + 1] = x
         /\ \A k \in 1..Len(q) : Append(q, x)[k] = q[k]
  OBVIOUS

\* An attempt that gets its outcome.
LEMMA AttemptSet ==
  ASSUME NEW q \in Seq(AttemptStatus), NEW x \in AttemptStatus, Len(q) > 0,
         NEW r, r = [q EXCEPT ![Len(q)] = x]
  PROVE  /\ r \in Seq(AttemptStatus) /\ Len(r) = Len(q) /\ Len(q) \in Nat
         /\ r[Len(q)] = x /\ \A k \in 1..Len(q) - 1 : r[k] = q[k]
<1>1. Len(q) \in 1..Len(q)
  OBVIOUS
<1> QED
  BY <1>1, ExceptSeq

\* A session without a job, in the files, and no thread at work.
LEMMA InitIInv == Init => IInv
<1> SUFFICES ASSUME Init
             PROVE  IInv
  OBVIOUS
<1>1. NoJob \in DiskRow
  BY Statuses DEF NoJob, DiskRow
<1>2. \A j \in Job : disk[j] = NoJob
  BY DEF Init
<1>3. DiskTyped
  BY <1>1 DEF Init, DiskTyped
<1>4. queue \in Seq(Job) /\ Len(queue) = 0
  BY DEF Init
<1>5. TypeOK
  BY <1>3, <1>4 DEF Init, TypeOK, DiskTyped, DiskRow, Idle
<1>6. Threads /\ WorkerRow /\ MainRow
  BY DEF Init, Threads, WorkerRow, MainRow, Idle, Outcome, Deleting
<1>7. Rows
  BY <1>2 DEF Rows, Row, NoJob, BlankRow
<1> QED
  BY <1>5, <1>6, <1>7 DEF IInv

\* What TypeOK says of the memory of the server.
MemoryTyped ==
  /\ queue \in Seq(Job) /\ Len(queue) <= QueueMax
  /\ enqueued \subseteq Job
  /\ server \in {"down", "starting", "up", "failed"}
  /\ main \in [pc : {"idle", "made", "created", "found", "enqueue", "retrying", "purging",
                     "unlinking", "dropping", "forgetting", "closing", "scanning",
                     "recovering", "requeueing"}, job : Job \cup {None}]
  /\ worker \in [pc : {"idle", "begin", "listing", "analysing", "finishing", "release", "dead"} \cup Outcome,
                 job : Job \cup {None}]
  /\ cut \subseteq Job
  /\ troubles \in 0..MaxTrouble

\* The type invariant is that of the disk and that of the memory.
LEMMA TypeParts == TypeOK <=> DiskTyped /\ MemoryTyped
  BY DEF TypeOK, DiskTyped, DiskRow, MemoryTyped

\* Requests keep the types of the memory.
LEMMA RequestMemory ==
  ASSUME MemoryTyped, NEW j \in Job, RequestStep(j)
  PROVE  MemoryTyped'
<1> USE DEF MemoryTyped, memory, history
<1>1. CASE MakeJob(j) \/ PublishJob(j) \/ FindJob(j) \/ AttachJob(j)
  BY <1>1 DEF MakeJob, PublishJob, FindJob, AttachJob, Idle
<1>2. CASE Enqueue(j)
  <2>1. CASE queue' = Append(queue, j) /\ Len(queue) < QueueMax /\ enqueued' = enqueued \cup {j}
    <3>1. queue' \in Seq(Job) /\ Len(queue') <= QueueMax
      BY <2>1
    <3> QED
      BY <1>2, <2>1, <3>1 DEF Enqueue, Idle
  <2>2. CASE UNCHANGED <<queue, enqueued>>
    BY <1>2, <2>2 DEF Enqueue, Idle
  <2> QED
    BY <1>2, <2>1, <2>2 DEF Enqueue
<1>3. CASE Retry(j) \/ RetryQueued(j) \/ RepeatRetry(j)
  BY <1>3 DEF Retry, RetryQueued, RepeatRetry
<1>4. CASE DeleteBegin(j) \/ PurgeResults(j) \/ UnlinkSome(j)
  BY <1>4 DEF DeleteBegin, PurgeResults, UnlinkSome
<1>5. CASE DropJob(j) \/ ForgetSession(j) \/ DeleteEnd(j)
  BY <1>5 DEF DropJob, ForgetSession, DeleteEnd, Idle
<1> QED
  BY <1>1, <1>2, <1>3, <1>4, <1>5 DEF RequestStep

\* The worker, startup and failures keep them.
LEMMA OtherMemory ==
  ASSUME MemoryTyped, WorkerStep \/ StartStep \/ StopServer \/ Failure
  PROVE  MemoryTyped'
<1> USE DEF MemoryTyped, memory, history
<1>1. CASE Take
  <2>1. Tail(queue) \in Seq(Job) /\ Len(Tail(queue)) <= QueueMax /\ Head(queue) \in Job
    BY <1>1 DEF Take
  <2> QED
    BY <1>1, <2>1 DEF Take
<1>2. ASSUME NEW j \in Job, Begin(j) \/ ListAttempt(j) \/ Analyse(j)
      PROVE  MemoryTyped'
  BY <1>2 DEF Begin, ListAttempt, Analyse
<1>3. ASSUME NEW j \in Job, FinishAttempt(j) \/ ProjectOutcome(j) \/ Release(j)
      PROVE  MemoryTyped'
  BY <1>3 DEF FinishAttempt, ProjectOutcome, Release, Idle
<1>4. CASE Start \/ StartFails
  BY <1>4 DEF Start, StartFails, Idle
<1>5. CASE StartUp
  <2>1. IsFiniteSet(Waiting) /\ Cardinality(Waiting) \in Nat
    BY FS_Subset, FS_CardinalityType DEF Waiting
  <2>2. queue' \in [1..Cardinality(Waiting) -> Waiting] /\ Waiting \subseteq Job
    BY <1>5 DEF StartUp, Waiting
  <2>3. queue' \in Seq(Job) /\ Len(queue') = Cardinality(Waiting)
    BY <2>1, <2>2
  <2> QED
    BY <1>5, <2>2, <2>3 DEF StartUp, Idle
<1>6. ASSUME NEW j \in Job, RecoverAttempt(j) \/ RecoverAudit(j) \/ RecoverJob(j)
      PROVE  MemoryTyped'
  BY <1>6 DEF RecoverAttempt, RecoverAudit, RecoverJob
<1>7. CASE Crash
  <2>1. Torn \subseteq Job /\ <<>> \in Seq(Job) /\ Len(<<>>) = 0
    BY DEF Torn
  <2> QED
    BY <1>7, <2>1 DEF Crash, Idle
<1>8. ASSUME NEW j \in Job, WorkerWriteFails(j)
      PROVE  MemoryTyped'
  <2>1. /\ UNCHANGED <<queue, server, main>> /\ troubles' = troubles + 1 /\ troubles < MaxTrouble
        /\ enqueued' \subseteq enqueued /\ cut' \subseteq cut \cup {j}
        /\ \E pc \in {"release", "error", "dead"} : worker' = [worker EXCEPT !.pc = pc]
    BY <1>8 DEF WorkerWriteFails
  <2> QED
    BY <2>1, Statuses
<1>9. ASSUME NEW j \in Job, MainWriteFails(j)
      PROVE  MemoryTyped'
  BY <1>9 DEF MainWriteFails, Idle
<1>10. CASE StopServer
  <2>1. <<>> \in Seq(Job) /\ Len(<<>>) = 0
    OBVIOUS
  <2> QED
    BY <1>10, <2>1 DEF StopServer, Idle
<1> QED
  BY <1>1, <1>2, <1>3, <1>4, <1>5, <1>6, <1>7, <1>8, <1>9, <1>10 DEF WorkerStep, StartStep, Failure

-----------------------------------------------------------------------------
(* Threads *)

\* The steps of the threads keep each where it may be.
LEMMA ThreadsKept ==
  ASSUME IInv, Next
  PROVE  Threads'
<1> USE DEF Threads, memory, history
<1>0. Threads /\ MemoryTyped
  BY TypeParts DEF IInv
<1>1. ASSUME NEW j \in Job, MakeJob(j) \/ PublishJob(j) \/ FindJob(j) \/ AttachJob(j) \/ Enqueue(j)
      PROVE  Threads'
  BY <1>0, <1>1 DEF MakeJob, PublishJob, FindJob, AttachJob, Enqueue, Request, Idle
<1>2. ASSUME NEW j \in Job, Retry(j) \/ RetryQueued(j) \/ RepeatRetry(j)
      PROVE  Threads'
  BY <1>0, <1>2 DEF Retry, RetryQueued, RepeatRetry, Request
<1>3. ASSUME NEW j \in Job, DeleteBegin(j) \/ PurgeResults(j) \/ UnlinkSome(j)
      PROVE  Threads'
  BY <1>0, <1>3 DEF DeleteBegin, PurgeResults, UnlinkSome, Request, MemoryTyped
<1>4. ASSUME NEW j \in Job, DropJob(j) \/ ForgetSession(j) \/ DeleteEnd(j)
      PROVE  Threads'
  BY <1>0, <1>4 DEF DropJob, ForgetSession, DeleteEnd, Idle, MemoryTyped
<1>5. CASE Take
  BY <1>0, <1>5 DEF Take, MemoryTyped
<1>6. ASSUME NEW j \in Job, Begin(j) \/ ListAttempt(j) \/ Analyse(j)
      PROVE  Threads'
  BY <1>0, <1>6 DEF Begin, ListAttempt, Analyse, MemoryTyped
<1>7. ASSUME NEW j \in Job, FinishAttempt(j) \/ ProjectOutcome(j) \/ Release(j)
      PROVE  Threads'
  BY <1>0, <1>7, Statuses DEF FinishAttempt, ProjectOutcome, Release, Idle, MemoryTyped, Outcome
<1>8. CASE Start \/ StartUp \/ StartFails
  BY <1>0, <1>8 DEF Start, StartUp, StartFails, Idle
<1>9. ASSUME NEW j \in Job, RecoverAttempt(j) \/ RecoverAudit(j) \/ RecoverJob(j)
      PROVE  Threads'
  BY <1>0, <1>9 DEF RecoverAttempt, RecoverAudit, RecoverJob
<1>10. CASE Crash
  BY <1>0, <1>10 DEF Crash, Idle
<1>11. ASSUME NEW j \in Job, WorkerWriteFails(j) \/ MainWriteFails(j)
       PROVE  Threads'
  <2>1. CASE WorkerWriteFails(j)
    <3>1. worker.pc # "idle" /\ UNCHANGED <<server, main>> /\ worker'.job = worker.job
      BY <1>0, <2>1, Statuses DEF WorkerWriteFails, MemoryTyped, Outcome
    <3> QED
      BY <1>0, <3>1
  <2>2. CASE MainWriteFails(j)
    BY <1>0, <2>2 DEF MainWriteFails, MainHolds, Idle, MemoryTyped
  <2> QED
    BY <1>11, <2>1, <2>2
<1>12. CASE StopServer
  BY <1>0, <1>12 DEF StopServer, Request, Idle
<1> QED
  BY <1>1, <1>2, <1>3, <1>4, <1>5, <1>6, <1>7, <1>8, <1>9, <1>10, <1>11, <1>12
     DEF Next, RequestStep, WorkerStep, StartStep, Failure

\* The threads in the middle of an operation on a job's files.
Working == {"listing", "analysing", "finishing"} \cup Outcome
Held == {"made", "retrying", "recovering", "requeueing"} \cup Deleting

\* An operation of the worker is on a job that waits or runs, one of a request
\* on a job that does neither, and the worker rests while the server starts.
LEMMA Apart ==
  ASSUME IInv
  PROVE  /\ worker.pc \in Working =>
              worker.job \in Job /\ server = "up" /\ disk[worker.job].job \in {"queued", "running"}
         /\ main.pc \in Held => main.job \in Job
         /\ main.pc \in Held /\ server = "up" => disk[main.job].job \notin {"queued", "running"}
         /\ worker.pc \in Working /\ main.pc \in Held => worker.job # main.job
<1>1. worker.pc \in Working =>
        worker.job \in Job /\ server = "up" /\ disk[worker.job].job \in {"queued", "running"}
  <2>1. worker.pc \in Working => worker.job \in Job /\ server = "up"
    BY TypeParts DEF IInv, MemoryTyped, Threads, Working, Outcome
  <2>2. worker.pc = "listing" => disk[worker.job].job = "queued"
    BY DEF IInv, WorkerRow, ListingRow
  <2>3. worker.pc \in {"analysing", "finishing"} \cup Outcome => disk[worker.job].job = "running"
    BY DEF IInv, WorkerRow, RunsRow, FinishingRow
  <2> QED
    BY <2>1, <2>2, <2>3 DEF Working
<1>2. main.pc \in Held => main.job \in Job
  BY DEF IInv, Threads, Held, Deleting
<1>3. main.pc \in Held /\ server = "up" => disk[main.job].job \notin {"queued", "running"}
  BY Statuses DEF IInv, Threads, MainRow, Held, Deleting, RetryingRow, Removed
<1> QED
  BY <1>1, <1>2, <1>3

\* The jobs whose files are between two writes.
LEMMA TornIs ==
  \A k : k \in Torn <=>
    k \in Job /\ \/ worker.job = k /\ worker.pc \in {"listing", "finishing"}
                 \/ main.job = k /\ main.pc \in Held
  BY DEF Torn, WorkerHolds, MainHolds, Held, Deleting

\* A job the main thread has stays between two writes while the worker moves.
LEMMA MainKeepsTorn ==
  ASSUME UNCHANGED main, NEW k \in Job, main.job = k, main.pc \in Held
  PROVE  k \in Torn'
  BY DEF Torn, MainHolds, Held, Deleting

\* _read_complete_job accepts exactly the directories that tell one story.
LEMMA TrustedIsWhole ==
  ASSUME TypeOK, NEW j \in Job
  PROVE  Trusted(j) <=> WholeRow(disk[j])
<1> DEFINE d == disk[j]
           n == Len(d.attempt)
<1>1. d.attempt \in Seq(AttemptStatus) /\ n \in Nat /\ d.listed \in Nat /\ d.active \in Nat /\ d.audit \in Nat
  BY TypeParts DEF DiskTyped, DiskRow
<1>2. \A k \in 1..n : d.attempt[k] = "running" \/ d.attempt[k] \in Outcome
  BY <1>1 DEF AttemptStatus
<1>3. n = 0 <=> d.attempt = <<>>
  BY <1>1
<1>4. d.job \in JobStatus
  BY TypeParts DEF DiskTyped, DiskRow
<1>5. CASE d.job = "queued"
  BY <1>1, <1>2, <1>3, <1>5, Statuses
     DEF Trusted, Published, JobFields, RetryLines, WholeRow, WaitsRow, RunsRow, EndedRow, EndedUpTo
<1>6. ASSUME d.job # "queued", d.job \notin {"absent", "made"}
      PROVE  Trusted(j) <=> /\ PointsAtLast(d) /\ d.audit = n - 1
                            /\ \A k \in 1..n : d.attempt[k] = "running" => d.job = "running" /\ k = n
                            /\ d.job = "running" => d.attempt[n] = "running"
                            /\ d.job \in Outcome => d.attempt[n] = d.job
  BY <1>1, <1>3, <1>4, <1>6 DEF Trusted, Published, JobFields, RetryLines, PointsAtLast, JobStatus
<1>7. CASE d.job = "running"
  <2>1. Trusted(j) <=> /\ PointsAtLast(d) /\ d.audit = n - 1 /\ d.attempt[n] = "running"
                       /\ \A k \in 1..n : d.attempt[k] = "running" => k = n
    BY <1>7, <1>6, Statuses
  <2>2. WholeRow(d) <=> /\ PointsAtLast(d) /\ d.audit = n - 1 /\ d.attempt[n] = "running"
                        /\ \A k \in 1..n - 1 : d.attempt[k] \in Outcome
    BY <1>7, Statuses DEF WholeRow, WaitsRow, RunsRow, EndedRow, Last, EndedUpTo
  <2>3. (\A k \in 1..n : d.attempt[k] = "running" => k = n) <=> (\A k \in 1..n - 1 : d.attempt[k] \in Outcome)
    BY <1>1, <1>2, Statuses
  <2> QED
    BY <2>1, <2>2, <2>3
<1>8. CASE d.job \in Outcome
  <2>1. Trusted(j) <=> /\ PointsAtLast(d) /\ d.audit = n - 1 /\ d.attempt[n] = d.job
                       /\ \A k \in 1..n : d.attempt[k] # "running"
    BY <1>8, <1>6, Statuses
  <2>2. WholeRow(d) <=> /\ PointsAtLast(d) /\ d.audit = n - 1 /\ d.attempt[n] = d.job
                        /\ \A k \in 1..n : d.attempt[k] \in Outcome
    BY <1>8, Statuses DEF WholeRow, WaitsRow, RunsRow, EndedRow, Last, EndedUpTo
  <2>3. (\A k \in 1..n : d.attempt[k] # "running") <=> (\A k \in 1..n : d.attempt[k] \in Outcome)
    BY <1>1, <1>2, Statuses
  <2> QED
    BY <2>1, <2>2, <2>3
<1>9. CASE d.job \in {"absent", "made"}
  BY <1>9, Statuses DEF Trusted, Published, WholeRow, WaitsRow, RunsRow, EndedRow
<1> QED
  BY <1>4, <1>5, <1>7, <1>8, <1>9 DEF JobStatus

-----------------------------------------------------------------------------
(* What an action leaves alone *)

\* A step that leaves the worker where it is and its job's files as they are.
LEMMA WorkerRowKept ==
  ASSUME WorkerRow, UNCHANGED worker,
         worker.pc \in Working => disk'[worker.job] = disk[worker.job]
  PROVE  WorkerRow'
<1>1. CASE worker.pc \in Working
  BY <1>1 DEF WorkerRow
<1>2. CASE worker.pc \notin Working
  BY <1>2 DEF WorkerRow, Working
<1> QED
  BY <1>1, <1>2

\* The same for the main thread; the cut jobs only grow.
LEMMA MainRowKept ==
  ASSUME MainRow, UNCHANGED main, cut \subseteq cut',
         main.pc \in Held => disk'[main.job] = disk[main.job]
  PROVE  MainRow'
<1>1. CASE main.pc \in Held
  BY <1>1 DEF MainRow, Removed
<1>2. CASE main.pc \notin Held
  BY <1>2 DEF MainRow, Held, Deleting
<1> QED
  BY <1>1, <1>2

\* A step on one job leaves what is said of the others.
LEMMA RowsKept ==
  ASSUME Rows, NEW j \in Job, cut \subseteq cut', Row(j)',
         \A k \in Job \ {j} : disk'[k] = disk[k] /\ (k \in Torn => k \in cut' \cup Torn')
  PROVE  Rows'
<1> SUFFICES ASSUME NEW k \in Job \ {j}
             PROVE  Row(k)'
  BY DEF Rows
<1>1. Row(k) /\ disk'[k] = disk[k] /\ (k \in cut \cup Torn => k \in cut' \cup Torn')
  BY DEF Rows
<1> QED
  BY <1>1 DEF Row, DeletionStarted, Removed

\* A step that writes no file, and leaves no job between two files that was so.
LEMMA NoWriteKeepsRows ==
  ASSUME Rows, UNCHANGED disk, cut \subseteq cut', Torn \subseteq cut' \cup Torn'
  PROVE  Rows'
<1> SUFFICES ASSUME NEW k \in Job
             PROVE  Row(k)'
  BY DEF Rows
<1>1. Row(k)
  BY DEF Rows
<1> QED
  BY <1>1 DEF Row, DeletionStarted, Removed

\* A job that is not cut, and that no thread holds, is whole; a session with
\* files of a job was not deleted.
LEMMA RestingRow ==
  ASSUME IInv, NEW j \in Job
  PROVE  /\ j \notin cut \cup Torn => disk[j].job = "absent" \/ WholeRow(disk[j])
         /\ disk[j].job \notin {"absent", "made"} => disk[j].deletion # "completed"
         /\ disk[j].job = "absent" => BlankRow(disk[j])
         /\ disk[j] \in DiskRow
  BY TypeParts DEF IInv, Rows, Row, Removed, DiskTyped

-----------------------------------------------------------------------------
(* Requests *)

FilesAgree == DiskTyped /\ WorkerRow /\ MainRow /\ Rows

\* The steps that move the main thread alone.
LEMMA MainMoves ==
  ASSUME IInv, UNCHANGED <<disk, worker, cut>>, main.pc \notin Held, main'.pc \notin Held
  PROVE  FilesAgree'
<1>1. WorkerRow'
  BY WorkerRowKept DEF IInv
<1>2. MainRow'
  BY DEF MainRow, Held, Deleting
<1>3. Rows'
  BY NoWriteKeepsRows, TornIs DEF IInv, Torn, WorkerHolds, MainHolds, Held, Deleting
<1> QED
  BY <1>1, <1>2, <1>3, TypeParts DEF FilesAgree, IInv, DiskTyped

\* A write of the main thread to a job that does not wait or run.
LEMMA MainWrites ==
  ASSUME IInv, NEW j \in Job, NEW row \in DiskRow, Writes(j, row), UNCHANGED <<worker, cut>>,
         disk[j].job \notin {"queued", "running"} \/ server # "up",
         main.pc \in Held => main.job = j,
         MainRow', Row(j)'
  PROVE  FilesAgree'
<1>1. DiskTyped' /\ disk'[j] = row /\ \A k \in Job : k # j => disk'[k] = disk[k]
  BY WriteFacts, TypeParts DEF IInv
<1>2. WorkerRow'
  BY <1>1, WorkerRowKept, Apart DEF IInv
<1>3. \A k \in Job \ {j} : k \in Torn => k \in Torn'
  BY TornIs DEF Torn, WorkerHolds
<1>4. Rows'
  BY <1>1, <1>3, RowsKept DEF IInv
<1> QED
  BY <1>1, <1>2, <1>4 DEF FilesAgree

\* MakeJob and PublishJob: an empty directory, and a job that waits.
LEMMA CreateKeeps ==
  ASSUME IInv, NEW j \in Job, MakeJob(j) \/ PublishJob(j)
  PROVE  FilesAgree'
<1>0. disk[j] \in DiskRow
  BY RestingRow
<1>1. CASE MakeJob(j)
  <2> DEFINE row == [disk[j] EXCEPT !.job = "made"]
  <2>1. Writes(j, row) /\ UNCHANGED <<worker, cut>> /\ main.pc = "idle"
        /\ main' = [pc |-> "made", job |-> j]
        /\ disk[j].job = "absent" /\ disk[j].deletion = "none"
    BY <1>1 DEF MakeJob, Writes, Request, Exists, DeletionStarted, history
  <2>2. row \in DiskRow /\ row.job = "made" /\ BlankRow(row) /\ row.deletion = "none"
    BY <1>0, <2>1, RestingRow, Statuses DEF DiskRow, BlankRow
  <2>3. disk'[j] = row
    BY <2>1, <2>2, WriteFacts, TypeParts DEF IInv
  <2>4. MainRow'
    BY <2>1, <2>2, <2>3 DEF MainRow, Deleting
  <2>5. Row(j)'
    <3>1. j \in Torn'
      BY <2>1 DEF Torn, MainHolds
    <3> QED
      BY <2>2, <2>3, <3>1 DEF Row
  <2> QED
    BY <2>1, <2>2, <2>4, <2>5, MainWrites DEF Held, Deleting
<1>2. CASE PublishJob(j)
  <2> DEFINE row == [disk[j] EXCEPT !.job = "queued"]
  <2>1. Writes(j, row) /\ UNCHANGED <<worker, cut>>
        /\ main = [pc |-> "made", job |-> j] /\ main' = [pc |-> "created", job |-> j]
    BY <1>2 DEF PublishJob, Writes, history
  <2>2. disk[j].job = "made" /\ BlankRow(disk[j]) /\ disk[j].deletion = "none"
    BY <2>1 DEF IInv, MainRow
  <2>3. row \in DiskRow /\ WaitsRow(row)
    BY <1>0, <2>2, Statuses DEF DiskRow, BlankRow, WaitsRow, EndedUpTo
  <2>4. row.job = "queued" /\ row.deletion = disk[j].deletion
    BY <1>0 DEF DiskRow
  <2>5. disk'[j] = row
    BY <2>1, <2>3, WriteFacts, TypeParts DEF IInv
  <2>6. MainRow'
    BY <2>1 DEF MainRow, Deleting
  <2>7. Row(j)'
    BY <2>2, <2>3, <2>4, <2>5 DEF Row, WholeRow
  <2> QED
    BY <2>1, <2>2, <2>3, <2>6, <2>7, MainWrites DEF Held, Deleting
<1> QED
  BY <1>1, <1>2

\* FindJob, Enqueue and RepeatRetry: the job is offered, no file changes.
LEMMA OfferKeeps ==
  ASSUME IInv, NEW j \in Job, FindJob(j) \/ Enqueue(j) \/ RepeatRetry(j)
  PROVE  FilesAgree'
<1>1. UNCHANGED <<disk, worker, cut>> /\ main.pc \notin Held /\ main'.pc \notin Held
  BY DEF FindJob, Enqueue, RepeatRetry, Request, history, Held, Deleting, Idle
<1> QED
  BY <1>1, MainMoves

\* Files of a job that say the same are in the same state.
LEMMA SameFiles ==
  ASSUME NEW d, NEW e, d.job = e.job, d.listed = e.listed, d.active = e.active,
         d.attempt = e.attempt, d.audit = e.audit, d.result = e.result
  PROVE  /\ WholeRow(d) <=> WholeRow(e)
         /\ BlankRow(d) <=> BlankRow(e)
         /\ ListingRow(d) <=> ListingRow(e)
         /\ RunsRow(d) <=> RunsRow(e)
         /\ FinishingRow(d) <=> FinishingRow(e)
         /\ \A out : HasResult(d, out) <=> HasResult(e, out)
<1>1. /\ PointsAtLast(d) <=> PointsAtLast(e)
      /\ Last(d) = Last(e)
      /\ \A m : EndedUpTo(d, m) <=> EndedUpTo(e, m)
      /\ \A out : HasResult(d, out) <=> HasResult(e, out)
  BY DEF PointsAtLast, Last, EndedUpTo, HasResult
<1>2. BlankRow(d) <=> BlankRow(e)
  BY DEF BlankRow
<1>3. /\ WaitsRow(d) <=> WaitsRow(e)
      /\ RunsRow(d) <=> RunsRow(e)
      /\ EndedRow(d) <=> EndedRow(e)
  BY <1>1 DEF WaitsRow, RunsRow, EndedRow
<1>4. /\ ListingRow(d) <=> ListingRow(e)
      /\ FinishingRow(d) <=> FinishingRow(e)
  BY <1>1 DEF ListingRow, FinishingRow
<1> QED
  BY <1>1, <1>2, <1>3, <1>4 DEF WholeRow

\* AttachJob writes the session's file, not one of the job.
LEMMA AttachKeeps ==
  ASSUME IInv, NEW j \in Job, AttachJob(j)
  PROVE  FilesAgree'
<1> DEFINE row == [disk[j] EXCEPT !.attached = TRUE]
<1>0. disk[j] \in DiskRow
  BY RestingRow
<1>1. Writes(j, row) /\ UNCHANGED <<worker, cut>> /\ main.pc \notin Held /\ main'.pc \notin Held
  BY DEF AttachJob, Writes, history, Held, Deleting, Idle
<1>2. /\ row \in DiskRow /\ row.job = disk[j].job /\ row.listed = disk[j].listed
      /\ row.active = disk[j].active /\ row.attempt = disk[j].attempt /\ row.audit = disk[j].audit
      /\ row.result = disk[j].result /\ row.session = disk[j].session /\ row.deletion = disk[j].deletion
  BY <1>0 DEF DiskRow
<1>3. DiskTyped' /\ disk'[j] = row /\ \A k \in Job : k # j => disk'[k] = disk[k]
  BY <1>1, <1>2, WriteFacts, TypeParts DEF IInv
<1>4. WorkerRow'
  <2>1. worker.pc \in Working => worker.job \in Job
    BY Apart
  <2>2. CASE worker.job # j
    BY <1>1, <1>3, <2>1, <2>2, WorkerRowKept DEF IInv
  <2>3. CASE worker.job = j
    <3>1. /\ ListingRow(disk'[j]) <=> ListingRow(disk[j])
          /\ RunsRow(disk'[j]) <=> RunsRow(disk[j])
          /\ FinishingRow(disk'[j]) <=> FinishingRow(disk[j])
          /\ \A out : HasResult(disk'[j], out) <=> HasResult(disk[j], out)
      <4> HIDE DEF row
      <4> QED
        BY <1>2, <1>3, SameFiles
    <3> QED
      BY <1>1, <2>3, <3>1 DEF IInv, WorkerRow
  <2> QED
    BY <2>2, <2>3
<1>5. MainRow'
  BY <1>1 DEF MainRow, Held, Deleting
<1>6. Row(j)'
  <2>1. Row(j) /\ (j \in Torn => j \in Torn')
    BY <1>1, TornIs DEF IInv, Rows, Torn, WorkerHolds
  <2>2. WholeRow(row) <=> WholeRow(disk[j])
    BY <1>2, SameFiles
  <2>3. BlankRow(row) <=> BlankRow(disk[j])
    BY <1>2, SameFiles
  <2> QED
    BY <1>1, <1>2, <1>3, <2>1, <2>2, <2>3 DEF Row, Removed, DeletionStarted
<1>7. \A k \in Job \ {j} : k \in Torn => k \in Torn'
  BY <1>1, TornIs DEF Torn, WorkerHolds
<1>8. Rows'
  BY <1>1, <1>3, <1>6, <1>7, RowsKept DEF IInv
<1> QED
  BY <1>3, <1>4, <1>5, <1>8 DEF FilesAgree

\* Retry and RetryQueued: the line of the retry, then the job.
LEMMA RetryKeeps ==
  ASSUME IInv, NEW j \in Job, Retry(j) \/ RetryQueued(j)
  PROVE  FilesAgree'
<1>0. disk[j] \in DiskRow /\ Len(disk[j].attempt) \in Nat
  BY RestingRow DEF DiskRow
<1>1. CASE Retry(j)
  <2> DEFINE row == [disk[j] EXCEPT !.audit = @ + 1]
  <2>1. Writes(j, row) /\ UNCHANGED <<worker, cut>> /\ main.pc = "idle"
        /\ main' = [pc |-> "retrying", job |-> j]
        /\ disk[j].job \in {"partial", "error"} /\ Trusted(j)
    BY <1>1 DEF Retry, Writes, Request, history
  <2>2. EndedRow(disk[j])
    BY <2>1, TrustedIsWhole DEF WholeRow, WaitsRow, RunsRow, IInv
  <2>3. /\ row \in DiskRow /\ row.job = disk[j].job /\ row.deletion = disk[j].deletion
        /\ row.active = disk[j].active /\ row.result = disk[j].result
        /\ row.listed = disk[j].listed /\ row.attempt = disk[j].attempt
        /\ row.audit = disk[j].audit + 1
    BY <1>0 DEF DiskRow
  <2>4. RetryingRow(row)
    <3> HIDE DEF row
    <3>1. Len(row.attempt) = Len(disk[j].attempt) /\ Len(disk[j].attempt) \in Nat
      BY <1>0, <2>3 DEF DiskRow
    <3>2. row.audit = Len(row.attempt)
      BY <2>2, <2>3, <3>1 DEF EndedRow
    <3> QED
      BY <2>2, <2>3, <3>2 DEF RetryingRow, EndedRow, PointsAtLast, EndedUpTo
  <2>5. disk'[j] = row
    BY <2>1, <2>3, WriteFacts, TypeParts DEF IInv
  <2>6. MainRow'
    BY <2>1, <2>4, <2>5 DEF MainRow, Deleting
  <2>7. Row(j)'
    <3>1. j \in Torn' /\ Row(j)
      BY <2>1 DEF Torn, MainHolds, IInv, Rows
    <3> QED
      BY <2>1, <2>3, <2>5, <3>1, RestingRow DEF Row, DeletionStarted
  <2> QED
    BY <2>1, <2>3, <2>6, <2>7, MainWrites DEF Held, Deleting
<1>2. CASE RetryQueued(j)
  <2> DEFINE row == [disk[j] EXCEPT !.job = "queued", !.active = 0]
  <2>1. Writes(j, row) /\ UNCHANGED <<worker, cut>>
        /\ main = [pc |-> "retrying", job |-> j] /\ main' = [pc |-> "enqueue", job |-> j]
    BY <1>2 DEF RetryQueued, Writes, history
  <2>2. RetryingRow(disk[j])
    BY <2>1 DEF IInv, MainRow
  <2>3. row \in DiskRow /\ WaitsRow(row)
    BY <1>0, <2>2, Statuses DEF DiskRow, RetryingRow, WaitsRow, PointsAtLast, EndedUpTo
  <2>4. row.job = "queued" /\ row.deletion = disk[j].deletion
    BY <1>0 DEF DiskRow
  <2>5. disk'[j] = row
    BY <2>1, <2>3, WriteFacts, TypeParts DEF IInv
  <2>6. MainRow'
    BY <2>1 DEF MainRow, Deleting
  <2>7. disk[j].job \in Outcome
    BY <2>2 DEF RetryingRow
  <2>8. Row(j)'
    BY <2>3, <2>4, <2>5, <2>7, RestingRow, Statuses DEF Row, WholeRow
  <2> QED
    BY <2>1, <2>3, <2>6, <2>7, <2>8, MainWrites, Statuses DEF Held, Deleting
<1> QED
  BY <1>1, <1>2

\* DeleteBegin: the first line about the deletion.
LEMMA DeleteBeginKeeps ==
  ASSUME IInv, NEW j \in Job, DeleteBegin(j)
  PROVE  FilesAgree'
<1> DEFINE row == [disk[j] EXCEPT !.deletion = "intent"]
<1>0. disk[j] \in DiskRow
  BY RestingRow
<1>1. Writes(j, row) /\ UNCHANGED <<worker, cut>> /\ main.pc = "idle"
      /\ main' = [pc |-> "purging", job |-> j]
      /\ disk[j].job \notin {"queued", "running"}
      /\ ~WorkerHolds(j)
  BY DEF DeleteBegin, Deletable, Writes, Request, history
<1>2. /\ row \in DiskRow /\ row.job = disk[j].job /\ row.deletion = "intent"
      /\ row.listed = disk[j].listed /\ row.active = disk[j].active /\ row.attempt = disk[j].attempt
      /\ row.audit = disk[j].audit /\ row.result = disk[j].result
  BY <1>0 DEF DiskRow
<1>3. disk'[j] = row
  BY <1>1, <1>2, WriteFacts, TypeParts DEF IInv
<1>4. disk[j].job \in Outcome \/ Removed(disk[j], j)
  <2>1. j \notin Torn
    BY <1>1, TornIs DEF WorkerHolds, Held, Deleting
  <2>2. CASE disk[j].job = "made"
    BY <2>1, <2>2, RestingRow, Statuses DEF WholeRow, WaitsRow, RunsRow, EndedRow, Removed
  <2>3. disk[j].job \in JobStatus
    BY <1>0 DEF DiskRow
  <2> QED
    BY <1>1, <2>2, <2>3 DEF Removed, JobStatus
<1>5. MainRow'
  BY <1>1, <1>2, <1>3, <1>4 DEF MainRow, Deleting, Removed
<1>6. Row(j)'
  <2>1. j \in Torn'
    BY <1>1 DEF Torn, MainHolds
  <2> QED
    BY <1>2, <1>3, <2>1, RestingRow DEF Row, DeletionStarted, BlankRow
<1> QED
  BY <1>1, <1>2, <1>5, <1>6, MainWrites DEF Held, Deleting

\* The files go: results, the job's directory, the session.
LEMMA DeleteKeeps ==
  ASSUME IInv, NEW j \in Job,
         PurgeResults(j) \/ UnlinkSome(j) \/ DropJob(j) \/ ForgetSession(j) \/ DeleteEnd(j)
  PROVE  FilesAgree'
<1>0. disk[j] \in DiskRow /\ <<>> \in Seq(AttemptStatus)
  BY RestingRow
<1>1. main.pc \in Deleting /\ main.job = j
  BY DEF PurgeResults, UnlinkSome, DropJob, ForgetSession, DeleteEnd, Deleting
<1>2. disk[j].job \notin {"queued", "running"} /\ disk[j].deletion = "intent"
  BY <1>1, Statuses DEF IInv, MainRow, Removed, Deleting
<1>3. CASE PurgeResults(j)
  <2> DEFINE row == [disk[j] EXCEPT !.result = {}]
  <2>1. Writes(j, row) /\ UNCHANGED <<worker, cut>> /\ main.pc = "purging" /\ main'.job = j
        /\ main'.pc = IF disk[j].job \in Outcome THEN "unlinking" ELSE "forgetting"
    BY <1>1, <1>3, TypeParts DEF PurgeResults, Writes, history, IInv, MemoryTyped
  <2>2. row \in DiskRow /\ row.job = disk[j].job /\ row.deletion = "intent" /\ row.result = {}
        /\ row.listed = disk[j].listed /\ row.active = disk[j].active /\ row.attempt = disk[j].attempt
        /\ row.audit = disk[j].audit
    BY <1>0, <1>2 DEF DiskRow
  <2>3. disk'[j] = row
    BY <2>1, <2>2, WriteFacts, TypeParts DEF IInv
  <2>4. disk[j].job \in Outcome \/ Removed(disk[j], j)
    BY <1>1, <2>1 DEF IInv, MainRow
  <2>5. MainRow'
    BY <2>1, <2>2, <2>3, <2>4 DEF MainRow, Deleting, Removed
  <2>6. Row(j)'
    <3>1. j \in Torn'
      BY <2>1 DEF Torn, MainHolds
    <3> QED
      BY <2>2, <2>3, <3>1, RestingRow DEF Row, DeletionStarted, BlankRow
  <2> QED
    BY <1>1, <1>2, <2>1, <2>2, <2>5, <2>6, MainWrites
<1>4. CASE UnlinkSome(j)
  <2>0. UNCHANGED <<worker, cut>> /\ main.pc = "unlinking" /\ main'.pc = "dropping" /\ main'.job = j
    BY <1>1, <1>4, TypeParts DEF UnlinkSome, history, IInv, MemoryTyped
  <2>1. PICK row \in {[disk[j] EXCEPT !.job = "made", !.listed = 0, !.active = 0],
                      [disk[j] EXCEPT !.attempt = <<>>]} : Writes(j, row)
    BY <1>4 DEF UnlinkSome, Writes
  <2>2. disk[j].job \in Outcome /\ disk[j].result = {}
    BY <1>1, <2>0 DEF IInv, MainRow, Deleting
  <2>3. row \in DiskRow /\ row.deletion = "intent" /\ row.result = {} /\ row.job \in Outcome \cup {"made"}
    <3>1. CASE row = [disk[j] EXCEPT !.job = "made", !.listed = 0, !.active = 0]
      BY <1>0, <1>2, <2>2, <3>1, Statuses DEF DiskRow
    <3>2. CASE row = [disk[j] EXCEPT !.attempt = <<>>]
      BY <1>0, <1>2, <2>2, <3>2 DEF DiskRow
    <3> QED
      BY <2>1, <3>1, <3>2
  <2>4. disk'[j] = row
    BY <2>1, <2>3, WriteFacts, TypeParts DEF IInv
  <2>5. MainRow'
    BY <2>0, <2>3, <2>4 DEF MainRow, Deleting
  <2>6. Row(j)'
    <3>1. j \in Torn'
      BY <2>0 DEF Torn, MainHolds
    <3> QED
      BY <2>3, <2>4, <3>1, Statuses DEF Row, DeletionStarted
  <2> QED
    BY <1>1, <1>2, <2>0, <2>1, <2>3, <2>5, <2>6, MainWrites
<1>5. CASE DropJob(j)
  <2> DEFINE row == [disk[j] EXCEPT !.job = "absent", !.listed = 0, !.active = 0,
                                    !.attempt = <<>>, !.audit = 0]
  <2>0. Writes(j, row)
    BY <1>5 DEF DropJob, Writes
  <2>1. UNCHANGED <<worker, cut>> /\ main.pc = "dropping" /\ main'.pc = "forgetting" /\ main'.job = j
    BY <1>1, <1>5, TypeParts DEF DropJob, history, IInv, MemoryTyped
  <2>2. row \in DiskRow /\ row.job = "absent" /\ row.deletion = "intent" /\ row.result = disk[j].result
        /\ row.listed = 0 /\ row.active = 0 /\ row.attempt = <<>> /\ row.audit = 0
    BY <1>0, <1>2, Statuses DEF DiskRow
  <2>3. disk'[j] = row /\ disk[j].result = {}
    BY <1>1, <2>0, <2>1, <2>2, WriteFacts, TypeParts DEF IInv, MainRow, Deleting
  <2>4. MainRow'
    BY <2>1, <2>2, <2>3 DEF MainRow, Deleting, Removed
  <2>5. Row(j)'
    BY <2>2, <2>3 DEF Row, BlankRow
  <2> QED
    BY <1>1, <1>2, <2>0, <2>1, <2>2, <2>4, <2>5, MainWrites
<1>6. CASE ForgetSession(j)
  <2> DEFINE row == [disk[j] EXCEPT !.session = "gone"]
  <2>1. Writes(j, row) /\ UNCHANGED <<worker, cut>>
        /\ main.pc = "forgetting" /\ main'.pc = "closing" /\ main'.job = j
    BY <1>1, <1>6, TypeParts DEF ForgetSession, Writes, history, IInv, MemoryTyped
  <2>2. row \in DiskRow /\ row.job = disk[j].job /\ row.deletion = "intent" /\ row.session = "gone"
        /\ row.result = disk[j].result /\ row.listed = disk[j].listed /\ row.active = disk[j].active
        /\ row.attempt = disk[j].attempt /\ row.audit = disk[j].audit
    BY <1>0, <1>2 DEF DiskRow
  <2>3. disk'[j] = row /\ disk[j].result = {} /\ Removed(disk[j], j)
    BY <1>1, <2>1, <2>2, WriteFacts, TypeParts DEF IInv, MainRow, Deleting
  <2>4. MainRow'
    BY <2>1, <2>2, <2>3 DEF MainRow, Deleting, Removed
  <2>5. Row(j)'
    <3>1. j \in Torn'
      BY <2>1 DEF Torn, MainHolds
    <3> QED
      BY <2>2, <2>3, <3>1, RestingRow DEF Row, DeletionStarted, BlankRow
  <2> QED
    BY <1>1, <1>2, <2>1, <2>2, <2>4, <2>5, MainWrites
<1>7. CASE DeleteEnd(j)
  <2> DEFINE row == [disk[j] EXCEPT !.deletion = "completed"]
  <2>1. Writes(j, row) /\ UNCHANGED <<worker, cut>> /\ main.pc = "closing" /\ main' = Idle
    BY <1>1, <1>7 DEF DeleteEnd, Writes, history
  <2>2. row \in DiskRow /\ row.job = disk[j].job /\ row.deletion = "completed"
        /\ row.session = disk[j].session /\ row.result = disk[j].result /\ row.listed = disk[j].listed
        /\ row.active = disk[j].active /\ row.attempt = disk[j].attempt /\ row.audit = disk[j].audit
    BY <1>0 DEF DiskRow
  <2>3. disk'[j] = row /\ disk[j].result = {} /\ disk[j].session = "gone" /\ Removed(disk[j], j)
    BY <1>1, <2>1, <2>2, WriteFacts, TypeParts DEF IInv, MainRow, Deleting
  <2>4. MainRow'
    BY <2>1 DEF MainRow, Idle, Deleting
  <2>5. Row(j)'
    BY <2>1, <2>2, <2>3, RestingRow DEF Row, DeletionStarted, BlankRow, Removed
  <2> QED
    BY <1>1, <1>2, <2>1, <2>2, <2>4, <2>5, MainWrites
<1> QED
  BY <1>3, <1>4, <1>5, <1>6, <1>7

-----------------------------------------------------------------------------
(* The worker *)

\* Where the worker has a job, the main thread has none in the middle of a write.
LEMMA WorkerMoves ==
  ASSUME IInv, NEW j \in Job, UNCHANGED <<disk, main, cut>>, worker.job = j \/ worker.pc = "idle",
         worker'.job = j, WorkerRow', worker.pc \notin {"listing", "finishing"}
  PROVE  FilesAgree'
<1>1. MainRow'
  BY MainRowKept DEF IInv
<1>2. Torn \subseteq Torn'
  BY TornIs, MainKeepsTorn
<1>3. Rows'
  BY <1>2, NoWriteKeepsRows DEF IInv
<1> QED
  BY <1>1, <1>3, TypeParts DEF FilesAgree, IInv, DiskTyped

\* A write of the worker to its job.
LEMMA WorkerWrites ==
  ASSUME IInv, NEW j \in Job, NEW row \in DiskRow, Writes(j, row), UNCHANGED <<main, cut>>,
         worker.job = j, main.pc \in Held => main.job # j,
         WorkerRow', Row(j)'
  PROVE  FilesAgree'
<1>1. DiskTyped' /\ disk'[j] = row /\ \A k \in Job : k # j => disk'[k] = disk[k]
  BY WriteFacts, TypeParts DEF IInv
<1>2. MainRow'
  BY <1>1, MainRowKept, Apart DEF IInv
<1>3. \A k \in Job \ {j} : k \in Torn => k \in Torn'
  BY TornIs, MainKeepsTorn
<1>4. Rows'
  BY <1>1, <1>3, RowsKept DEF IInv
<1> QED
  BY <1>1, <1>2, <1>4 DEF FilesAgree

\* Take and Release: no file changes.
LEMMA TakeKeeps ==
  ASSUME IInv, Take \/ (\E j \in Job : Release(j))
  PROVE  FilesAgree'
<1>1. UNCHANGED <<disk, main, cut>> /\ worker.pc \notin {"listing", "finishing"}
      /\ worker'.pc \in {"begin", "idle"}
  BY DEF Take, Release, memory, history, Idle
<1>2. WorkerRow'
  BY <1>1 DEF WorkerRow, Outcome
<1>3. MainRow'
  BY <1>1, MainRowKept DEF IInv
<1>4. Torn \subseteq Torn'
  BY <1>1, TornIs, MainKeepsTorn
<1>5. Rows'
  BY <1>1, <1>4, NoWriteKeepsRows DEF IInv
<1> QED
  BY <1>1, <1>2, <1>3, <1>5, TypeParts DEF FilesAgree, IInv, DiskTyped

\* begin_attempt: the file of the new attempt, then the job.
LEMMA BeginKeeps ==
  ASSUME IInv, NEW j \in Job, Begin(j) \/ ListAttempt(j)
  PROVE  FilesAgree'
<1>0. disk[j] \in DiskRow /\ disk[j].attempt \in Seq(AttemptStatus) /\ disk[j].listed \in Nat
  BY RestingRow DEF DiskRow
<1>1. CASE Begin(j) /\ ~(Trusted(j) /\ disk[j].job = "queued")
  <2>1. UNCHANGED <<disk, main, cut>> /\ worker = [pc |-> "begin", job |-> j]
        /\ worker' = [pc |-> "release", job |-> j]
    BY <1>1 DEF Begin, memory, history
  <2>2. WorkerRow'
    BY <2>1 DEF WorkerRow, Outcome
  <2> QED
    BY <2>1, <2>2, WorkerMoves
<1>2. CASE Begin(j) /\ Trusted(j) /\ disk[j].job = "queued"
  <2> DEFINE q == Append(disk[j].attempt, "running")
             row == [disk[j] EXCEPT !.attempt = q]
  <2>1. Writes(j, row) /\ UNCHANGED <<main, cut>> /\ worker = [pc |-> "begin", job |-> j]
        /\ worker' = [pc |-> "listing", job |-> j] /\ ~MainHolds(j)
    BY <1>2 DEF Begin, Writes, memory, history
  <2>2. WaitsRow(disk[j])
    BY <1>2, TrustedIsWhole, Statuses DEF WholeRow, RunsRow, EndedRow, IInv
  <2>3. /\ q \in Seq(AttemptStatus) /\ Len(q) = Len(disk[j].attempt) + 1 /\ Len(disk[j].attempt) \in Nat
        /\ q[Len(disk[j].attempt) + 1] = "running"
        /\ \A k \in 1..Len(disk[j].attempt) : q[k] = disk[j].attempt[k]
    BY <1>0, AttemptAdded, Statuses
  <2>4. /\ row \in DiskRow /\ row.attempt = q /\ row.job = disk[j].job /\ row.active = disk[j].active
        /\ row.listed = disk[j].listed /\ row.audit = disk[j].audit /\ row.deletion = disk[j].deletion
    BY <1>0, <2>3 DEF DiskRow
  <2>5. ListingRow(row)
    <3> HIDE DEF q, row
    <3>1. Len(row.attempt) - 1 = Len(disk[j].attempt) /\ Len(row.attempt) > 0
      BY <2>3, <2>4
    <3>2. Last(row) = "running"
      BY <2>3, <2>4 DEF Last
    <3>3. EndedUpTo(row, Len(row.attempt) - 1)
      BY <2>2, <2>3, <2>4, <3>1 DEF WaitsRow, EndedUpTo
    <3> QED
      BY <2>2, <2>4, <3>1, <3>2, <3>3 DEF WaitsRow, ListingRow
  <2>6. disk'[j] = row
    BY <2>1, <2>4, WriteFacts, TypeParts DEF IInv
  <2>7. WorkerRow'
    BY <2>1, <2>5, <2>6 DEF WorkerRow, Outcome
  <2>8. Row(j)'
    <3>1. j \in Torn'
      BY <2>1 DEF Torn, WorkerHolds
    <3> QED
      BY <1>2, <2>4, <2>6, <3>1, RestingRow DEF Row
  <2>9. main.pc \in Held => main.job # j
    BY <2>1 DEF MainHolds, Held, Deleting
  <2> QED
    BY <2>1, <2>4, <2>7, <2>8, <2>9, WorkerWrites
<1>3. CASE ListAttempt(j)
  <2> DEFINE row == [disk[j] EXCEPT !.job = "running", !.listed = disk[j].listed + 1,
                                    !.active = disk[j].listed + 1]
  <2>0. Writes(j, row)
    BY <1>3 DEF ListAttempt, Writes
  <2>1. UNCHANGED <<main, cut>> /\ worker = [pc |-> "listing", job |-> j]
        /\ worker' = [pc |-> "analysing", job |-> j]
    BY <1>3 DEF ListAttempt, memory, history
  <2>2. ListingRow(disk[j])
    BY <2>1 DEF IInv, WorkerRow
  <2>3. /\ row \in DiskRow /\ row.attempt = disk[j].attempt /\ row.job = "running"
        /\ row.active = disk[j].listed + 1 /\ row.listed = disk[j].listed + 1
        /\ row.audit = disk[j].audit /\ row.deletion = disk[j].deletion
    <3>1. disk[j].listed + 1 \in Nat /\ "running" \in JobStatus
      BY <1>0, Statuses
    <3> QED
      BY <1>0, <3>1 DEF DiskRow
  <2>4. RunsRow(row)
    <3> HIDE DEF row
    <3>1. Len(disk[j].attempt) \in Nat
      BY <1>0
    <3> QED
      BY <2>2, <2>3, <3>1 DEF RunsRow, ListingRow, Last, EndedUpTo, PointsAtLast
  <2>5. disk'[j] = row
    BY <2>0, <2>3, WriteFacts, TypeParts DEF IInv
  <2>6. WorkerRow'
    BY <2>1, <2>4, <2>5 DEF WorkerRow, Outcome
  <2>7. disk[j].job = "queued"
    BY <2>2 DEF ListingRow
  <2>8. Row(j)'
    BY <2>3, <2>4, <2>5, <2>7, RestingRow DEF Row, WholeRow
  <2>9. main.pc \in Held => main.job # j
    BY <2>1, Apart DEF Working
  <2> QED
    BY <2>0, <2>1, <2>3, <2>6, <2>8, <2>9, WorkerWrites
<1> QED
  BY <1>1, <1>2, <1>3

\* The provider's answer: a result, or none.
LEMMA AnalyseKeeps ==
  ASSUME IInv, NEW j \in Job, Analyse(j)
  PROVE  FilesAgree'
<1>0. disk[j] \in DiskRow /\ Len(disk[j].attempt) \in Nat
  BY RestingRow DEF DiskRow
<1>1. PICK out \in Outcome, stored \in BOOLEAN :
        /\ out # "error" => stored
        /\ disk' = IF stored THEN StoreResult(j) ELSE disk
        /\ worker' = [pc |-> out, job |-> j]
  BY DEF Analyse
<1>2. UNCHANGED <<main, cut>> /\ worker = [pc |-> "analysing", job |-> j]
  BY DEF Analyse, memory, history
<1>3. RunsRow(disk[j]) /\ disk[j].job = "running"
  BY <1>2 DEF IInv, WorkerRow, RunsRow
<1>4. out # "listing" /\ out # "finishing"
  BY DEF Outcome
<1>5. CASE ~stored
  <2>1. WorkerRow'
    BY <1>1, <1>3, <1>4, <1>5 DEF WorkerRow, HasResult
  <2> QED
    BY <1>1, <1>2, <1>5, <2>1, WorkerMoves
<1>6. CASE stored
  <2> DEFINE row == [disk[j] EXCEPT !.result = @ \cup {Len(disk[j].attempt)}]
  <2>1. Writes(j, row)
    BY <1>1, <1>6 DEF StoreResult, Writes
  <2>2. /\ row \in DiskRow /\ row.attempt = disk[j].attempt /\ row.job = disk[j].job
        /\ row.active = disk[j].active /\ row.listed = disk[j].listed /\ row.audit = disk[j].audit
        /\ row.deletion = disk[j].deletion /\ Len(disk[j].attempt) \in row.result
    BY <1>0 DEF DiskRow
  <2>3. RunsRow(row)
    <3> HIDE DEF row
    <3> QED
      BY <1>3, <2>2 DEF RunsRow, PointsAtLast, Last, EndedUpTo
  <2>4. disk'[j] = row
    BY <2>1, <2>2, WriteFacts, TypeParts DEF IInv
  <2>5. WorkerRow'
    BY <1>1, <1>4, <2>2, <2>3, <2>4 DEF WorkerRow, HasResult
  <2>6. Row(j)'
    BY <1>3, <2>2, <2>3, <2>4, RestingRow DEF Row, WholeRow
  <2>7. main.pc \in Held => main.job # j
    BY <1>2, Apart DEF Working
  <2> QED
    BY <1>2, <2>1, <2>2, <2>5, <2>6, <2>7, WorkerWrites
<1> QED
  BY <1>5, <1>6

\* finish_attempt: the attempt, then the job.
LEMMA FinishKeeps ==
  ASSUME IInv, NEW j \in Job, FinishAttempt(j) \/ ProjectOutcome(j)
  PROVE  FilesAgree'
<1>0. disk[j] \in DiskRow /\ disk[j].attempt \in Seq(AttemptStatus) /\ Len(disk[j].attempt) \in Nat
  BY RestingRow DEF DiskRow
<1>1. CASE FinishAttempt(j)
  <2> DEFINE n == Len(disk[j].attempt)
             q == [disk[j].attempt EXCEPT ![n] = worker.pc]
             row == [disk[j] EXCEPT !.attempt = q]
  <2>1. UNCHANGED <<main, cut>> /\ worker.job = j /\ worker.pc \in Outcome
        /\ worker' = [worker EXCEPT !.pc = "finishing"]
    BY <1>1 DEF FinishAttempt, memory, history
  <2>2. Writes(j, row)
    BY <1>1 DEF FinishAttempt, Writes
  <2>3. worker'.pc = "finishing" /\ worker'.job = j
    BY <2>1, TypeParts DEF IInv, MemoryTyped
  <2>4. RunsRow(disk[j]) /\ HasResult(disk[j], worker.pc)
    BY <2>1 DEF IInv, WorkerRow
  <2>5. n > 0
    BY <2>4 DEF RunsRow, PointsAtLast
  <2>6. q \in Seq(AttemptStatus) /\ Len(q) = n /\ q[n] = worker.pc
        /\ \A k \in 1..n - 1 : q[k] = disk[j].attempt[k]
    BY <1>0, <2>1, <2>5, AttemptSet, Statuses
  <2>7. /\ row \in DiskRow /\ row.attempt = q /\ row.job = disk[j].job
        /\ row.active = disk[j].active /\ row.listed = disk[j].listed /\ row.audit = disk[j].audit
        /\ row.deletion = disk[j].deletion /\ row.result = disk[j].result
    BY <1>0, <2>6 DEF DiskRow
  <2>8. FinishingRow(row)
    <3> HIDE DEF q, row
    <3>1. Len(row.attempt) = n /\ n \in Nat
      BY <1>0, <2>6, <2>7
    <3>2. Last(row) = worker.pc /\ EndedUpTo(row, n)
      BY <1>0, <2>1, <2>4, <2>6, <2>7, <3>1 DEF RunsRow, Last, EndedUpTo
    <3>3. HasResult(row, worker.pc)
      BY <2>4, <2>7, <3>1 DEF HasResult
    <3> QED
      BY <2>4, <2>7, <3>1, <3>2, <3>3 DEF RunsRow, FinishingRow, PointsAtLast
  <2>9. disk'[j] = row
    BY <2>2, <2>7, WriteFacts, TypeParts DEF IInv
  <2>10. WorkerRow'
    BY <2>3, <2>8, <2>9 DEF WorkerRow, Outcome
  <2>11. disk[j].job = "running"
    BY <2>4 DEF RunsRow
  <2>12. Row(j)'
    <3>1. j \in Torn'
      BY <2>3 DEF Torn, WorkerHolds
    <3> QED
      BY <2>7, <2>9, <2>11, <3>1, RestingRow DEF Row
  <2>13. main.pc \in Held => main.job # j
    BY <2>1, Apart DEF Working
  <2> QED
    BY <2>1, <2>2, <2>7, <2>10, <2>12, <2>13, WorkerWrites
<1>2. CASE ProjectOutcome(j)
  <2> DEFINE out == Last(disk[j])
             row == [disk[j] EXCEPT !.job = out]
  <2>1. UNCHANGED <<main, cut>> /\ worker = [pc |-> "finishing", job |-> j]
        /\ worker' = [worker EXCEPT !.pc = "release"]
    BY <1>2 DEF ProjectOutcome, memory, history
  <2>2. Writes(j, row)
    BY <1>2 DEF ProjectOutcome, Writes, Last
  <2>3. FinishingRow(disk[j])
    BY <2>1 DEF IInv, WorkerRow
  <2>4. out \in Outcome /\ disk[j].job = "running" /\ (out # "error" => disk[j].active \in disk[j].result)
    BY <1>0, <2>3 DEF FinishingRow, PointsAtLast, EndedUpTo, Last, HasResult
  <2>5. /\ row \in DiskRow /\ row.attempt = disk[j].attempt /\ row.job = out
        /\ row.active = disk[j].active /\ row.listed = disk[j].listed /\ row.audit = disk[j].audit
        /\ row.deletion = disk[j].deletion /\ row.result = disk[j].result
    BY <1>0, <2>4, Statuses DEF DiskRow
  <2>6. EndedRow(row)
    <3> HIDE DEF row
    <3> QED
      BY <2>3, <2>4, <2>5 DEF FinishingRow, EndedRow, PointsAtLast, EndedUpTo, Last
  <2>7. disk'[j] = row
    BY <2>2, <2>5, WriteFacts, TypeParts DEF IInv
  <2>8. WorkerRow'
    BY <2>1 DEF WorkerRow, Outcome
  <2>9. Row(j)'
    BY <2>4, <2>5, <2>6, <2>7, RestingRow, Statuses DEF Row, WholeRow
  <2>10. main.pc \in Held => main.job # j
    BY <2>1, Apart DEF Working
  <2> QED
    BY <2>1, <2>2, <2>5, <2>8, <2>9, <2>10, WorkerWrites
<1> QED
  BY <1>1, <1>2

\* Every step of the worker.
LEMMA WorkerKeeps ==
  ASSUME IInv, WorkerStep
  PROVE  FilesAgree'
  BY TakeKeeps, BeginKeeps, AnalyseKeeps, FinishKeeps DEF WorkerStep

-----------------------------------------------------------------------------
(* Startup and failures *)

\* Start, StartUp and StartFails write nothing.
LEMMA StartKeeps ==
  ASSUME IInv, Start \/ StartUp \/ StartFails
  PROVE  FilesAgree'
<1>1. UNCHANGED <<disk, worker, cut>> /\ main.pc \notin Held /\ main'.pc \notin Held
  BY DEF Start, StartUp, StartFails, history, Held, Deleting, Idle, IInv, Threads
<1> QED
  BY <1>1, MainMoves

\* recover_interrupted: the attempt, its line, the job.
LEMMA RecoverKeeps ==
  ASSUME IInv, NEW j \in Job, RecoverAttempt(j) \/ RecoverAudit(j) \/ RecoverJob(j)
  PROVE  FilesAgree'
<1>0. /\ disk[j] \in DiskRow /\ disk[j].attempt \in Seq(AttemptStatus)
      /\ Len(disk[j].attempt) \in Nat /\ disk[j].audit \in Nat
  BY RestingRow DEF DiskRow
<1>1. server # "up" /\ UNCHANGED <<worker, cut>>
  BY DEF RecoverAttempt, RecoverAudit, RecoverJob, IInv, Threads, history
<1>2. CASE RecoverAttempt(j)
  <2> DEFINE n == Len(disk[j].attempt)
             q == [disk[j].attempt EXCEPT ![n] = "error"]
             row == [disk[j] EXCEPT !.attempt = q]
  <2>1. main.pc = "scanning" /\ main' = [pc |-> "recovering", job |-> j]
        /\ Trusted(j) /\ disk[j].job = "running"
    BY <1>2 DEF RecoverAttempt
  <2>2. Writes(j, row)
    BY <1>2 DEF RecoverAttempt, Writes
  <2>3. RunsRow(disk[j]) /\ n > 0
    BY <2>1, TrustedIsWhole, Statuses DEF WholeRow, WaitsRow, EndedRow, IInv, RunsRow, PointsAtLast
  <2>4. q \in Seq(AttemptStatus) /\ Len(q) = n /\ q[n] = "error"
        /\ \A k \in 1..n - 1 : q[k] = disk[j].attempt[k]
    BY <1>0, <2>3, AttemptSet, Statuses
  <2>5. /\ row \in DiskRow /\ row.attempt = q /\ row.job = disk[j].job
        /\ row.active = disk[j].active /\ row.listed = disk[j].listed /\ row.audit = disk[j].audit
        /\ row.deletion = disk[j].deletion /\ row.result = disk[j].result
    BY <1>0, <2>4 DEF DiskRow
  <2>6. RecoveringRow(row, 0)
    <3> HIDE DEF q, row
    <3> QED
      BY <1>0, <2>3, <2>4, <2>5, Statuses DEF RunsRow, RecoveringRow, PointsAtLast, EndedUpTo
  <2>7. disk'[j] = row
    BY <2>2, <2>5, WriteFacts, TypeParts DEF IInv
  <2>8. MainRow'
    BY <2>1, <2>6, <2>7 DEF MainRow, Deleting
  <2>9. Row(j)'
    <3>1. j \in Torn'
      BY <2>1 DEF Torn, MainHolds
    <3> QED
      BY <2>1, <2>5, <2>7, <3>1, RestingRow DEF Row
  <2> QED
    BY <1>1, <2>1, <2>2, <2>5, <2>8, <2>9, MainWrites DEF Held, Deleting
<1>3. CASE RecoverAudit(j)
  <2> DEFINE row == [disk[j] EXCEPT !.audit = @ + 1]
  <2>1. main = [pc |-> "recovering", job |-> j] /\ main' = [pc |-> "requeueing", job |-> j]
        /\ Writes(j, row)
    BY <1>3 DEF RecoverAudit, Writes
  <2>2. RecoveringRow(disk[j], 0) /\ disk[j].job = "running"
    BY <2>1 DEF IInv, MainRow, RecoveringRow
  <2>3. /\ row \in DiskRow /\ row.attempt = disk[j].attempt /\ row.job = disk[j].job
        /\ row.active = disk[j].active /\ row.listed = disk[j].listed /\ row.audit = disk[j].audit + 1
        /\ row.deletion = disk[j].deletion /\ row.result = disk[j].result
    BY <1>0 DEF DiskRow
  <2>4. RecoveringRow(row, 1)
    <3> HIDE DEF row
    <3>1. Len(row.attempt) = Len(disk[j].attempt) /\ Len(disk[j].attempt) \in Nat
      BY <1>0, <2>3
    <3>2. row.audit = Len(row.attempt)
      BY <2>2, <2>3, <3>1 DEF RecoveringRow
    <3> QED
      BY <2>2, <2>3, <3>1, <3>2 DEF RecoveringRow, PointsAtLast, EndedUpTo
  <2>5. disk'[j] = row
    BY <2>1, <2>3, WriteFacts, TypeParts DEF IInv
  <2>6. MainRow'
    BY <2>1, <2>4, <2>5 DEF MainRow, Deleting
  <2>7. Row(j)'
    <3>1. j \in Torn'
      BY <2>1 DEF Torn, MainHolds
    <3> QED
      BY <2>2, <2>3, <2>5, <3>1, RestingRow DEF Row
  <2> QED
    BY <1>1, <2>1, <2>3, <2>6, <2>7, MainWrites DEF Held, Deleting
<1>4. CASE RecoverJob(j)
  <2> DEFINE row == [disk[j] EXCEPT !.job = "queued", !.active = 0]
  <2>1. main = [pc |-> "requeueing", job |-> j] /\ main'.pc = "scanning" /\ Writes(j, row)
    BY <1>4 DEF RecoverJob, Writes
  <2>2. RecoveringRow(disk[j], 1) /\ disk[j].job = "running"
    BY <2>1 DEF IInv, MainRow, RecoveringRow
  <2>3. /\ row \in DiskRow /\ row.attempt = disk[j].attempt /\ row.job = "queued" /\ row.active = 0
        /\ row.listed = disk[j].listed /\ row.audit = disk[j].audit
        /\ row.deletion = disk[j].deletion /\ row.result = disk[j].result
    BY <1>0, Statuses DEF DiskRow
  <2>4. WaitsRow(row)
    <3> HIDE DEF row
    <3> QED
      BY <1>0, <2>2, <2>3 DEF RecoveringRow, WaitsRow, PointsAtLast, EndedUpTo
  <2>5. disk'[j] = row
    BY <2>1, <2>3, WriteFacts, TypeParts DEF IInv
  <2>6. MainRow'
    BY <2>1 DEF MainRow, Deleting
  <2>7. Row(j)'
    BY <2>2, <2>3, <2>4, <2>5, RestingRow DEF Row, WholeRow
  <2> QED
    BY <1>1, <2>1, <2>3, <2>6, <2>7, MainWrites DEF Held, Deleting
<1> QED
  BY <1>2, <1>3, <1>4

\* A stop with a dead thread cuts nothing.
LEMMA StopKeeps ==
  ASSUME IInv, StopServer
  PROVE  FilesAgree'
<1>1. UNCHANGED <<disk, main, cut>> /\ worker' = Idle /\ main.pc = "idle" /\ worker.pc = "dead"
  BY DEF StopServer, Request, history
<1>2. WorkerRow'
  BY <1>1 DEF WorkerRow, Idle, Outcome
<1>3. MainRow'
  BY <1>1, MainRowKept DEF IInv, Held, Deleting
<1>4. Torn = {}
  BY <1>1, TornIs DEF Held, Deleting
<1>5. Rows'
  BY <1>1, <1>4, NoWriteKeepsRows DEF IInv
<1> QED
  BY <1>1, <1>2, <1>3, <1>5, TypeParts DEF FilesAgree, IInv, DiskTyped

\* A death or a failed write leaves the files; what it leaves in between is cut.
LEMMA FailureKeeps ==
  ASSUME IInv, Failure
  PROVE  FilesAgree'
<1>1. CASE Crash
  <2>1. UNCHANGED disk /\ cut' = cut \cup Torn /\ main' = Idle /\ worker' = Idle
    BY <1>1 DEF Crash
  <2>2. WorkerRow' /\ MainRow'
    BY <2>1 DEF WorkerRow, MainRow, Idle, Outcome, Deleting
  <2>3. Rows'
    BY <2>1, NoWriteKeepsRows DEF IInv
  <2> QED
    BY <2>1, <2>2, <2>3, TypeParts DEF FilesAgree, IInv, DiskTyped
<1>2. ASSUME NEW j \in Job, WorkerWriteFails(j)
      PROVE  FilesAgree'
  <2>1. /\ UNCHANGED <<disk, main>> /\ worker.job = j /\ cut \subseteq cut'
        /\ worker.pc \in {"listing", "finishing"} => j \in cut'
    BY <1>2, Statuses DEF WorkerWriteFails, Outcome
  <2>2. \/ worker'.pc \in {"release", "dead"}
        \/ worker'.pc = "error" /\ worker.pc \in Outcome /\ worker'.job = worker.job
    BY <1>2, TypeParts DEF WorkerWriteFails, IInv, MemoryTyped, Outcome
  <2>3. WorkerRow'
    <3>1. CASE worker'.pc \in {"release", "dead"}
      BY <3>1 DEF WorkerRow, Outcome
    <3>2. CASE worker'.pc = "error" /\ worker.pc \in Outcome /\ worker'.job = worker.job
      BY <2>1, <3>2 DEF IInv, WorkerRow, HasResult, Outcome
    <3> QED
      BY <2>2, <3>1, <3>2
  <2>4. MainRow'
    BY <2>1, MainRowKept DEF IInv
  <2>5. Torn \subseteq cut' \cup Torn'
    BY <2>1, TornIs, MainKeepsTorn
  <2>6. Rows'
    BY <2>1, <2>5, NoWriteKeepsRows DEF IInv
  <2> QED
    BY <2>1, <2>3, <2>4, <2>6, TypeParts DEF FilesAgree, IInv, DiskTyped
<1>3. ASSUME NEW j \in Job, MainWriteFails(j)
      PROVE  FilesAgree'
  <2>1. UNCHANGED <<disk, worker>> /\ cut' = cut \cup {j} /\ main.job = j /\ main' = Idle
    BY <1>3 DEF MainWriteFails
  <2>2. WorkerRow'
    BY <2>1, WorkerRowKept DEF IInv
  <2>3. MainRow'
    BY <2>1 DEF MainRow, Idle, Deleting
  <2>4. Torn \subseteq cut' \cup Torn'
    BY <2>1, TornIs DEF Torn, WorkerHolds
  <2>5. Rows'
    BY <2>1, <2>4, NoWriteKeepsRows DEF IInv
  <2> QED
    BY <2>1, <2>2, <2>3, <2>5, TypeParts DEF FilesAgree, IInv, DiskTyped
<1> QED
  BY <1>1, <1>2, <1>3 DEF Failure

-----------------------------------------------------------------------------
(* Theorems *)

\* Every step keeps the invariant.
LEMMA NextIInv ==
  ASSUME IInv, [Next]_vars
  PROVE  IInv'
<1>1. CASE UNCHANGED vars
  BY <1>1 DEF vars, IInv, TypeOK, Threads, WorkerRow, MainRow, Rows, Row, Removed, DeletionStarted,
              Torn, WorkerHolds, MainHolds
<1>2. CASE Next
  <2>1. MemoryTyped'
    BY <1>2, RequestMemory, OtherMemory, TypeParts DEF Next, IInv
  <2>2. ASSUME NEW j \in Job, RequestStep(j)
        PROVE  FilesAgree'
    BY <2>2, CreateKeeps, OfferKeeps, AttachKeeps, RetryKeeps, DeleteBeginKeeps, DeleteKeeps
       DEF RequestStep
  <2>3. FilesAgree'
    BY <1>2, <2>2, WorkerKeeps, StartKeeps, RecoverKeeps, StopKeeps, FailureKeeps DEF Next, StartStep
  <2>4. TypeOK'
    BY <2>1, <2>3 DEF FilesAgree, TypeOK, DiskTyped, DiskRow, MemoryTyped
  <2> QED
    BY <1>2, <2>3, <2>4, ThreadsKept DEF FilesAgree, IInv
<1> QED
  BY <1>1, <1>2

\* In every reachable state files and threads agree, whatever was retried,
\* deleted, cut or recovered, and in whatever order.
THEOREM Invariant == Spec => []IInv
  BY InitIInv, NextIInv, PTL DEF Spec

\* The files, the queue and the threads stay within their types.
THEOREM TypeCorrect == Spec => []TypeOK
<1>1. IInv => TypeOK
  BY DEF IInv
<1> QED
  BY Invariant, <1>1, PTL

\* Only an operation that was cut leaves a directory the store refuses.
THEOREM OnlyCutsAreEverRefused == Spec => []OnlyCutsAreRefused
<1>1. IInv => OnlyCutsAreRefused
  BY TrustedIsWhole DEF IInv, Rows, Row, OnlyCutsAreRefused, Exists
<1> QED
  BY Invariant, <1>1, PTL

\* A job that says it is ready or partial can be served.
THEOREM AnnouncedIsAlwaysServable == Spec => []AnnouncedIsServable
<1>1. IInv => AnnouncedIsServable
  BY TrustedIsWhole DEF IInv, Rows, Row, AnnouncedIsServable, Servable
<1> QED
  BY Invariant, <1>1, PTL

\* A session that was deleted stays deleted.
THEOREM DeletedStaysGone == Spec => []DeletedIsGone
<1>1. IInv => DeletedIsGone
  BY DEF IInv, Rows, Row, DeletedIsGone, Removed
<1> QED
  BY Invariant, <1>1, PTL

-----------------------------------------------------------------------------
(* A start that fails, and the attempts *)

\* While the extension is not loaded, no job is in the middle of a write.
LEMMA NothingTorn ==
  ASSUME IInv, main.pc \notin Held, worker.pc \notin Working
  PROVE  Torn = {}
  BY TornIs DEF Working

\* A step from a server that failed to load is a new start.
LEMMA FailedOnlyStarts ==
  ASSUME IInv, Next, server = "failed"
  PROVE  server' = "starting"
<1>1. main.pc = "idle" /\ worker.pc = "idle" /\ Torn = {}
  <2>1. main.pc = "idle" /\ worker.pc = "idle"
    BY DEF IInv, Threads
  <2> QED
    BY <2>1, NothingTorn DEF Held, Deleting, Working, Outcome
<1>2. ASSUME NEW j \in Job
      PROVE  ~RequestStep(j)
  BY <1>1 DEF RequestStep, MakeJob, PublishJob, FindJob, AttachJob, Enqueue, Retry, RetryQueued,
              RepeatRetry, DeleteBegin, PurgeResults, UnlinkSome, DropJob, ForgetSession, DeleteEnd,
              Request
<1>3. ~WorkerStep
  <2>1. ~Take
    BY DEF Take
  <2>2. \A j \in Job : ~Begin(j) /\ ~ListAttempt(j) /\ ~Analyse(j)
    BY <1>1 DEF Begin, ListAttempt, Analyse
  <2>3. \A j \in Job : ~FinishAttempt(j) /\ ~ProjectOutcome(j) /\ ~Release(j)
    BY <1>1 DEF FinishAttempt, ProjectOutcome, Release, Outcome
  <2> QED
    BY <2>1, <2>2, <2>3 DEF WorkerStep
<1>4. StartStep => Start
  <2>1. ~StartUp /\ ~StartFails
    BY <1>1 DEF StartUp, StartFails
  <2>2. \A j \in Job : ~RecoverAttempt(j) /\ ~RecoverAudit(j) /\ ~RecoverJob(j)
    BY <1>1 DEF RecoverAttempt, RecoverAudit, RecoverJob
  <2> QED
    BY <2>1, <2>2 DEF StartStep
<1>5. ~Failure
  <2>1. ~Crash
    BY DEF Crash
  <2>2. \A j \in Job : ~WorkerWriteFails(j)
    BY <1>1 DEF WorkerWriteFails
  <2>3. \A j \in Job : ~MainWriteFails(j)
    BY <1>1 DEF MainWriteFails, MainHolds
  <2> QED
    BY <2>1, <2>2, <2>3 DEF Failure
<1>6. ~StopServer
  BY DEF StopServer, Request
<1> QED
  BY <1>2, <1>3, <1>4, <1>5, <1>6 DEF Next, Start

\* A start fails on a directory that was cut, or on a full queue.
LEMMA StartFailsStep ==
  ASSUME IInv, StartFailsOnlyFor, [Next]_vars
  PROVE  StartFailsOnlyFor'
<1>1. CASE UNCHANGED vars
  BY <1>1 DEF vars, StartFailsOnlyFor, Waiting
<1>2. CASE Next /\ server = "failed"
  BY <1>2, FailedOnlyStarts DEF StartFailsOnlyFor
<1>3. CASE Next /\ server # "failed"
  <2> SUFFICES ASSUME server' = "failed"
               PROVE  cut' # {} \/ Cardinality(Waiting') > QueueMax
    BY DEF StartFailsOnlyFor
  <2>1. CASE StartFails
    <3>1. UNCHANGED <<disk, cut>> /\ main.pc = "scanning"
      BY <2>1 DEF StartFails, history
    <3>2. Torn = {}
      <4>1. worker.pc = "idle"
        BY <3>1 DEF IInv, Threads
      <4> QED
        BY <3>1, <4>1, NothingTorn DEF Held, Deleting, Working, Outcome
    <3>3. CASE \E j \in Job : Exists(j) /\ ~Trusted(j)
      BY <3>1, <3>2, <3>3, TrustedIsWhole DEF IInv, Rows, Row, Exists
    <3>4. CASE Cardinality(Waiting) > QueueMax
      BY <3>1, <3>4 DEF Waiting
    <3> QED
      BY <2>1, <3>3, <3>4 DEF StartFails
  <2>2. CASE \E j \in Job : MainWriteFails(j)
    BY <2>2 DEF MainWriteFails
  <2>3. ASSUME NEW j \in Job
        PROVE  ~RequestStep(j)
    BY <1>3 DEF RequestStep, MakeJob, PublishJob, FindJob, AttachJob, Enqueue, Retry, RetryQueued,
                RepeatRetry, DeleteBegin, PurgeResults, UnlinkSome, DropJob, ForgetSession, DeleteEnd,
                memory
  <2>4. ~WorkerStep
    BY <1>3 DEF WorkerStep, Take, Begin, ListAttempt, Analyse, FinishAttempt, ProjectOutcome, Release,
                memory
  <2>5. StartStep => StartFails
    BY <1>3 DEF StartStep, Start, StartUp, RecoverAttempt, RecoverAudit, RecoverJob, memory
  <2>6. Failure => \E j \in Job : MainWriteFails(j)
    BY <1>3 DEF Failure, Crash, WorkerWriteFails, memory
  <2>7. ~StopServer
    BY DEF StopServer
  <2> QED
    BY <1>3, <2>1, <2>2, <2>3, <2>4, <2>5, <2>6, <2>7 DEF Next
<1> QED
  BY <1>1, <1>2, <1>3

\* The extension fails to load only for a cut operation or more waiting jobs than
\* the queue holds.
THEOREM StartFailsForNothingElse == Spec => []StartFailsOnlyFor
<1>1. Init => StartFailsOnlyFor
  BY DEF Init, StartFailsOnlyFor
<1>2. IInv /\ StartFailsOnlyFor /\ [Next]_vars => StartFailsOnlyFor'
  BY StartFailsStep
<1> QED
  BY <1>1, <1>2, Invariant, PTL DEF Spec

\* What is refused, a directory or the extension, is refused for a cut operation
\* or a full queue.
THEOREM RefusalsAlwaysHaveACause == Spec => []RefusalsHaveACause
BY OnlyCutsAreEverRefused, StartFailsForNothingElse, PTL DEF RefusalsHaveACause
=============================================================================
