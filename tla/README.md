# Programming behaviour audit: TLA+ models and proofs

This directory holds TLA+ specifications of the parts of the repository whose
correctness depends on interleavings, failures and retries, the TLC
configurations that check them, and TLAPS proofs about them. It describes the
code under `src/`; when the two differ, the code is right and the module is wrong.

## The system

Students work on a programming experiment in JupyterLab or VS Code. A plugin
records what they do, stores it locally, uploads it to a classroom service and
submits a brief; a worker closes the sessions of students who submit nothing;
language-model analyses of the recordings run in the background.

| Component | Where | State it keeps | Operations | What is hard |
|---|---|---|---|---|
| Classroom sessions | `services/classroom-sync`: `sessions.py`, `briefs.py`, `deadlines.py`, `worker.py` | tickets, monitor sessions, evidence chunks, brief revisions, deadline jobs (PostgreSQL) | issue ticket, register, heartbeat, put evidence, submit, end early, claim, close | unlocked reads, three-transaction close, leases, crashes, retries |
| Brief analysis jobs | `brief_analysis.py`, `briefs.py` | analysis jobs, brief revisions | claim, analyse, complete, fail, retry | lease against a slow provider, newer revisions, worker death |
| Assignments | `assignments.py` | student assignments | sync roster, accept | sync reads unlocked, accept locks |
| Plan suggestions | `plan_suggestion_jobs.py`, `plan_suggestions.py`, `plan_authoring.py` | suggestion jobs, authoring sessions | request, claim, finish, expire | same lease protocol, active slot |
| Plans and publication | `plans.py`, `publication_gate.py`, `experiment_publications.py`, `experiment_resources.py` | plan versions, bindings, publication states | create version, bind, publish, compensate | version lineage, partial failure upstream |
| Assessment | `assessment_configs.py`, `experiment_assessment_configs.py`, `assessment_materials.py`, `assessment_scoring.py` | configurations, scores | save, score | numeric rounding |
| Analysis job store and worker | `myextension/analysis_job_store.py`, `analysis_worker.py` | one directory of JSON files per job; an in-memory queue | create, transition, progress, result, retry, cancel, recover | a transition writes several files; the process may die between them |
| Evidence outbox | `myextension/evidence_outbox.py` | `state.json`, queued payload files | enqueue, flush, acknowledge | state read and written by two threads, lost replies |
| Submission coordinator | `myextension/submission_coordinator.py`, `platform_deadline_worker.py`, `platform_context_store.py` | local submission state | submit, resume, local deadline | crash between upload, submit and local save |
| Session store | `myextension/session_store.py`, `session_log_service.py`, `session_log_artifacts.py`, `session_janitor.py` | session directories, event segments, manifests | start, append, close, merge | duplicate segments, torn writes |
| Review and profiles | `review_store.py`, `dimension_profile_store.py`, `dimension_template_store.py`, `behavior_log_store.py` | JSON files | save, patch | version conflicts |
| Analysis pipeline | `dimension_analyzer.py`, `feature_extractor.py`, `evidence_coverage.py`, `analysis_result_validator.py`, `profile_validator.py`, `llm_*.py` | the answers so far, one deadline | signals, coverage, choice of events, request and repair, validation | overlapping intervals, places known in part, retries inside one budget, two schemas of a result |
| JupyterLab front end | `src/`: `behaviorEventUploader.ts`, `ui/guidedProfileAutosave.ts` | IndexedDB segments, upload cursor; a profile's text and revision | capture, persist, upload; edit, save, publish | offline, reload, lost replies, edits while a save is under way |
| VS Code extension | `vscode-extension/` | session files | start, record, flush, finish, resume, report, export | every await is a place to be interrupted or overtaken; a crash between two files |
| Deployment, scripts, demo, contracts | `deploy/`, `scripts/`, `demo/`, `contracts/`, `docs/` | none | none | outside the models |

How they interact: the plugin's outbox uploads chunks and its coordinator submits
briefs to the classroom service over HTTP; the service's worker shares only the
database with it; brief analysis jobs are created by the submission and append a
revision to the same brief; the analysis job worker of the Jupyter server reads
the session store and writes the job store.

## What must be true of each part

| Component | What makes it correct | Where |
|---|---|---|
| Classroom sessions | one session collects; a submission id adds one revision; nothing reopens a submitted session; a deadline job completes; a deadline waits for the grace period; a completed deadline job has a brief; a receipt stays true | `ClassroomSession` |
| Brief analysis jobs | a request gets one outcome; the provider is called at most `max_attempts` times; an answer never hides a newer submission; nothing stays pending | `BriefAnalysis` |
| Outbox and coordinator | "delivered" and "submitted" are true at the service; one revision from the plugin, with a payload that never changes; queued chunks and durable submissions get through | `EvidenceDelivery` |
| Assignments | a synchronisation does not undo an acceptance (it may: see below) | `PlanPublication` |
| Plan suggestions | one open session, one answer per session, no text kept longer than a worker needs it, nothing pending for ever | `PlanAuthoring` |
| Plans and publication | the versions of a series are numbered without gaps and never change; one state of a draft is published once; the experiment shows a version that exists; no edit of another tab is lost | `PlanPublication` |
| Publication gate | what is published covers the requirements of the materials the teacher confirmed; a profile the notebook accepts and that fits is not blocked | `PublicationGate` |
| Analysis job store and worker | only an operation cut between two files leaves a directory that is refused; an announced result can be read; a deleted job is gone; nothing runs for ever | `AnalysisJobStore` |
| Session store and uploader | the stream is in order and holds nothing twice; a receipt is for what the stream has; a page that was reloaded goes on from what it kept | `SegmentUpload` |
| Analysis pipeline | what is counted happened, the log people read agrees, early failures are shown to the model; a published verdict is grounded, a partial one says why, all requests share one budget of time | `EvidenceSignals`, `CandidateEvents`, `SessionAnalysis`, `ReadableLog` |
| Behaviour log | a finalized session has its whole log, logs of one second stay apart, a deletion leaves nothing | `BehaviorLog` |
| Training record, logs, reviews | the record ends up current, the analysis log is of the last analysis, no review is lost and none overwrites an unseen one of the analysis shown | `SessionRecord` |
| Dimension profiles | what the editor calls saved is saved; what it shows as published is served for ever; every edit is saved or reported | `ProfileAuthoring` |
| VS Code extension | events are numbered without a gap and kept through every interruption and overlap; an ended session has all its events and its brief tells of them; commands end | `DesktopCapture` |

Every hazard, at its line and with the properties that would notice it, is in
`PROJECT.json`.

## Modules

| Module | Models |
|---|---|
| `LogicalBrief` | what the classroom service promises of a session, whoever closes it (abstract) |
| `ClassroomSession` | the classroom session service and its deadline worker; implements `LogicalBrief` |
| `AnalysisOutcome` | what a student is promised of the analyses of a brief (abstract) |
| `BriefAnalysis` | the analysis jobs of one brief; implements `AnalysisOutcome` |
| `EvidenceDelivery` | one session in the Jupyter server, its outbox and coordinator, with the service behind a bad connection |
| `SegmentUpload` | one session between a JupyterLab page, IndexedDB and the session store's files |
| `AnalysisJobStore` | the files of the whole-session analyses, their queue and worker, deletion and recovery |
| `SessionRecord` | the training record, the public logs, the brief and the reviews of one session, written by two threads |
| `SuggestionPromise` | what a teacher is promised of an AI suggestion (abstract) |
| `PlanAuthoring` | authoring sessions, suggestion jobs and their workers; implements `SuggestionPromise` |
| `PlanHistory` | what the service promises of published plans (abstract) |
| `PlanPublication` | drafts in several tabs, versions, the binding, assignments, `publish_assessment`; implements `PlanHistory` |
| `PublicationGate` | the profile of a draft against the materials, the gate, and the notebook's validator beside it |
| `PlanShelf` | what the profile store promises of published versions (abstract) |
| `ProfileAuthoring` | the notebook's guided editor and the profile store; implements `PlanShelf` |
| `EvidenceLog` | what the VS Code extension promises of a session's evidence (abstract) |
| `DesktopCapture` | the VS Code extension's capture, commands, reports and export; implements `EvidenceLog` |
| `EvidenceSignals` | what is counted in a recording, and whether that is enough to judge a dimension |
| `CandidateEvents` | which events of a recording the model is shown |
| `ReadableLog` | what the Markdown log says was done |
| `SessionAnalysis` | one analysis: request, longer answers, retries, repair, validation, result |
| `BehaviorLog` | the four files of a session's log, their names and index, two threads and the older page |
| `MC...` | instances, symmetry and state constraints for TLC |
| `ClassroomSession_proofs` | its inductive invariant, its theorems and the refinement of `LogicalBrief` |
| `BriefAnalysis_proofs` | of `EvidenceSignals`, `ReadableLog`, `CandidateEvents` and `SessionAnalysis`: what is counted and measured, what is shown to the model, what is published and when it ends; of `BriefAnalysis`: its inductive invariant, its theorems and the refinement of `AnalysisOutcome` |
| `EvidenceDelivery_proofs` | its inductive invariant and theorems |
| `Plans_proofs` | what `PublicationGate` lets through; inductive invariants and theorems of `PlanAuthoring` and `PlanPublication`, with the refinements of `SuggestionPromise` and `PlanHistory` |
| `DesktopCapture_proofs` | its inductive invariant, the endings and their briefs, and the refinement of `EvidenceLog`, for any number of commands at once |
| `SegmentUpload_proofs` | its inductive invariants `Sane` and `Recoverable`, and what they say of the stream and of a reload |
| `ReviewsAndProfiles_proofs` | of `SessionRecord`: the analysis log, the reviews and the training record; of `ProfileAuthoring`: editors and store of profiles, with the refinement of `PlanShelf`; of `BehaviorLog`: its inductive invariant and `LogsAreTrue` |
| `AnalysisJobStore_proofs` | the invariant that ties the files of a job to the places of the two threads |

A definition whose name ends in `_Slip` stands next to the definition it is a
slip of: a dropped check, a stale copy, a write at the wrong place. Slips are not
part of a specification; each shows that one property of a run notices it. `PROJECT.json`
names them, and gives for every other definition the lines it translates.

### ClassroomSession

One student assignment and its monitor sessions. The variables are the tables:
`ticket`, `session`, `chunk`, `briefs`, `job`, the status of the `assignment`,
and, for each party, what it read in a transaction that has not committed
(`registering`, `beating`, `uploading`, `ending`, `worker`).

*Transactions.* The service runs on PostgreSQL at READ COMMITTED. A transaction
that locks its row first and reads afterwards (`BriefService.submit`, the claim,
the finish) is one action. A transaction that reads a row it has not locked is
two: the read keeps a copy, the commit uses it. Registration reads the
assignment, heartbeats and evidence requests read the session, the teacher's end
reads the session before it locks the job; in each of them something else may
commit in between. The ORM session does not autoflush, and at commit it writes
only the columns whose value differs from the value read; `Flush` says so, and
it is why a late heartbeat does not reopen a submitted session.

*Unique constraints* (`active_slot`, the chunk's number in its session, the
submission id) are guards of the commit; the aborted transaction is an action
(`RegisterAbort`, `UploadAbort`).

*The worker.* `run_due_deadlines` claims every due job in one transaction, then
closes the sessions one by one. `close_session` is three transactions: read (and
mark the session partial, with the job row locked until the commit: `marking`),
submit, finish. Losing a lease raises out of the loop and ends the process, with
all it had claimed (`CloseLost`); `WorkerCrash` may strike between any two
transactions. The brief refers to the first event of the first chunk
(`deadlines.py:240`), and `submit` refuses a reference to an event the analysis
manifest does not keep (`briefs.py:527`), which is any but a run or an edit: the
content of a chunk is therefore one that begins with such an event (`CodeFirst`) or
one that does not, and the second kind makes every close of its session end the
process (`CloseRefused`) while the job keeps its lease. A restarted worker has nothing in hand and must wait for the
leases to run out.

Left out: token expiry and refresh (no session state changes), audit rows, the
content of a brief, the numbers in `missing_ranges`, teacher reviews (an insert
of another table), revisions that carry an analysis (they are in
`BriefAnalysis`), and `schedule_session_deadline`, which no code outside the
tests calls.

### BriefAnalysis

One brief of one session. `briefs` is the list of its revisions, each with the
revision it analyses (0 for a submission) and its `ai_status`; `job` has a row
for each revision that asked for an analysis. `worker` is where each process is
in `run_due_jobs`, and `calls` counts the requests to the provider.

The claim, the completion and the failure lock the job before they read it, so
each is one action; the source is read without a lock and the provider is called
outside every transaction. A worker recognises its lease by `CLASSROOM_WORKER_ID`
alone, so replicas may share a `Name`. After the call the code uses the job
object it detached before the call, with the attempt number of that time
(`worker.attempt`), and so does the model.

*Time* is kept as countdowns: what is left of `run_at` and of the lease.
`Budget` is the longest time between taking a lease and recording its outcome.
The provider client has a timeout of 180 s for each of the four phases of a
request (connect, write, read, pool), 720 s, against a lease of 1500 s, so the
code has `Budget < Lease`; the read timeout bounds each read and not the whole
answer, so a provider that trickles may exceed it. The run has `Budget < Lease`;
the proofs of `BriefAnalysis` but one do not need it.
The order of due jobs by `run_at` is left open (a brief rarely has two), and the
prompt, the normalisation of the answer and its validation are pure functions:
they decide between "completing" and "failing", which the model leaves open.

### EvidenceDelivery

One local session in the Jupyter server. `local` is `session.json` and the event
stream, `entries` and `row` the outbox's payload files and its `state.json`,
`submission` the coordinator's file, `service` the session at the other end.

Three threads use the files: the HTTP handlers (coroutines without an `await`
between their file operations, so one at a time), the outbox worker, and the
deadline worker. One action is one read, replacement or removal of a file.
`state.json` of the outbox is read, changed and replaced by all three with no
lock: `RecoverRead`/`RecoverWrite`, `EnqueueRead`/`EnqueueWrite` and the two
halves of `_mark` (`Sent`, `MarkWrite`) keep the copy they will write. The
session store has a lock around append and finalize (`StoreFree`); the
coordinator has one per session (`lock`), held over the whole of `submit`.

*The connection.* A request may be lost before or after the service handled it;
a reply may be cut short, which raises an exception no handler of the outbox or
the coordinator expects (`SendBreaks`, `PostBreaks`). An upload is atomic at the
service; `ClassroomSession` splits it.

*The process* is up, down, starting or broken. On a start the janitor and the
outbox worker run first, then the first round of the deadline worker, inside the
start of the extension: when it raises, the extension's services are not
published, the routes answer 503 and `phase` is "broken".

Left open: which deferred chunks are due when a flush runs. Fixed: the context is
registered, and a batch is one chunk. A second submission with other consent is
refused and changes nothing. `Limit` is 20 in the code (`flush_once`).

### SegmentUpload

The browser's end of the evidence and the store's. `page` is the memory of
`BehaviorEventUploader`, `rows` IndexedDB, `store` the session's directory, `net`
the requests and replies under way, `outbox` the ranges the server has queued for
the classroom. `recorded`, `kept`, `confirmed` and `ahead` only remember.

A segment is its ordinal; a batch is a range with the id it was minted with. A
flush awaits the chain of durable writes before it cuts its batch (`Flush`,
`CreateBatch`), and the queue may change under every await. `append_batch` writes
journal, events, receipt and `session.json`: `AppendCuts` gives the states in
which a dying process or a full disk leaves them, within a line included (`tail`),
and the next append or finalization repairs what it can. A page that comes back
sends what IndexedDB still has under new ids and other boundaries (`Resume`).

### AnalysisJobStore

A directory per job and two threads. `disk` says what the files of a job and of
its session say, `queue` and `enqueued` are the worker's memory, `main` and
`worker` where the two threads are. One action writes one file; a lock of the job
is held between the files of one operation (`WorkerHolds`, `MainHolds`), and a
process may die, or a write fail, between any two. A write of the worker that fails
has one of three ends (`WorkerWriteFails`): `begin_attempt` gives the job up, a result
that cannot be written becomes an error, and the write of an error is not caught by
anyone (`analysis_worker.py:881-893`, `:328-344`): the thread is "dead", its job still
runs, nobody takes from the queue, and the server stays up until somebody stops it. `Trusted` is
`_read_complete_job`: the story all files must tell together. `delete_cascade`
removes the targets in the order of their paths, and `rmtree` in any order.

### SessionRecord

Two exports may run at a time, the main thread's and the worker's
(`export[t]`: its phase, what it read first and now). `get_detail` takes several
locks one after the other, so each of its reads is an action. `WriteIfCurrent` is
the write of the record with its comparison; the public logs are written after
it, without the session's lock. A review carries the revision its author has seen
and no analysis (`routes.py:2420-2520`): it is compared with the reviews of the
analysis that is current by then, whatever the tab shows. `shown` and `seen` of a
line of the history keep both for the properties.
An attempt that ends as `error` calls no export (`FailJob`).

### PlanAuthoring

Rows of sessions and suggestion jobs and the workers' places. Transactions lock
before they read, so each is one action; the source is read in one transaction,
the provider called in none, the answer stored in another. Time is what it does
to a row: a delay that ends, a lease that ends.
`AuthoringInit`, `AuthoringNext` and so on have names of their own because one
module proves about this one and `PlanPublication`.

### PlanPublication

The settings, sessions, drafts, versions, the binding and the assignments of one
experiment; `request` is where each `publish_assessment` or synchronisation is,
`tab` what each editor has read. A request may stop for good after each of its
transactions. The roster synchronisation reads unlocked and writes at the flush
(`SyncRead`, `SyncWrite`).

### PublicationGate and ProfileAuthoring

`PublicationGate` states the rules of `publication_gate.py` (`Blocking`, as sets
of issues) and those of `profile_validator.py` (`Accepts`) over the same profile.
A hash is the tuple of what it is taken of. `FirstProfile` and `FirstMaterials`
are the instance; `Edited` and `Imported` give what one edit or one import may
make of them, so the run's properties are about every profile within `MaxChange`
edits, the theorems about every profile and bundle their schemas allow
(`ProfileRows`, `Bundles`).

`ProfileAuthoring` is the editor (`GuidedProfileAutosave`: timer, one save at a
time, the publishing button) and `DimensionProfileStore` (draft, version files,
audit file, whose last line may be torn). A text is the number of its edits.
Listing profiles and starting sessions from them are not modelled.

They share nothing, so `MCPublishedPlans` checks both in one run.

### EvidenceSignals, CandidateEvents, ReadableLog, SessionAnalysis

The first three are pure. Events have a place of which the browser may know only
a part, so "at the same place" is not transitive (`SamePlace`); intervals are pairs
of instants, merged and subtracted one after the other as in `feature_extractor.py`;
each of its loops is a recursive function whose step has a name (`Joined`, `Cut`,
`Follow`, `Compare`). Beside each computation stands what it means: sets of instants
and their longest stretches (`Stretches`) for times and pauses, "a success that
answers a failure" (`AnswersFailure`) for recoveries, "a failure of another type than
the open one before it" (`ChangesError`) for changes of error, and for the choice of
events the early failures with what led to each and what came of it
(`FailuresAreShown`). The choice itself is written with sets: a list of wishes, of
which the code takes the first n, is a set, an order and `FirstOf`; `AddUpTo` is the
helper `add` called down such a list.
`ReadableLog` counts the same events a second time, as `behavior_log_store.py` does
for the Markdown log, and `LogAgreesWithSignals` compares the two.

`SessionAnalysis` is `analyze_session` with the worker's client. `phase` says which
request is out, `budget` which length of answer, `call` which call of the provider,
`clock` the time of the attempt. `Answered` is the whole validation: the first row
of a dimension that cannot be compared ends it (`Breaks`), else each dimension's
only row is accepted or not (`Validated`), and what is left is asked for once more
(`Conclude`). `Publishable` is the older schema the worker checks before it
publishes. The timeout of a socket does not bound an answer, so a call may take
`Overrun` longer than it was given. Prompts, names and paths that are scrubbed,
the labels and the provider's configuration are left out.

### BehaviorLog

All sessions began in the same second of the same day: names of logs then differ
in a suffix, which is what a stem is. `thread` has the operation each thread is in
and the files it still has to write or remove, in the code's order; one action is
one file. `finalize` replaces whole files, the route of the older page
(`AppendBegin`) adds to one and rewrites the others in place, a deletion removes the
files it found. A session's lock covers `finalize` and `delete_cascade`, the
index's lock a deletion that has a log and the reservation of a name. `stored` is
session.json, `index` is .session_index.json with a stem or `Absent` for each session,
and `Order` ranks the steps of an operation. `cut` holds the operations that failed or
died after they touched a file, and every append that did: the older page does not send
an event again. What an append writes in place (`md`, `timeline`) may be left empty
(`Emptied`); the rest is replaced whole. `MaxStem` bounds the names, `MaxEvents` the
events, `MaxTrouble` the operations that are cut.

### DesktopCapture

One thread that stops at each `await`. `queue` is the chain of flushes of
each session, `gets` the reads of a session's state that are under way, of flushes and
of commands, `cmd` where each command is. Nothing makes one command wait for another,
and the model lets any of `Command` overlap. `append` and `transition` of a session
exclude each other (`LockFree`). `get` takes no lock: it reads the state, asks who owns
the session, counts the file and writes `interrupted`, each a step of its own
(`GetRead`, `GetCheck`, `GetCount`, `GetWrite`), and in between the session may have
ended, been resumed or grown. A get that writes when it is late puts its session into
`overtaken`. A window may be closed between any two steps and a file operation may
fail; `Activate` is what the next window finds.

`file` has the numbers of a session's events and `tail` how its lines end. A write that
is cut (`Cut`) leaves any part of its lines: whole ones, a last one without its newline
("bare"), or the beginning of one ("torn"). `readEvents` accepts a bare line, as
`readline` does; what is added next joins it ("joined"), and from then on the file cannot
be read.

Simplified: a transition reads and writes the state in one step, since whatever else
writes it then is a late get; the gets of reports and analyses, which meet ended
sessions only, are left out; the flushes of a session are one chain although a second
activation of the same session begins a new one (the lock of `append` keeps their
order); `findActive` at an activation is one step, for nothing else runs. Failed exports
leave a destination that is not empty and refuse the next one; one destination is
modelled.

## The runs

| Run | States | What it asks |
|---|---:|---|
| `session_deadline` | 370,093 | two deadline workers, a submission, a chunk a brief can or cannot refer to, an early end, a crash, expiring leases around one session; do all jobs complete |
| `session_register` | 198,416 | two tickets racing, a heartbeat, two uploads with two contents, a submission and a deadline worker |
| `analysis` | 264,323 | two workers, a crash, restarts and later submissions, with calls that fit in their lease: one outcome, one call at a time, all settle; and, beside them, the notebook's analysis: every recording of four edits and runs at places known in part, of five with pauses, of three stretches of time; a provider that answers anything, late, cut short or not at all |
| `delivery` | 185,785 | one chunk and one submission by student and deadline worker, across lost and cut replies and a crash anywhere |
| `analysis_jobs` | 408,931 | two jobs, a queue of one, retries, deletion, one death or failed write anywhere, which may end the worker's thread |
| `segments` | 1,208,474 | three segments, a queue of two, a reload, two troubles, local and classroom pages |
| `session_record` | 4,615,229 | two exports, two attempts, reviews from two tabs, a torn history, a restart; and, beside them, the logs of two sessions of one second, two threads, deletion, recovery, the older page, one trouble anywhere |
| `authoring` | 186,440 | two sessions, an older page, two workers, two attempts per job |
| `publication` | 494,527 | several requests and drafts, or two tabs on one draft, with a request at a time |
| `desktop` | 235,259 | two sessions, two events, two commands that overlap, a closed window and a failed file operation anywhere |
| `published_plans` | 129,912 | every profile and bundle within two changes of one that covers; two editors, two edits, a cut publication or a lost request |
| `doc_accepted_keeps_version` | - | violated: see below |

*Bounds.* `session_deadline` lets the clock run to 4 with a grace of 1 and a
lease of 1: the end can move from 1 to 0, a lease can expire and be taken by the
other worker, crash and expire again. It has one submission, one early end and one
chunk of either content; what several early ends change for `DeadlineNotEarly`
(a stale read of the end) is left to its theorem. `session_register` needs two sessions for a
duplicate, two uploads for the race on one chunk number and two contents for a
conflict. `analysis` has two revisions to ask for and attempts enough for a retry
and a last one. `delivery` has one batch, so that liveness can be checked; that
several batches change nothing for the invariants is what the proofs say, for any
number of batches and crashes. `analysis_jobs` has a queue shorter than its
jobs, so a full queue and a start that finds too many happen; one trouble cuts an
operation, and the properties look at everything that comes after. `segments` has
a queue shorter than the recording, batches shorter than the queue and two
troubles, since the hard cases are a lost reply followed by a cut append.
`session_record` allows two reviews in all (`FewEvents`), two of one analysis or
one of each, from one tab; in a part of its own, "reviews", there are two tabs and
three reviews, so that a tab left on the first attempt meets a review of the second,
and nothing comes between the steps of an export. `publication` is two instances in one (`FewActors`): the requests
meet each other, and the tabs meet one request. `desktop` has five parts, in each of which something else
happens in every order: "capture" is one session of two events with every cut, failure
and late get; "sessions" two of one event, for what an old session's flushes and pointer
do to a new one; "export" the analysis and the export, and the gets of both; "overlap"
two commands at once that start, finish and export two sessions while nothing fails, and
"recovery" two that start and resume after a window was closed. What any number of
overlapping commands, events and failures changes for `EndedIsReported` and
`KeepsEvidence` is nothing: both are proved. In `published_plans`, two
changes are an edit and an import on either side of a fetch, or two edits that
cancel a rule each. `analysis` and
`session_record` are of modules that share nothing, like `published_plans`: `part` says
which one a behaviour is of. In the part of `analysis` called
"signals" four events are two failures, an edit and a success, the shortest
recording in which two open chains meet one edit; a fifth event is one failure more
than the model may be shown, with its neighbours (20 events, 5 failures, 10
neighbours and 3 pauses in the code, 4, 1, 2 and 1 in the run); three intervals of up
to four instants overlap, touch and nest in every way; nothing is asked. The part
"asking" has two lengths of answer, a budget of two calls and an overrun of 1, so that
retries, a longer answer and a repair compete for the time; its rows are one of each
kind the validation tells apart. The logs of `session_record` have one event a session,
one of the older page and one trouble: the threads' steps, in every order, are what
its states are. Two sessions take two names and a third is free; a deletion that is cut
before its `.md` file can leave a name taken, so three are enough for one trouble. What
more sessions, events and troubles change is nothing for `LogsAreTrue`: it is proved.

Properties that only hold together as a story are stated together:
`StreamHoldsReceipts` is `StreamInOrder` and `ReceiptsHold`; `EndedIsReported` is
`EndedIsWhole` and `BriefTellsAll`; `GateDecidesRightly` is `PublishedIsCovered` and
`FittingIsReady`; `RefusalsHaveACause` is `OnlyCutsAreRefused` and
`StartFailsOnlyFor`; `EditorTellsTruth` is `RestIsSaved` and `ShownIsServed`;
`ResultsAreHonest` is `VerdictsAreGrounded` and `PartialSaysWhy`; `SignalsAreTrue` is
`CountsAreReal`, `TimesAreMeasured` and `LogAgreesWithSignals`; `LogsAreTrue` has
the four parts the module names.

The modules state more than the runs list: a type invariant each (`TypeOK`), and
further invariants and step properties (for instance `HeldFactsHold`,
`CompletedJobHasBrief`, `CallsArePaid`, `PendingHasJob`,
`ReferencesAreStored`, `DurableSubmissionLands`, `MemoryMatchesDisk`,
`AttemptsAreKept`, `KeptIsKept`, `LinksAgree`, `AbandonedPublishNothing`). They hold on the same instances when added to the
`.cfg`; those of the first three modules, and `LinksAgree`, are theorems, the
liveness apart. `DurableSubmissionLands` was checked without `QueuedIsSent`: the
two together are slow.

*Deadlock* is checked in `analysis` and `delivery`. In the other runs something
is bounded (time, edits, events, troubles, requests) and a behaviour may end when
it is used up.

*Fairness.* `ClassroomSession` and `BriefAnalysis`: time passes, and a worker
that can take a step takes one in the end; the loop in `worker_main.py` polls for
ever, and whoever runs the service starts a worker that ended again (the compose
files name no restart policy).
Nothing is asked of plugin, student or teacher. Leases taken before the end of
the modelled time must be able to expire in it, so in the last `Lease` instants
nothing of `ClassroomSession` begins that another worker would have to clear up: no
worker crashes, no submission comes and no upload commits (`LeaseEndsInTime`). `EvidenceDelivery`: each thread goes
on with the call it is in, a dead server is started again, the cutoff comes, the
deadline worker has its rounds; and, as strong fairness, a request repeated for
ever gets through in the end, and a deferred chunk becomes due (the backoff is
capped). No person has to retry, recover or submit. `PlanAuthoring`: some worker
ticks, and delays and leases end. `AnalysisJobStore`: the threads run, a request
that began ends, a server that is down is started again; nobody has to notice a thread
that ended. `DesktopCapture`: a flush goes on, and a command that was given, as strong
fairness since it may wait for a lock others take: file operations settle, and
`withLock` is a queue. `ProfileAuthoring`: timers fire, and a
request that was sent is served or lost, and answered or not, in the end.
`SegmentUpload`, `SessionRecord`, `PlanPublication`, `PublicationGate` and
`BehaviorLog` state no liveness: they go on only as far as a person does.
`SessionAnalysis` states none either: that it ends is `EndsInTime`, a bound on the
time its calls take, in whatever order they end.

### Where documents and code disagree

One run shows behaviour that a design document excludes, with TLC's
counterexample and the quotation in `PROJECT.json`: `doc_accepted_keeps_version`.
A synchronisation that read an assignment as pending moves it to another version
after the student has accepted it.

The modules state more of what documents and comments say and the code does not
do. No run lists these properties; TLC violates each on the instance of its module's run,
`GapsRecorded` with `MaxSeq = 2`.

| Property | What the code does |
|---|---|
| `DeadlineKeepsBrief` (`ClassroomSession`) | the deadline worker looks for a brief in one transaction and submits in the next: a student's submission between them gets a second, system-made revision on top |
| `OneSession` (`ClassroomSession`) | a registration that read the assignment before the submission commits after it: the assignment gets a second session |
| `EverySessionCloses` (`ClassroomSession`) | a session whose first chunk begins with a change of cell, a pause or a page left is never closed: its brief would refer to that event, which the manifest does not keep (`briefs.py:527`), and each attempt ends a worker and drops the other jobs it had claimed |
| `GapsRecorded` (`ClassroomSession`) | a later chunk without the first leaves the session "completed", with no missing range |
| `UnavailableAfterAllAttempts` (`BriefAnalysis`) | a 4xx from the provider makes the analysis unavailable after one attempt, not three |
| `RestartRecovers` (`EvidenceDelivery`) | after a crash inside an append or a finalize, a restart past the cutoff raises in the first round of the deadline worker and the extension does not start again |
| `RestartLoadsJobs` (`AnalysisJobStore`) | an operation on a job that was cut between two files leaves a directory the recovery refuses, at this and every later start |
| `EventsAreRecovered` (`SegmentUpload`) | the reply of a finalization is lost and the page goes on recording for a session the server has closed |
| `AcceptedIsQueued` (`SegmentUpload`) | a batch is counted and its evidence not queued; after a reload it is never sent again |
| `RetriesAddNoVersion` (`PlanPublication`) | a publication repeated while the first still runs makes a second, identical version |
| `NoneUnseen` (`SessionRecord`) | a tab left on the first attempt at revision 1 writes revision 2 over revision 1 of the second attempt, which its author never saw: the request does not say of which analysis its revision is |
| `HandoffIsTransient` (`SessionRecord`) | an older export removes the log the worker has just written: ready job, log "generating" |
| `ValidRowsSurvive` (`SessionAnalysis`) | an answer has a sound row of one dimension and, for another, a value that cannot be compared (a list for the level, an integer no float can hold for the confidence): the validation raises (`analysis_result_validator.py:67`), the sound row is lost and no repair is asked for, though `:132` says "Validate expected dimensions independently and preserve valid rows." |
| `DeletionTakesLog` (`BehaviorLog`) | a `finalize` that fails or dies after the first file of the log leaves a session that does not name its log: its deletion completes and the log, with the student's events, stays |
| `ExitLeavesInterrupted` (`DesktopCapture`) | a window closed inside `finish` leaves `finalizing`: no command can resume, finish or replace the session |
| `NoLineIsJoined` (`DesktopCapture`) | a write cut just before a newline is accepted at recovery, and the first event of the resumed session shares its line (`eventWriter.ts:86`): the file and the brief cannot be had from then on |
| `NoneOvertaken` (`DesktopCapture`) | a flush's `get` that read `collecting` asks for the session's owner when `finish` has just given it up, and writes `interrupted` over `completed`; one command is enough |
| `OpenIsFound` (`DesktopCapture`) | a `start` that comes between `clearActivePointer`'s read and its `unlink` loses the pointer of the new session; and a late `get` that writes `interrupted` over a session whose pointer is gone leaves an unfinished one that no pointer names |

Further behaviour the models show, which a reader of the code may want to know:

- *Analysis jobs.* One waiting job more than the queue holds keeps the extension
  from loading. A job retried between the end of its attempt and the worker
  forgetting its id is taken for queued and waits until the restart. A deletion
  that was cut is not resumed, and a job of a half-deleted session can be retried.
  A worker that cannot write that its attempt failed ends with its thread: the job
  runs, nothing is analysed, and requests are accepted until the server is restarted.
- *Uploads.* A whole line without its newline makes a stream unreadable for good.
  A finalization that was cut leaves `finalizing`, and the page offers only an
  abandonment, which is refused. A batch may overtake the IndexedDB write of its
  last segment; a reload then finds a stream ahead of the browser.
- *Publication.* A `publish_assessment` that stops between its draft and its
  version leaves an open session with a draft, and later publications with other
  content fail on it. Synchronising an older version moves the binding back. An
  assessment updated between the reads and the publication gives a version with
  the profile of before. The unfinished job of a published session makes the next
  identical request a conflict.
- *The gate.* A profile it calls ready may be one the notebook's validator
  rejects: the gate does not look at the criterion's owner in a detector binding
  of another point, nor at `order`. The importer's `material_preflight_unavailable`
  is not a code the bundle's contract knows.
- *Profiles.* A save whose answer is lost is sent again with the old revision and
  refused: the editor says another page edited it and saves no more. A lost
  creation leaves an orphan draft. Pressing publish again after more edits
  returns the version of before. A version file whose audit line is missing makes
  `list_profiles` fail until that profile is published again.
- *Behaviour log.* If the last save of `finalize` fails and the one that takes the
  session back succeeds, `session.json` names a log and is collecting: the next
  `finalize` writes none, and what was recorded in between is not in it
  (`session_store.py:1465`). A deletion cut after the `.md` file has its name given
  to the next session of that second, and the repeated deletion removes that one's
  files. `LogsAreTrue` leaves both out, by `cut`. The detail of the log's summary says
  "failed n times, then succeeded" also when the success came first
  (`behavior_log_store.py:388`).
- *Training record.* An attempt that ends as `error` exports nothing, so the
  record keeps showing the job as it was before (`analysis_worker.py:881`). A
  process that dies between a job's end and its export leaves the log
  "generating". A torn review history makes the session unreadable.
- *VS Code.* A torn last line makes every activation fail. After a failed write
  the session is neither resumed nor replaced before a restart. A flush of an old
  session that fails stops the session begun since. A crash between the terminal
  terminal state and the brief leaves a session without one. Events recorded while
  `finish` runs are dropped; of two commands that finish one session, the second
  flushes what was recorded since the first did, and is refused, for the session has
  ended. `lastSessionId` is set also when `finish` fails. A
  plan written half makes listing plans and the activation fail.

## The proofs

TLAPS proves the following for every number of sessions, requests, workers,
batches, drafts, edits, tabs, editors, attempts and crashes, as far as a module has
them. The assumptions are those the modules name: times, limits and bounds are
naturals (leases and limits positive), `None` is no worker, no id and no status,
and the set of workers is finite.

*ClassroomSession.* Neither `RowsAgree` nor `HeldFactsHold` is inductive by itself:
that a job with an owner is leased, or that a finishing worker has a brief,
needs what the workers hold to be true of the rows, and the other way round.
`IInv` is their conjunction with `TypeOK`. `ClassroomSession_proofs` proves that
it is kept, by one step for each action. `OneSessionCollects`, `RetriesAddNothing`
and `ReceiptsStayTrue` then need one conjunct each. `ClaimsPayForRevisions` is
about two counters of two tables; its invariant counts the workers that have
claimed a session and not submitted yet: revisions plus those workers never
exceed the attempts. `ImplementsLogicalBrief` maps the tables to phase, number of
revisions and first submission time, and every action to a step of `LogicalBrief`
or to none.

*BriefAnalysis.* `IInv` is types, jobs that have their source, the shape of the
list of revisions, pending briefs that have their job, and what the workers hold.
`CallsStayPaid` counts, as above, the workers about to call, also when they share
a name. `CallsAreExclusive` assumes what the code relies on, `Budget < Lease`: a
worker with a job in hand has less time left than the job's lease, so nobody else
can have taken it, whatever its name. `ImplementsAnalysisOutcome` is the refinement.

*CandidateEvents and SessionAnalysis.* `FailuresReachModel` says of every recording
what `FailuresAreShown` says of one. It rests on what `FirstOf` returns: n elements of
a finite set, or all of it (`FirstOfCounts`). That is counted without induction: the
number of elements before one (`Place`) is an injection of the set into as many
numbers, so it is onto, and the first n are the ones numbered below n. The limits of
the code (20 events, 5 failures, 10 neighbours, 3 pauses) enter as
`CandidatesAssumption`: the first three steps always find room, so each adds all its
wishes (`AddedWhole`), and the last one fills what is left (`AddedCounts`).
`AnalysisIInv` adds to the two properties of `SessionAnalysis` what they need: the
rows taken so far are without fault and of dimensions the signals allow to be judged
(`RowsAreSound`), what is shown and judged follows from the recording (`Begun`), and a
dimension left open when the asking ends has a reason (`GapsHaveReasons`). That the
worker's older schema refuses nothing needs the levels of a profile to be `possible`
and `clear`, which `profile_validator.py:200` writes into every profile
(`ProfileAssumption`). The provider may answer anything at any time (`Responses` is
any set).

*EvidenceSignals and ReadableLog.* `SignalsTrue` says of every recording what the run
says of short ones. Each loop is a recursive function, so its result needs induction
over the recording, for which the library's theorems cannot be used. Three lemmas
replace them: a set of naturals has a least element (`LeastNumber`), so what is passed
on from each place to the next holds at all (`StepByStep`), and so a function given by
its step exists (`Recursion`). What holds of a loop up to a place is then an invariant
like any other: `FollowedUpTo` says that the pending failures are those no run at
their place has followed, the edited ones those with an edit since, and the count that
of the successes that answer a failure; `FollowStep` keeps it, though "at the same
place" is not transitive. `ComparedUpTo`, `MergedUpTo` and `LeftUpTo` are the same for
changes of error, merging and subtracting. `MergedUpTo` makes the merged intervals
spaced and covering, and such intervals are the longest stretches of the instants they
cover (`LongestAreStretches`), one for each, so that durations count instants
(`DurationCounts`). The sums are folds that take elements in any order; `SumIs` says
that such a sum is whatever function of the parts grows in the same way.
`LogAgrees` is counting: the log's failures, cell by cell, are all of them
(`DetailCounts`), and a recovery the signals count is in a cell whose failures the log
counts, if every edit and run knows its cell or file (`AnswersFollowFailures`). The
recording is any finite sequence of events with integer instants
(`RecordingsAssumption`); the one thing assumed of `Missing` is that it is no number
and no word of a run or result.

*EvidenceDelivery.* `DeliveredIsStored` is not inductive because threads write
back copies: `Evidence` says that every copy, and every outcome about to be
marked, claims only what is stored. `Places` says which thread can be where,
`Locking` that a thread inside `submit` has the lock. `Stages` ties each place to
the local session and to the submission's file (past `finalize` the stream is
closed for good, past `Save` the payload is fixed), and `Briefs` says which ids
the service can have: those drawn, and the plugin's own once at most, because a
new id is only drawn while no payload is durable. From these follow
`OneRevisionOnly`, `SubmittedWasReceived` and `PayloadStaysFixed`.

*PlanAuthoring.* `AuthoringIInv` is types, `LinksAgree`, `SourceKeptWhileNeeded`, the one
open slot, and two facts about what is absent: a free id is linked to nothing,
and a worker that is past the top of its loop has a job. `RowStep` is all that
any action but a request does to one job; the workers' actions and time are such
steps (`WorkSteps`), so links and sources need one argument for all of them. The
refinement follows the same way: a row step is one step of `SuggestionPromise`
for the row's session, or none.

*PlanPublication.* Each action is shown to make `Steps`: what may happen to a draft, to the versions, to the
binding, to a tab and to a request. `IInv` says that versions are in the series
of the draft they were made of, that the binding and every request past its
publication name a version that exists, and `TabsRead`: a tab that is at its
draft's revision has the draft's edits. The last is what `EditsAreKept` needs: a
save whose revision is accepted writes on top of all earlier edits. That a state
of a draft becomes one version (`PlanHistory`) rests on the check that looks for
that state among the versions, inside the transaction that appends.

*PublicationGate.* `GateIInv` is short: profiles and bundles are what their schemas
say, and what was published was ready for the bundle it was published with. What
follows from `Ready` is the work. `ReadyCovers`: if none of the gate's eight kinds of
issue is found, no id or requirement is repeated (`NoDuplicates`, by the first row of
each id), so each student's requirement has its point, the point its one dimension,
and a criterion that must be verified a binding that holds. `FittingReady` is the
other way round, one lemma for each kind of issue: what the notebook's rules and
`Fits` say of a profile excludes it. That a criterion has one owner is the fact both
programs compute by a loop over all dimensions (`OwnerOfUse`). The only assumptions
are the schemas, and that a bundle names a requirement once, which is so of every
bundle the importer can write.

*DesktopCapture.* Nothing in the extension makes a command wait for another, so the
theorems allow any number at a time. `IInv` says of every session that was not
overtaken by a late `get` (`Kept`): its file has the numbers from 1 on (`Numbered`), its
state counts the whole file unless an append is between its two writes or the
session is `blocked` by one that failed (`Counted`), and a brief tells what the file has
(`Told`). That the file of an ended session stays as it is follows, because only a
flush under way could add to it, and one can be under way only while the session
collects or was interrupted. `Counts` and `Chains` hold of overtaken sessions too: a
file never shrinks, a batch is consecutive, only the first of a chain is written. A
command reads a session's state and uses it after several `await`s. What it may still
believe is little, and does not depend on what others do meanwhile: past the end of a
session, that the session has ended (`Past`); while it waits for its flush, that the
events it waits for are in the file or in a batch of the chain (`Placed`,
`Tickets`), which a failure of that flush takes from it. `Covered` says the same of all
numbers the controller has given; it is what makes the next number the right one
(`Numbers`). A controller and its flushes know only sessions that this window owns or
that have ended (`Held`), so nobody else can be at work on the file. Each action is
then one step of `EvidenceLog`: it extends one open session by the next numbers, ends
one, puts one among the overtaken, or changes no evidence.

*SessionRecord.* The log's writer compares what it read with what it reads again,
while the job may be retried between the two. `ReadyIsOfJob` says what an export
may believe: if it read a ready job, the job is still ready, and once it has read
all, the attempt it read is the job's. It holds because a ready job is never
changed (a retry takes a job that is `partial`, `unconfigured` or `error`), and
`LogIsOfLastAnalysis` follows. `ReviewsBuildOn` says that the author of a review has
seen the one before it, in the same analysis, unless the tab still shows an earlier
attempt. The revision is compared in the step that appends, so a tab that shows the
current attempt has seen as many reviews as there are; the proof counts the reviews of each
dimension (`AppendKeeps`). The exception is what the code does (`NoneUnseen`). `RecordIsCurrent` needs no
count of the attempts that may still fail: whoever changes the session starts an
export after the change, and `RecordFollows` says that, whenever the record has to
show the session, it does, or some export has read nothing but what the session is
now (`Leads`), or the process died and nothing runs. Such an export cannot fail
before it has written, and what the other thread writes afterwards is the same,
since one export at a time is between its check and its write (`Exclusion`).

*SegmentUpload.* `StreamAlwaysHoldsReceipts` is proved for any bounds, batch sizes and
length of the queue. That the stream is in order and keeps what was receipted is far
from inductive: the next append may bring a batch that was cut
in another life of the page, whose boundaries are not those of the rows it was cut
from. `Sane` therefore speaks of every batch that may still reach the stream
(`Alive`: in the page, on its way, or journaled by an append that was cut): it is in
order, begins after a part of the stream that is counted and so will not change, and
whatever is in IndexedDB after its last number was recorded after its last segment
(`Sound`). With it go the same of the rows a page may take up after a reload
(`RowsSound`), of the queue, which continues what the page knows to be counted and
whose beginning is the batch that was cut (`QueueSound`), and of what is in the
stream, counted and confirmed (`StreamSound`). The heart is
`AppendExtends`: whatever an accepted append leaves, whole or cut, the stream has
become longer and not different, because a batch that says something else than the
stream after its first number is refused (`FitsInOrder`). That
anything is sent at all stays with TLC.

`ReloadAlwaysRecovers` needs more than order: what a reload will find depends on which
row is written next. `Recoverable` adds four facts to `Sane`. The appends under way are
those of the page's last numbers, and while none has failed every number before them
that the server has not confirmed has its row (`ChainSound`); so a row that is written
leaves no gap behind it, and a row that stays is there until session.json counts its
number (`RowsKept`). What a batch in `Alive` holds after that count is in the rows, and
so is what the stream already has of it (`StreamKept`), unless the batch was cut before
its segments had reached IndexedDB. That is what `ahead` records, and why the theorem
leaves such sessions out: a flush waits for the appends given to the chain before it
began, and cuts its batch from the queue as it is by then, with segments recorded in
the meantime whose rows may never come. Last, no number is used that was not given (`Numbered`). The steps
that touch none of this share one argument (`RecoverableKeeps`), from what each may do
to the rows, the chain and the stream; a receipt removes only rows the store counts by
then, because session.json is written before the reply.

*ProfileAuthoring.* An editor and the store agree through requests and answers, so
`ProfileInv` has, for each editor, what its request is of (`Requests`), what a saved
answer and an editor at rest may rely on (`Saved`), and how old a draft may be that
a publication under way will take (`Clicked`). `Owned` says that no two editors
know the same profile: only then does nobody write over what another believes
saved. `LinesHaveFiles` says that the audit file names no version without its
file; with `AuditFacts` (an append, cut anywhere, loses no line and adds at most
its own) each publication is one step of `PlanShelf`, or none. These theorems share
`ReviewsAndProfiles_proofs` with those of `SessionRecord`; that is why `Init`, `Next`
and `vars` of `ProfileAuthoring` are `ProfileInit`, `ProfileNext` and `profileVars`.

*BehaviorLog.* `LogsAreTrue` speaks of operations that have ended, and an operation is
up to six steps of which another may see any part. `LogIInv` says what each has in hand
(`Finalizing`, `Appending`, `Erasing`), what has been written so far (`PartWritten`,
`SentIsKept`), and three things of names that two files and two threads must agree on.
No stem is given twice (`IndexApart`). The log a session names is that of the index,
until a deletion takes it from there, and even then it is nobody else's (`PathsKept`,
`PathsApart`): so a file that is unlinked, or rewritten by a session that is finalized
meanwhile, belongs to whom the writer believes. And all events of a session are at its
name, or in the files that its deletion has still to remove (`EventsAtHome`), from which
follow both that logs stay apart and that a deletion leaves nothing. A deletion that is
cut breaks the second for good, which is why trust in a name (`Trusted`) ends with the
first one that is cut, except for sessions of which nothing was cut and to which the
older page did not write. A deletion gives a name back while its files are still there;
that nobody takes it meanwhile is the lock of the index (`IndexLocked`), the only guard of
another thread the proof of `ReserveKeeps` needs. A failure and a death are one argument
(`StoppedKeeps`): threads rest, their sessions are taken back or not, one file may be
empty, and what is half done is remembered in `cut`. An append that failed as soon as it
had its name used not to be remembered, and the attempt to prove `SentIsKept` showed that
the later events of the older page then do not include the one that was lost: the code
answers that request with an error, and the model counts it as cut. These theorems are in
`ReviewsAndProfiles_proofs` too.

*AnalysisJobStore.* That the store accepts a directory (`Trusted`) is not inductive:
in the middle of every operation the files tell two stories. `IInv` names the
shapes a job's files may have, three at rest (`WaitsRow`, `RunsRow`, `EndedRow`) and
one for each place between two files, and says which thread must be where for
each (`WorkerRow`, `MainRow`); a job in none of the resting shapes is held by a
thread or was cut (`Row`). `TrustedIsWhole` shows that `_read_complete_job` accepts
exactly the resting shapes. The threads do not disturb each other because the
worker's operations are on jobs that wait or run and those of requests are not,
while recovery runs when the worker rests (`Apart`); the locks alone would not be
enough, since an analysis holds none. A deletion reads every job, so it begins
with a directory at rest; its own shapes carry the proof from there to
`DeletedStaysGone`. A thread that ended leaves a job in the shape of one that runs, for
which only the ended thread could answer; the next start finds it as after a death. `StartFailsForNothingElse` adds that a server that failed to load
does nothing but start again.

*Only model-checked:* all liveness, which the prover does not reach
(`JobsSettle`, `AnalysisJobsSettle`, `EveryRequestAnswered`,
`QueuedIsSent`, `DurableSubmissionLands`, `SuggestionsSettle`, `RunningEnds`,
`CommandsEnd`, `EditsSettle`); and the disagreements with documents. Every invariant,
action property and refinement that a passing run checks is a theorem.

## Plan

Done, in the order of their weight for a student's work and then a teacher's:
closing a session once, delivering its evidence, analysing its brief; the
analyses of the Jupyter server; the browser's uploader; plans and suggestions;
records and reviews; the VS Code extension; the publication gate and the
profiles' editor; the analysis pipeline; the logs people read. What is left, most useful first:

1. The arithmetic of scores and mastery as operators against a reference.
2. The dimension templates.

## Not modelled

- Authentication, token refresh and the plugin's registration: they decide
  whether a request is let in, and change no state of the models.
- Object storage and read models: an upload is stored or it is not; queries.
- Of the analysis pipeline: prompts, what is scrubbed from them, the wording of
  results, and the older labeler, which an upload no longer calls. The jobs'
  models leave the outcome of an analysis open.
- Scores, mastery, dimension templates, the platform's resource lists: no protocol
  of their own; see the plan.
- Capture in JupyterLab, the panels of both front ends, the collectors, the
  Python runner and the AI client of the extension: they produce the events and
  commands the models take as given.
- Routes, apart from what a handler does beyond its service; deployment, scripts
  apart from the importer's checks, the demo, the contracts.
