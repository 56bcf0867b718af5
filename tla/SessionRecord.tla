----------------------------- MODULE SessionRecord -----------------------------
(***************************************************************************)
(* What the plugin writes of one session for people to read: the training  *)
(* record, the three public logs, the classroom brief and the history of   *)
(* the teacher's reviews.                                                  *)
(*                                                                         *)
(* They are written by two threads: the handlers run one after the other   *)
(* on the server's main thread, the analysis worker exports after each     *)
(* job.  A reader of a session takes several locks one after the other, so *)
(* what it returns may be of several moments.  Only the write of the       *)
(* record is one step with its check, and only for what the session's      *)
(* lock protects: neither the job nor the reviews.                         *)
(*                                                                         *)
(* A detail is [job, analysis, reviews, count]: the status of the job, the *)
(* attempt whose result is shown (0: none), its reviews, and their number  *)
(* in the summary (-1: unknown).  MaxAttempt and MaxReview bound the       *)
(* analyses and the reviews of each.                                       *)
(***************************************************************************)
EXTENDS Integers, Sequences, FiniteSets

CONSTANTS
  Dimension,   \* the dimensions a teacher reviews
  Tab,         \* tabs that show the analysis
  MaxAttempt, MaxReview

ASSUME BoundsAssumption == MaxAttempt \in Nat \ {0} /\ MaxReview \in Nat

Thread == {"main", "worker"}
Attempt == 1..MaxAttempt

VARIABLES
  session,      \* session.json: its status
  brief,        \* whether classroom_brief.json is there
  job,          \* the analysis job: its status, attempt, and whether the worker knows it
  reviews,      \* by analysis: review_history.jsonl
  torn,         \* the analyses whose history ends within a line
  record,       \* training_record.json: the detail it was built from
  logs,         \* the public logs: whether the operation log is there, whose analysis is shown
  export,       \* by thread: its export_training_record
  handler,      \* the request on the main thread
  lock,         \* who holds the session's lock between two steps
  tab,          \* by tab: the analysis it shows, with the reviews of each dimension
  interrupted   \* an export was cut off by a crash and none has succeeded since

vars == <<session, brief, job, reviews, torn, record, logs, export, handler, lock, tab, interrupted>>
files == <<session, brief, job, reviews, torn>>

NoDetail == [job |-> "none", analysis |-> 0, reviews |-> <<>>, count |-> -1]
NoJob == [status |-> "none", attempt |-> 0, known |-> FALSE]
NoExport == [phase |-> "idle", step |-> "summary", tries |-> 0, first |-> NoDetail, now |-> NoDetail]
NoRequest == [pc |-> "idle", analyse |-> FALSE, tab |-> "none", dimension |-> "none", revision |-> 0,
              shown |-> 0, analysis |-> 0]
Missing == <<>>

Init ==
  /\ session = "collecting" /\ brief = FALSE
  /\ job = NoJob
  /\ reviews = [a \in Attempt |-> <<>>] /\ torn = {}
  /\ record = Missing
  /\ logs = [operation |-> FALSE, analysis |-> 0]
  /\ export = [t \in Thread |-> NoExport]
  /\ handler = NoRequest
  /\ lock = {}
  /\ tab = [t \in Tab |-> [analysis |-> 0, revision |-> [d \in Dimension |-> 0]]]
  /\ interrupted = FALSE

-----------------------------------------------------------------------------
(* Reading a session *)

\* The statuses of a job that has a result; a job without a configured
\* provider ends as partial with a result that is not shown.
HasResult(status) == status \in {"ready", "partial", "unconfigured"}
IsShown(status) == status \in {"ready", "partial"}

\* list_all refuses a history that ends within a line.
Readable == job.attempt \notin torn

\* _summary: the number of reviews is of the job as it is now.
Summary == [NoDetail EXCEPT !.job = job.status,
                            !.count = IF HasResult(job.status) THEN Len(reviews[job.attempt]) ELSE -1]

\* The public fields of the session as it is now, read at one moment.
Source == [Summary EXCEPT !.analysis = IF IsShown(job.status) THEN job.attempt ELSE 0,
                          !.reviews = IF IsShown(job.status) THEN reviews[job.attempt] ELSE <<>>]

Unlocked(t) == lock \subseteq {t}
Reads(t, step) == export[t].phase # "idle" /\ export[t].step = step
Go(t, e) == export' = [export EXCEPT ![t] = e]

\* An error ends the export: it is logged and swallowed, or the session's lock is
\* released on the way.
Fails(t) == Go(t, NoExport) /\ lock' = lock \ {t}

\* get_detail, its first part: the session, its profile and events, and the
\* summary.
ReadSummary(t) ==
  /\ Reads(t, "summary") /\ Unlocked(t)
  /\ IF HasResult(job.status) /\ ~Readable
       THEN Fails(t)
       ELSE Go(t, [export[t] EXCEPT !.now = Summary, !.step = "job"]) /\ UNCHANGED lock
  /\ UNCHANGED <<files, record, logs, handler, tab, interrupted>>

\* _attach_analysis reads the job again, and shows that status.
ReadJob(t) ==
  /\ Reads(t, "job")
  /\ Go(t, [export[t] EXCEPT !.now.job = job.status, !.step = IF IsShown(job.status) THEN "result" ELSE "done"])
  /\ UNCHANGED <<files, record, logs, handler, lock, tab, interrupted>>

\* load_public_result and list_all: a job that was retried meanwhile, or a history
\* that cannot be read, is an error.
ReadResult(t) ==
  /\ Reads(t, "result") /\ Unlocked(t)
  /\ IF IsShown(job.status) /\ Readable
       THEN /\ Go(t, [export[t] EXCEPT !.now.analysis = job.attempt, !.now.reviews = reviews[job.attempt],
                                       !.step = "done"])
            /\ UNCHANGED lock
       ELSE Fails(t)
  /\ UNCHANGED <<files, record, logs, handler, tab, interrupted>>

-----------------------------------------------------------------------------
(* export_training_record *)

MaxTries == 3

Fresh == [NoExport EXCEPT !.phase = "read", !.tries = 1]

\* The next of at most three attempts.
Again(t) == IF export[t].tries < MaxTries THEN [Fresh EXCEPT !.tries = export[t].tries + 1] ELSE NoExport

Done(t, phase) == export[t].phase = phase /\ export[t].step = "done"

\* The record is built of what was read; write_training_record_if_source_current
\* takes the session's lock and reads the session again under it.
Build(t) ==
  /\ Done(t, "read") /\ lock = {}
  /\ lock' = lock \cup {t}
  /\ Go(t, [export[t] EXCEPT !.phase = "check", !.step = "summary", !.first = export[t].now,
                                  !.now = NoDetail])
  /\ UNCHANGED <<files, record, logs, handler, tab, interrupted>>

\* The comparison with what was read first forgotten.
WriteIfCurrent_Slip(t) ==
  /\ Done(t, "check")
  /\ record' = <<export[t].first>>
  /\ Go(t, [export[t] EXCEPT !.phase = "logs", !.step = "operation"])
  /\ lock' = {}
  /\ UNCHANGED <<files, logs, handler, tab, interrupted>>

\* The record is written if the second reading is the first one.
WriteIfCurrent(t) ==
  /\ Done(t, "check")
  /\ IF export[t].now = export[t].first
       THEN /\ record' = <<export[t].first>>
            /\ Go(t, [export[t] EXCEPT !.phase = "verify", !.step = "summary", !.now = NoDetail])
       ELSE Go(t, Again(t)) /\ UNCHANGED record
  /\ lock' = {}
  /\ UNCHANGED <<files, logs, handler, tab, interrupted>>

\* The stored record is read back and the session a third time.
Verify(t) ==
  /\ Done(t, "verify")
  /\ Go(t, IF export[t].now = export[t].first /\ record = <<export[t].first>>
             THEN [export[t] EXCEPT !.phase = "logs", !.step = "operation", !.now = NoDetail] ELSE Again(t))
  /\ UNCHANGED <<files, record, logs, handler, lock, tab, interrupted>>

\* _refresh_log_artifacts: the operation and process logs are written once, of a
\* finalized session.
WriteOperationLog(t) ==
  /\ Reads(t, "operation") /\ Unlocked(t)
  /\ logs' = [logs EXCEPT !.operation = TRUE]
  /\ Go(t, [export[t] EXCEPT !.step = "analysis"])
  /\ UNCHANGED <<files, record, handler, lock, tab, interrupted>>

\* A partial result rendered like a whole one.
AnalysisLog_Slip(detail) == detail.analysis

\* render_analysis_log: only of a successful analysis.
AnalysisLog(detail) == IF detail.job = "ready" THEN detail.analysis ELSE 0

\* The analysis log is replaced or removed, and the export has succeeded.
WriteAnalysisLog(t) ==
  /\ Reads(t, "analysis") /\ Unlocked(t)
  /\ logs' = [logs EXCEPT !.analysis = AnalysisLog(export[t].first)]
  /\ Go(t, NoExport)
  /\ interrupted' = FALSE
  /\ UNCHANGED <<files, record, handler, lock, tab>>

ExportStep(t) ==
  \/ ReadSummary(t) \/ ReadJob(t) \/ ReadResult(t) \/ Build(t) \/ WriteIfCurrent(t)
  \/ Verify(t) \/ WriteOperationLog(t) \/ WriteAnalysisLog(t)

Exporting(t) == export[t].phase # "idle"

-----------------------------------------------------------------------------
(* The handlers of the main thread *)

Free == handler.pc = "idle" /\ ~Exporting("main")

\* The finalize route, again for a session that is finalized; with an analysis
\* the job is created and attached first, then the record is exported.
Finalize(analyse) ==
  /\ Free /\ Unlocked("main")
  /\ session' = "finalized"
  /\ job' = IF analyse /\ job.status = "none" THEN [NoJob EXCEPT !.status = "queued", !.attempt = 1] ELSE job
  /\ handler' = [NoRequest EXCEPT !.pc = "finalize", !.analyse = analyse]
  /\ Go("main", Fresh)
  /\ UNCHANGED <<brief, reviews, torn, record, logs, lock, tab, interrupted>>

\* After the export the brief is written and a queued job enqueued.
Finalized ==
  /\ handler.pc = "finalize" /\ ~Exporting("main") /\ Unlocked("main")
  /\ brief' = TRUE
  /\ job' = IF handler.analyse /\ job.status = "queued" THEN [job EXCEPT !.known = TRUE] ELSE job
  /\ handler' = NoRequest
  /\ UNCHANGED <<session, reviews, torn, record, logs, export, lock, tab, interrupted>>

\* The retry route: the same job, another attempt.
Retry ==
  /\ Free /\ job.status \in {"partial", "unconfigured", "error"} /\ job.attempt < MaxAttempt
  /\ job' = [status |-> "queued", attempt |-> job.attempt + 1, known |-> TRUE]
  /\ UNCHANGED <<session, brief, reviews, torn, record, logs, export, handler, lock, tab, interrupted>>

Revision(a, d) == Cardinality({i \in DOMAIN reviews[a] : reviews[a][i].dimension = d})

\* The session's analysis, as a tab shows it: each dimension with the revision of
\* its last review.
ShowAnalysis(t) ==
  /\ Free /\ Unlocked("main") /\ HasResult(job.status) /\ Readable
  /\ tab' = [tab EXCEPT ![t] = [analysis |-> job.attempt, revision |-> [d \in Dimension |-> Revision(job.attempt, d)]]]
  /\ UNCHANGED <<files, record, logs, export, handler, lock, interrupted>>

\* A review from a tab: its body has a revision and no analysis, and the result that
\* is current now is loaded, ...
PatchReview(t, d) ==
  /\ Free /\ Unlocked("main") /\ tab[t].analysis # 0 /\ HasResult(job.status)
  /\ handler' = [pc |-> "append", analyse |-> FALSE, tab |-> t, dimension |-> d,
                 revision |-> tab[t].revision[d], shown |-> tab[t].analysis, analysis |-> job.attempt]
  /\ UNCHANGED <<files, record, logs, export, lock, tab, interrupted>>

\* A line of the history.  What its author saw, the analysis shown and the revision
\* seen of it, is kept for the properties: the file does not have it.
Line == [dimension |-> handler.dimension, revision |-> Revision(handler.analysis, handler.dimension) + 1,
         shown |-> handler.shown, seen |-> handler.revision]

\* The revision is not compared.
MayAppend_Slip == TRUE

MayAppend == Revision(handler.analysis, handler.dimension) = handler.revision

\* ... and append takes the lock of the reviews only: a history that cannot be read
\* or a revision that is not the last one is refused.
AppendReview ==
  /\ handler.pc = "append"
  /\ IF handler.analysis \notin torn /\ MayAppend
       THEN /\ Len(reviews[handler.analysis]) < MaxReview
            /\ reviews' = [reviews EXCEPT ![handler.analysis] = Append(@, Line)]
            /\ Go("main", Fresh)
       ELSE UNCHANGED <<reviews, export>>
  /\ handler' = NoRequest
  /\ UNCHANGED <<session, brief, job, torn, record, logs, lock, tab, interrupted>>

-----------------------------------------------------------------------------
(* The worker, and the end of the process *)

StartJob ==
  /\ job.status = "queued" /\ job.known /\ ~Exporting("worker")
  /\ job' = [job EXCEPT !.status = "running"]
  /\ UNCHANGED <<session, brief, reviews, torn, record, logs, export, handler, lock, tab, interrupted>>

\* The terminal state is stored, then the callback exports.
FinishJob(status) ==
  /\ job.status = "running"
  /\ job' = [job EXCEPT !.status = status, !.known = FALSE]
  /\ Go("worker", Fresh)
  /\ UNCHANGED <<session, brief, reviews, torn, record, logs, handler, lock, tab, interrupted>>

\* An attempt that ends with an error is stored as one, and nothing is exported.
FailJob ==
  /\ job.status = "running"
  /\ job' = [job EXCEPT !.status = "error", !.known = FALSE]
  /\ UNCHANGED <<session, brief, reviews, torn, record, logs, export, handler, lock, tab, interrupted>>

\* The process dies, perhaps within a line of the history, and starts again: the
\* job that was waiting or running is queued.
Restart ==
  /\ export' = [t \in Thread |-> NoExport]
  /\ handler' = NoRequest /\ lock' = {}
  /\ \/ UNCHANGED torn
     \/ handler.pc = "append" /\ MayAppend /\ torn' = torn \cup {handler.analysis}
  /\ job' = IF job.status \in {"queued", "running"} THEN [job EXCEPT !.status = "queued", !.known = TRUE] ELSE job
  /\ interrupted' = (interrupted \/ \E t \in Thread : Exporting(t))
  /\ UNCHANGED <<session, brief, reviews, record, logs, tab>>

Handlers ==
  \/ (\E analyse \in BOOLEAN : Finalize(analyse)) \/ Finalized \/ Retry
  \/ (\E t \in Tab : ShowAnalysis(t)) \/ (\E t \in Tab, d \in Dimension : PatchReview(t, d)) \/ AppendReview

Worker == StartJob \/ (\E status \in {"ready", "partial", "unconfigured"} : FinishJob(status)) \/ FailJob

Next == Handlers \/ Worker \/ (\E t \in Thread : ExportStep(t)) \/ Restart

Spec == Init /\ [][Next]_vars

-----------------------------------------------------------------------------
(* list_log_artifacts *)

OperationLogStatus ==
  IF logs.operation THEN "ready" ELSE IF session = "finalized" THEN "error" ELSE "pending"

AnalysisLogStatus ==
  CASE job.status \in {"queued", "running"} -> "generating"
    [] job.status = "ready" -> IF logs.analysis # 0 THEN "ready" ELSE "generating"
    [] job.status \in {"partial", "unconfigured", "error"} -> "error"
    [] OTHER -> "pending"

-----------------------------------------------------------------------------
(* Properties *)

Details == [job : {"none", "queued", "running", "ready", "partial", "unconfigured", "error"},
            analysis : 0..MaxAttempt,
            reviews : Seq([dimension : Dimension, revision : 1..MaxReview, shown : Attempt, seen : 0..MaxReview]),
            count : -1..MaxReview]

\* Type correctness of the files, the requests and the exports.
TypeOK ==
  /\ session \in {"collecting", "finalized"} /\ brief \in BOOLEAN
  /\ job.status \in {"none", "queued", "running", "ready", "partial", "unconfigured", "error"}
  /\ job.attempt \in 0..MaxAttempt /\ job.known \in BOOLEAN
  /\ torn \subseteq Attempt /\ lock \subseteq Thread /\ Cardinality(lock) <= 1
  /\ record # Missing => record[1] \in Details
  /\ logs.operation \in BOOLEAN /\ logs.analysis \in 0..MaxAttempt
  /\ \A t \in Thread : export[t].first \in Details /\ export[t].now \in Details /\ export[t].tries \in 0..MaxTries

Settled ==
  /\ session = "finalized" /\ handler.pc = "idle" /\ ~(\E t \in Thread : Exporting(t))
  /\ job.status \notin {"queued", "running"}

\* A review, a retry and the end of a job may come at any step of two exports:
\* when all of them have ended, the training record shows the session as it is
\* now, unless an export was cut off by the end of the process or the history of
\* reviews cannot be read.  The record of a retried job waits for its end, and an
\* attempt that ends with an error never gets into it.
RecordIsCurrent ==
  Settled /\ job.status # "error" /\ ~interrupted /\ (job.attempt # 0 => Readable) => record = <<Source>>

\* The analysis log shows the last analysis, which is ready: none is left from an
\* attempt that was retried, and a slow export brings none back.
LogIsOfLastAnalysis ==
  logs.analysis # 0 => job.status = "ready" /\ logs.analysis = job.attempt

\* The author of a review of analysis a had the one before on the screen.
SawTheOneBefore(a, r) == r.shown = a /\ r.seen = r.revision - 1

\* No review is lost and, whichever tab it comes from and however late, none
\* overwrites one its author has not seen, as long as the tab shows the analysis it
\* reviews: only a tab left on an attempt that was retried since may.
ReviewsBuildOn == \A a \in Attempt : \A i \in DOMAIN reviews[a] :
  LET r == reviews[a][i]
  IN  /\ r.revision = Cardinality({j \in 1..i : reviews[a][j].dimension = r.dimension})
      /\ SawTheOneBefore(a, r) \/ r.shown < a

\* Without that exception it does not hold: the revision of a tab left on attempt 1
\* is compared with the reviews of attempt 2, and may be the same by chance.
NoneUnseen == \A a \in Attempt : \A i \in DOMAIN reviews[a] :
  reviews[a][i].revision > 1 => SawTheOneBefore(a, reviews[a][i])

\* "Treat that narrow handoff as transient so clients keep polling": when the
\* exports have ended, a ready job has its log.
HandoffIsTransient == Settled /\ ~interrupted => AnalysisLogStatus # "generating"
=============================================================================
