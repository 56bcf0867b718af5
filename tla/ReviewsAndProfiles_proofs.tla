---------------------- MODULE ReviewsAndProfiles_proofs ----------------------
(***************************************************************************)
(* Theorems about what a teacher makes of a session and of its judgement:  *)
(* SessionRecord for any number of dimensions, tabs, attempts and reviews, *)
(* and for exports cut anywhere; ProfileAuthoring for any number of        *)
(* editors, edits, lost requests and cut publications; BehaviorLog for any *)
(* number of sessions of one second, events, names and troubles.           *)
(***************************************************************************)
EXTENDS SessionRecord, ProfileAuthoring, BehaviorLog, FiniteSetTheorems, SequenceTheorems,
        NaturalsInduction, TLAPS

USE BoundsAssumption

JobStatus == {"none", "queued", "running", "ready", "partial", "unconfigured", "error"}
ReviewLine == [dimension : Dimension, revision : Nat, shown : Int, seen : Nat]
DetailRow == [job : JobStatus, analysis : Int, reviews : Seq(ReviewLine), count : Int]
ExportRow == [phase : {"idle", "read", "check", "verify", "logs"},
              step : {"summary", "job", "result", "done", "operation", "analysis"},
              tries : Nat, first : DetailRow, now : DetailRow]
JobRow == [status : JobStatus, attempt : 0..MaxAttempt, known : BOOLEAN]

\* The types the theorems need.
JobTyped ==
  /\ job \in JobRow
  /\ job.status # "none" => job.attempt \in Attempt
  /\ job.status = "none" => job.attempt = 0
ExportTyped == export \in [Thread -> ExportRow]
ReviewsTyped ==
  /\ reviews \in [Attempt -> Seq(ReviewLine)]
  /\ tab \in [Tab -> [analysis : Int, revision : [Dimension -> Nat]]]
  /\ \A t \in Tab : tab[t].analysis <= job.attempt
  /\ handler.pc = "append" =>
       /\ handler.analysis \in Attempt /\ handler.dimension \in Dimension /\ handler.revision \in Nat
       /\ handler.shown \in Int /\ handler.shown <= handler.analysis

\* What an export e says of a ready job is of the job j.
ReadyRow(e, j) ==
  /\ e.now.job = "ready" => j.status = "ready"
  /\ e.now.job = "ready" /\ e.step = "done" => e.now.analysis = j.attempt
  /\ e.first.job = "ready" => j.status = "ready" /\ e.first.analysis = j.attempt

ReadyIsOfJob == \A t \in Thread : ReadyRow(export[t], job)

\* The invariant behind the theorems.
IInv == JobTyped /\ ExportTyped /\ ReviewsTyped /\ ReadyIsOfJob /\ LogIsOfLastAnalysis /\ ReviewsBuildOn

-----------------------------------------------------------------------------
(* Rows *)

\* The rows that stand for nothing, or for an export that starts, are rows and
\* say nothing of a job.
LEMMA Constants ==
  /\ NoDetail \in DetailRow /\ NoExport \in ExportRow /\ Fresh \in ExportRow
  /\ \A j : ReadyRow(NoExport, j) /\ ReadyRow(Fresh, j)
<1>1. NoDetail \in DetailRow /\ NoDetail.job = "none"
  <2>1. <<>> \in Seq(ReviewLine)
    OBVIOUS
  <2> QED
    BY <2>1 DEF NoDetail, DetailRow, JobStatus
<1>2. NoExport \in ExportRow /\ NoExport.now = NoDetail /\ NoExport.first = NoDetail
  BY <1>1 DEF NoExport, ExportRow
<1>3. Fresh \in ExportRow /\ Fresh.now = NoDetail /\ Fresh.first = NoDetail
  BY <1>1, <1>2 DEF Fresh, NoExport, ExportRow
<1> QED
  BY <1>1, <1>2, <1>3 DEF ReadyRow

\* An export that moves on while the job stays.
LEMMA GoFacts ==
  ASSUME IInv, NEW t \in Thread, NEW e \in ExportRow, ReadyRow(e, job), Go(t, e), UNCHANGED job
  PROVE  ExportTyped' /\ ReadyIsOfJob'
BY DEF IInv, ExportTyped, ReadyIsOfJob, Go

\* A ready job is never another, so what is said of it stays true.
LEMMA JobMoves ==
  ASSUME IInv, UNCHANGED export,
         job.status = "ready" => job'.status = "ready" /\ job'.attempt = job.attempt
  PROVE  ExportTyped' /\ ReadyIsOfJob' /\ (UNCHANGED logs => LogIsOfLastAnalysis')
BY DEF IInv, ExportTyped, ReadyIsOfJob, ReadyRow, LogIsOfLastAnalysis

\* A summary is a detail.
LEMMA SummaryType ==
  ASSUME IInv
  PROVE  Summary \in DetailRow /\ Summary.job = job.status
<1>1. CASE HasResult(job.status)
  <2>1. reviews[job.attempt] \in Seq(ReviewLine)
    BY <1>1 DEF IInv, JobTyped, HasResult, ReviewsTyped
  <2>2. Len(reviews[job.attempt]) \in Int
    BY <2>1
  <2> QED
    BY <1>1, <2>2, Constants DEF Summary, IInv, JobTyped, JobRow, DetailRow, NoDetail
<1>2. CASE ~HasResult(job.status)
  BY <1>2, Constants DEF Summary, IInv, JobTyped, JobRow, DetailRow, NoDetail
<1> QED
  BY <1>1, <1>2

-----------------------------------------------------------------------------
(* The exports *)

\* Every step of an export keeps the types and what is said of a ready job, and
\* writes the analysis log of such a job only.
LEMMA ExportKeeps ==
  ASSUME IInv, NEW t \in Thread, ExportStep(t)
  PROVE  ExportTyped' /\ ReadyIsOfJob' /\ LogIsOfLastAnalysis'
<1>0. /\ export[t] \in ExportRow /\ ReadyRow(export[t], job)
      /\ export[t].now \in DetailRow /\ export[t].first \in DetailRow
      /\ job \in JobRow /\ job.attempt \in 0..MaxAttempt /\ UNCHANGED job
  BY DEF IInv, ExportTyped, ReadyIsOfJob, ExportRow, JobTyped, JobRow, ExportStep, ReadSummary,
         ReadJob, ReadResult, Build, WriteIfCurrent, Verify, WriteOperationLog, WriteAnalysisLog, files
<1>1. CASE ReadSummary(t)
  <2>1. \/ Go(t, NoExport)
        \/ Go(t, [export[t] EXCEPT !.now = Summary, !.step = "job"])
    BY <1>1 DEF ReadSummary, Fails
  <2>2. LET e == [export[t] EXCEPT !.now = Summary, !.step = "job"]
        IN e \in ExportRow /\ e.now = Summary /\ e.step = "job" /\ e.first = export[t].first
    BY <1>0, SummaryType DEF ExportRow
  <2>3. ReadyRow([export[t] EXCEPT !.now = Summary, !.step = "job"], job)
    BY <1>0, <2>2, SummaryType DEF ReadyRow
  <2> QED
    BY <1>0, <1>1, <2>1, <2>2, <2>3, GoFacts, Constants DEF ReadSummary, IInv, LogIsOfLastAnalysis
<1>2. CASE ReadJob(t)
  <2> DEFINE step == IF IsShown(job.status) THEN "result" ELSE "done"
             e == [export[t] EXCEPT !.now.job = job.status, !.step = step]
  <2>1. Go(t, e)
    BY <1>2 DEF ReadJob
  <2>2. [export[t].now EXCEPT !.job = job.status] \in DetailRow
        /\ [export[t].now EXCEPT !.job = job.status].job = job.status
    BY <1>0 DEF DetailRow, JobRow
  <2>3. e = [export[t] EXCEPT !.now = [export[t].now EXCEPT !.job = job.status], !.step = step]
    BY <1>0 DEF ExportRow
  <2>4. e \in ExportRow /\ e.now.job = job.status /\ e.step = step /\ e.first = export[t].first
    BY <1>0, <2>2, <2>3 DEF ExportRow
  <2>5. ReadyRow(e, job)
    BY <1>0, <2>4 DEF ReadyRow, IsShown
  <2> QED
    BY <1>0, <1>2, <2>1, <2>4, <2>5, GoFacts DEF ReadJob, IInv, LogIsOfLastAnalysis
<1>3. CASE ReadResult(t)
  <2>1. CASE IsShown(job.status) /\ Readable
    <3> DEFINE now == [[export[t].now EXCEPT !.analysis = job.attempt] EXCEPT !.reviews = reviews[job.attempt]]
               e == [export[t] EXCEPT !.now.analysis = job.attempt, !.now.reviews = reviews[job.attempt],
                                      !.step = "done"]
    <3>1. Go(t, e)
      BY <1>3, <2>1 DEF ReadResult
    <3>2. reviews[job.attempt] \in Seq(ReviewLine)
      BY <2>1 DEF IInv, JobTyped, IsShown, ReviewsTyped
    <3>3. now \in DetailRow /\ now.analysis = job.attempt /\ now.job = export[t].now.job
      <4> DEFINE part == [export[t].now EXCEPT !.analysis = job.attempt]
      <4>1. job.attempt \in Int
        BY <1>0
      <4>2. part \in DetailRow
        BY <1>0, <4>1 DEF DetailRow
      <4>3. part.analysis = job.attempt /\ part.job = export[t].now.job
        BY <1>0 DEF DetailRow
      <4> HIDE DEF part
      <4>4. LET row == [part EXCEPT !.reviews = reviews[job.attempt]]
            IN  row \in DetailRow /\ row.analysis = part.analysis /\ row.job = part.job
        BY <3>2, <4>2 DEF DetailRow
      <4> QED
        BY <4>3, <4>4 DEF part
    <3>4. e = [export[t] EXCEPT !.now = now, !.step = "done"]
      BY <1>0 DEF ExportRow, DetailRow
    <3>5. e \in ExportRow /\ e.now = now /\ e.step = "done" /\ e.first = export[t].first
      BY <1>0, <3>3, <3>4 DEF ExportRow
    <3>6. ReadyRow(e, job)
      BY <1>0, <3>3, <3>5 DEF ReadyRow
    <3> QED
      BY <1>0, <1>3, <3>1, <3>5, <3>6, GoFacts DEF ReadResult, IInv, LogIsOfLastAnalysis
  <2>2. CASE ~(IsShown(job.status) /\ Readable)
    BY <1>0, <1>3, <2>2, GoFacts, Constants DEF ReadResult, Fails, IInv, LogIsOfLastAnalysis
  <2> QED
    BY <2>1, <2>2
<1>4. CASE Build(t)
  <2> DEFINE e == [export[t] EXCEPT !.phase = "check", !.step = "summary", !.first = export[t].now,
                                    !.now = NoDetail]
  <2>1. Go(t, e) /\ export[t].step = "done"
    BY <1>4 DEF Build, Done
  <2>2. e \in ExportRow /\ e.now = NoDetail /\ e.first = export[t].now
    BY <1>0, Constants DEF ExportRow
  <2>3. ReadyRow(e, job)
    BY <1>0, <2>1, <2>2 DEF ReadyRow, NoDetail
  <2> QED
    BY <1>0, <1>4, <2>1, <2>2, <2>3, GoFacts DEF Build, IInv, LogIsOfLastAnalysis
<1>5. Again(t) \in ExportRow /\ ReadyRow(Again(t), job)
  <2>1. LET e == [Fresh EXCEPT !.tries = export[t].tries + 1]
        IN e \in ExportRow /\ e.now = Fresh.now /\ e.first = Fresh.first /\ e.step = Fresh.step
    BY <1>0, Constants DEF ExportRow
  <2>2. ReadyRow([Fresh EXCEPT !.tries = export[t].tries + 1], job)
    BY <2>1, Constants DEF ReadyRow
  <2> QED
    BY <2>1, <2>2, Constants DEF Again
<1>6. CASE WriteIfCurrent(t)
  <2> DEFINE e == [export[t] EXCEPT !.phase = "verify", !.step = "summary", !.now = NoDetail]
  <2>1. Go(t, e) \/ Go(t, Again(t))
    BY <1>6 DEF WriteIfCurrent
  <2>2. e \in ExportRow /\ e.now = NoDetail /\ e.first = export[t].first
    BY <1>0, Constants DEF ExportRow
  <2>3. ReadyRow(e, job)
    BY <1>0, <2>2 DEF ReadyRow, NoDetail
  <2> QED
    BY <1>0, <1>5, <1>6, <2>1, <2>2, <2>3, GoFacts DEF WriteIfCurrent, IInv, LogIsOfLastAnalysis
<1>7. CASE Verify(t)
  <2> DEFINE e == [export[t] EXCEPT !.phase = "logs", !.step = "operation", !.now = NoDetail]
  <2>1. Go(t, e) \/ Go(t, Again(t))
    BY <1>7 DEF Verify
  <2>2. e \in ExportRow /\ e.now = NoDetail /\ e.first = export[t].first
    BY <1>0, Constants DEF ExportRow
  <2>3. ReadyRow(e, job)
    BY <1>0, <2>2 DEF ReadyRow, NoDetail
  <2> QED
    BY <1>0, <1>5, <1>7, <2>1, <2>2, <2>3, GoFacts DEF Verify, IInv, LogIsOfLastAnalysis
<1>8. CASE WriteOperationLog(t)
  <2> DEFINE e == [export[t] EXCEPT !.step = "analysis"]
  <2>1. Go(t, e) /\ logs' = [logs EXCEPT !.operation = TRUE]
    BY <1>8 DEF WriteOperationLog
  <2>2. e \in ExportRow /\ e.now = export[t].now /\ e.first = export[t].first /\ e.step = "analysis"
    BY <1>0 DEF ExportRow
  <2>3. ReadyRow(e, job)
    BY <1>0, <2>2 DEF ReadyRow
  <2>4. logs'.analysis = logs.analysis
    BY <2>1
  <2> QED
    BY <1>0, <2>1, <2>2, <2>3, <2>4, GoFacts DEF IInv, LogIsOfLastAnalysis
<1>9. CASE WriteAnalysisLog(t)
  <2>1. Go(t, NoExport) /\ logs' = [logs EXCEPT !.analysis = AnalysisLog(export[t].first)]
    BY <1>9 DEF WriteAnalysisLog
  <2>2. logs'.analysis \in {logs.analysis, AnalysisLog(export[t].first)}
    BY <2>1
  <2>3. AnalysisLog(export[t].first) # 0 =>
          job.status = "ready" /\ AnalysisLog(export[t].first) = job.attempt
    BY <1>0 DEF AnalysisLog, ReadyRow
  <2> QED
    BY <1>0, <2>1, <2>2, <2>3, GoFacts, Constants DEF IInv, LogIsOfLastAnalysis
<1> QED
  BY <1>1, <1>2, <1>3, <1>4, <1>6, <1>7, <1>8, <1>9 DEF ExportStep

-----------------------------------------------------------------------------
(* The reviews *)

\* The number of reviews of a dimension is a number.
LEMMA RevisionType ==
  ASSUME ReviewsTyped, NEW a \in Attempt, NEW d
  PROVE  /\ Revision(a, d) \in Nat
         /\ IsFiniteSet({i \in DOMAIN reviews[a] : reviews[a][i].dimension = d})
<1>1. DOMAIN reviews[a] = 1..Len(reviews[a]) /\ Len(reviews[a]) \in Nat
  BY DEF ReviewsTyped
<1>2. IsFiniteSet(1..Len(reviews[a]))
  BY <1>1, FS_Interval
<1>3. {i \in DOMAIN reviews[a] : reviews[a][i].dimension = d} \subseteq 1..Len(reviews[a])
  BY <1>1
<1>4. IsFiniteSet({i \in DOMAIN reviews[a] : reviews[a][i].dimension = d})
  BY <1>2, <1>3, FS_Subset
<1> QED
  BY <1>4, FS_CardinalityType DEF Revision

\* A line that follows the last one its author saw keeps the revisions of its
\* dimension continuous.
LEMMA AppendKeeps ==
  ASSUME IInv, AppendReview
  PROVE  ReviewsTyped' /\ ReviewsBuildOn'
<1> DEFINE a == handler.analysis
           old == reviews[a]
           n == Len(old)
<1>0. /\ reviews \in [Attempt -> Seq(ReviewLine)] /\ UNCHANGED <<tab, job>>
      /\ a \in Attempt /\ handler.dimension \in Dimension /\ handler.revision \in Nat
      /\ handler.shown \in Int /\ handler.shown <= a
      /\ handler'.pc = "idle"
  BY DEF IInv, ReviewsTyped, AppendReview, NoRequest
<1>1. CASE UNCHANGED reviews
  <2>1. ReviewsBuildOn'
    BY <1>1 DEF IInv, ReviewsBuildOn, SawTheOneBefore
  <2>2. tab' = tab /\ job' = job /\ handler'.pc # "append"
    BY <1>0
  <2>3. ReviewsTyped'
    BY <1>1, <2>2 DEF IInv, ReviewsTyped
  <2> QED
    BY <2>1, <2>3
<1>2. CASE ~UNCHANGED reviews
  <2>1. reviews' = [reviews EXCEPT ![a] = Append(@, Line)] /\ MayAppend
    BY <1>2 DEF AppendReview
  <2>2. Revision(a, handler.dimension) = handler.revision /\ handler.revision \in Nat
    BY <1>0, <2>1 DEF MayAppend
  <2>3. /\ Line \in ReviewLine /\ Line.dimension = handler.dimension
        /\ Line.revision = handler.revision + 1 /\ Line.seen = handler.revision
        /\ Line.shown = handler.shown
    BY <1>0, <2>2 DEF Line, ReviewLine
  <2>4. old \in Seq(ReviewLine) /\ n \in Nat /\ DOMAIN old = 1..n
    BY <1>0
  <2>5. /\ Append(old, Line) \in Seq(ReviewLine) /\ Append(old, Line)[n + 1] = Line
        /\ \A i \in 1..n : Append(old, Line)[i] = old[i]
        /\ DOMAIN Append(old, Line) = 1..n + 1
    BY <2>3, <2>4
  <2>6. /\ reviews' \in [Attempt -> Seq(ReviewLine)] /\ reviews'[a] = Append(old, Line)
        /\ \A b \in Attempt : b # a => reviews'[b] = reviews[b]
    BY <1>0, <2>1, <2>5
  <2>7. ReviewsTyped'
    BY <1>0, <2>6 DEF IInv, ReviewsTyped
  <2>8. ASSUME NEW i \in 1..n
        PROVE  /\ SawTheOneBefore(a, reviews'[a][i]) \/ reviews'[a][i].shown < a
               /\ reviews'[a][i].revision =
                    Cardinality({j \in 1..i : reviews'[a][j].dimension = reviews'[a][i].dimension})
    <3>1. /\ SawTheOneBefore(a, old[i]) \/ old[i].shown < a
          /\ old[i].revision = Cardinality({j \in 1..i : old[j].dimension = old[i].dimension})
      BY <1>0, <2>4 DEF IInv, ReviewsBuildOn
    <3>2. \A j \in 1..i : j \in 1..n
      BY <2>4
    <3>3. {j \in 1..i : reviews'[a][j].dimension = reviews'[a][i].dimension} =
          {j \in 1..i : old[j].dimension = old[i].dimension}
      BY <2>5, <2>6, <3>2
    <3> QED
      BY <2>5, <2>6, <3>1, <3>3
  <2>9. /\ SawTheOneBefore(a, reviews'[a][n + 1]) \/ reviews'[a][n + 1].shown < a
        /\ reviews'[a][n + 1].revision =
             Cardinality({j \in 1..n + 1 : reviews'[a][j].dimension = reviews'[a][n + 1].dimension})
    <3> DEFINE S == {i \in DOMAIN old : old[i].dimension = handler.dimension}
    <3>1. Cardinality(S) = handler.revision /\ IsFiniteSet(S)
      BY <1>0, <2>2, RevisionType DEF IInv, Revision
    <3>2. n + 1 \notin S
      BY <2>4
    <3>3. Cardinality(S \cup {n + 1}) = handler.revision + 1
      <4> HIDE DEF S
      <4>1. Cardinality(S \cup {n + 1}) = Cardinality(S) + 1
        BY <3>1, <3>2, FS_AddElement
      <4> QED
        BY <3>1, <4>1
    <3>4. {j \in 1..n + 1 : reviews'[a][j].dimension = handler.dimension} = S \cup {n + 1}
      <4>1. \A j \in 1..n : reviews'[a][j] = old[j]
        BY <2>5, <2>6
      <4>2. reviews'[a][n + 1].dimension = handler.dimension
        BY <2>3, <2>5, <2>6
      <4>3. 1..n + 1 = 1..n \cup {n + 1}
        BY <2>4
      <4> QED
        BY <2>4, <4>1, <4>2, <4>3
    <3>5. reviews'[a][n + 1] = Line
      BY <2>5, <2>6
    <3>6. SawTheOneBefore(a, Line) \/ Line.shown < a
      <4>1. Line.shown = a \/ Line.shown < a
        BY <1>0, <2>3 DEF Attempt
      <4>2. Line.seen = Line.revision - 1
        BY <2>2, <2>3
      <4> QED
        BY <4>1, <4>2 DEF SawTheOneBefore
    <3>7. Line.revision = Cardinality({j \in 1..n + 1 : reviews'[a][j].dimension = Line.dimension})
      BY <2>3, <3>3, <3>4
    <3> QED
      BY <3>5, <3>6, <3>7
  <2>10. ASSUME NEW b \in Attempt, NEW i \in DOMAIN reviews'[b]
         PROVE  /\ SawTheOneBefore(b, reviews'[b][i]) \/ reviews'[b][i].shown < b
                /\ reviews'[b][i].revision =
                     Cardinality({j \in 1..i : reviews'[b][j].dimension = reviews'[b][i].dimension})
    <3>1. CASE b = a
      <4>1. i \in 1..n \/ i = n + 1
        BY <2>4, <2>5, <2>6, <3>1
      <4> QED
        BY <2>8, <2>9, <3>1, <4>1
    <3>2. CASE b # a
      <4>1. reviews'[b] = reviews[b]
        BY <2>6, <3>2
      <4>2. i \in DOMAIN reviews[b]
        BY <4>1
      <4>3. /\ SawTheOneBefore(b, reviews[b][i]) \/ reviews[b][i].shown < b
            /\ reviews[b][i].revision =
                 Cardinality({j \in 1..i : reviews[b][j].dimension = reviews[b][i].dimension})
        BY <4>2 DEF IInv, ReviewsBuildOn
      <4> QED
        BY <4>1, <4>3
    <3> QED
      BY <3>1, <3>2
  <2> QED
    BY <2>7, <2>10 DEF ReviewsBuildOn, SawTheOneBefore
<1> QED
  BY <1>1, <1>2

\* The reviews build on each other as long as nobody appends one.
LEMMA BuildOnStays ==
  ASSUME IInv, UNCHANGED reviews
  PROVE  ReviewsBuildOn'
BY DEF IInv, ReviewsBuildOn, SawTheOneBefore

\* An action that does not touch the reviews, the tabs or a request that appends,
\* and takes back no attempt.
LEMMA ReviewsStay ==
  ASSUME IInv, UNCHANGED <<reviews, tab>>, handler' = handler \/ handler'.pc # "append",
         job'.attempt = job.attempt \/ (job'.attempt \in Int /\ job.attempt <= job'.attempt)
  PROVE  ReviewsTyped' /\ ReviewsBuildOn'
<1>0. \A t \in Tab : tab'[t].analysis <= job'.attempt
  <2> SUFFICES ASSUME NEW t \in Tab PROVE tab[t].analysis <= job'.attempt
    OBVIOUS
  <2>1. tab[t].analysis \in Int /\ tab[t].analysis <= job.attempt /\ job.attempt \in Int
    BY DEF IInv, ReviewsTyped, JobTyped, JobRow
  <2> QED
    BY <2>1
<1>1. ReviewsTyped'
  BY <1>0 DEF IInv, ReviewsTyped
<1>2. ReviewsBuildOn'
  BY BuildOnStays
<1> QED
  BY <1>1, <1>2

-----------------------------------------------------------------------------
(* The handlers, the worker and the end of the process *)

\* An export that starts, or is cut, says nothing of a ready job.
LEMMA StartFacts ==
  ASSUME IInv, NEW t \in Thread, Go(t, Fresh),
         job.status = "ready" => job'.status = "ready" /\ job'.attempt = job.attempt
  PROVE  ExportTyped' /\ ReadyIsOfJob' /\ (UNCHANGED logs => LogIsOfLastAnalysis')
<1>1. \A u \in Thread : export'[u] = IF u = t THEN Fresh ELSE export[u]
  BY DEF Go, IInv, ExportTyped
<1>2. ExportTyped'
  BY Constants DEF Go, IInv, ExportTyped
<1>3. \A u \in Thread : ReadyRow(export[u], job')
  BY DEF IInv, ReadyIsOfJob, ReadyRow
<1>4. ReadyIsOfJob'
  BY <1>1, <1>3, Constants DEF ReadyIsOfJob, ReadyRow
<1> QED
  BY <1>2, <1>4 DEF IInv, LogIsOfLastAnalysis

\* The main thread's actions keep the invariant.
LEMMA HandlersKeep ==
  ASSUME IInv, Handlers
  PROVE  IInv'
<1> USE DEF files
<1>0. /\ job \in JobRow /\ job.attempt \in 0..MaxAttempt
      /\ job.status # "none" => job.attempt \in Attempt
      /\ "main" \in Thread /\ NoRequest.pc = "idle" /\ 1 \in Attempt
  BY DEF IInv, JobTyped, JobRow, Thread, NoRequest, Attempt
<1>1. ASSUME NEW analyse \in BOOLEAN, Finalize(analyse)
      PROVE  IInv'
  <2>1. LET first == [NoJob EXCEPT !.status = "queued", !.attempt = 1]
        IN  first \in JobRow /\ first.attempt = 1 /\ first.status = "queued"
    <3>1. NoJob \in JobRow
      BY DEF NoJob, JobRow, JobStatus
    <3>2. 1 \in 0..MaxAttempt
      OBVIOUS
    <3> QED
      BY <3>1, <3>2 DEF JobRow, JobStatus
  <2>2. job' = job \/ (job.status = "none" /\ job' = [NoJob EXCEPT !.status = "queued", !.attempt = 1])
    BY <1>1 DEF Finalize
  <2>3. JobTyped'
    BY <1>0, <2>1, <2>2 DEF IInv, JobTyped
  <2>4. job.status = "ready" => job'.status = "ready" /\ job'.attempt = job.attempt
    BY <2>2
  <2>5. handler'.pc # "append"
    BY <1>1 DEF Finalize, NoRequest
  <2>6. job'.attempt = job.attempt \/ (job'.attempt \in Int /\ job.attempt <= job'.attempt)
    <3>1. job.status = "none" => job.attempt = 0
      BY DEF IInv, JobTyped
    <3>2. job'.attempt = job.attempt \/ (job.status = "none" /\ job'.attempt = 1)
      BY <2>1, <2>2
    <3> QED
      BY <3>1, <3>2
  <2>7. ReviewsTyped' /\ ReviewsBuildOn'
    BY <1>1, <2>5, <2>6, ReviewsStay DEF Finalize
  <2> QED
    BY <1>0, <1>1, <2>3, <2>4, <2>7, StartFacts DEF Finalize, IInv
<1>2. CASE Finalized
  <2>1. job' = job \/ (job.status = "queued" /\ job' = [job EXCEPT !.known = TRUE])
    BY <1>2 DEF Finalized
  <2>2. JobTyped'
    BY <1>0, <2>1 DEF IInv, JobTyped, JobRow
  <2>3. job.status = "ready" => job'.status = "ready" /\ job'.attempt = job.attempt
    BY <2>1
  <2>4. handler'.pc # "append"
    BY <1>0, <1>2 DEF Finalized
  <2> QED
    BY <1>2, <2>2, <2>3, <2>4, JobMoves, ReviewsStay DEF Finalized, IInv
<1>3. CASE Retry
  <2>1. job.attempt + 1 \in Attempt /\ job.attempt + 1 \in 0..MaxAttempt /\ job.status # "ready"
    BY <1>0, <1>3 DEF Retry, Attempt
  <2>2. job' = [status |-> "queued", attempt |-> job.attempt + 1, known |-> TRUE]
    BY <1>3 DEF Retry
  <2>3. JobTyped'
    BY <2>1, <2>2 DEF JobTyped, JobRow, JobStatus
  <2>4. job'.attempt \in Int /\ job.attempt <= job'.attempt
    BY <1>0, <2>2
  <2>5. ReviewsTyped' /\ ReviewsBuildOn'
    BY <1>3, <2>4, ReviewsStay DEF Retry
  <2> QED
    BY <1>3, <2>1, <2>3, <2>5, JobMoves DEF Retry, IInv
<1>4. ASSUME NEW t \in Tab, ShowAnalysis(t)
      PROVE  IInv'
  <2>1. job.attempt \in Attempt /\ job.attempt \in Int
    BY <1>0, <1>4 DEF ShowAnalysis, HasResult
  <2>2. [d \in Dimension |-> Revision(job.attempt, d)] \in [Dimension -> Nat]
    BY <2>1, RevisionType DEF IInv
  <2>3. tab' \in [Tab -> [analysis : Int, revision : [Dimension -> Nat]]]
    BY <1>4, <2>1, <2>2 DEF ShowAnalysis, IInv, ReviewsTyped
  <2>4. ReviewsTyped' /\ ReviewsBuildOn'
    <3>1. UNCHANGED <<reviews, handler, job>>
      BY <1>4 DEF ShowAnalysis
    <3>2. \A u \in Tab : tab'[u].analysis <= job.attempt
      BY <1>4, <2>1 DEF ShowAnalysis, IInv, ReviewsTyped
    <3>3. ReviewsTyped'
      BY <2>3, <3>1, <3>2 DEF IInv, ReviewsTyped
    <3> QED
      BY <3>1, <3>3, BuildOnStays
  <2> QED
    BY <1>4, <2>4, JobMoves DEF ShowAnalysis, IInv, JobTyped
<1>5. ASSUME NEW t \in Tab, NEW d \in Dimension, PatchReview(t, d)
      PROVE  IInv'
  <2>1. /\ tab[t].revision[d] \in Nat /\ job.attempt \in Attempt
        /\ tab[t].analysis \in Int /\ tab[t].analysis <= job.attempt
    BY <1>0, <1>5 DEF PatchReview, HasResult, IInv, ReviewsTyped
  <2>2. /\ handler'.analysis \in Attempt /\ handler'.dimension \in Dimension /\ handler'.revision \in Nat
        /\ handler'.shown \in Int /\ handler'.shown <= handler'.analysis
    BY <1>5, <2>1 DEF PatchReview
  <2>3. ReviewsTyped' /\ ReviewsBuildOn'
    <3>1. UNCHANGED <<reviews, tab, job>>
      BY <1>5 DEF PatchReview
    <3>2. ReviewsTyped'
      BY <2>2, <3>1 DEF IInv, ReviewsTyped
    <3> QED
      BY <3>1, <3>2, BuildOnStays
  <2> QED
    BY <1>5, <2>3, JobMoves DEF PatchReview, IInv, JobTyped
<1>6. CASE AppendReview
  <2>1. UNCHANGED <<job, logs>> /\ (Go("main", Fresh) \/ UNCHANGED export)
    BY <1>6 DEF AppendReview
  <2>2. ExportTyped' /\ ReadyIsOfJob' /\ LogIsOfLastAnalysis'
    BY <1>0, <2>1, StartFacts, JobMoves
  <2> QED
    BY <1>6, <2>1, <2>2, AppendKeeps DEF IInv, JobTyped
<1> QED
  BY <1>1, <1>2, <1>3, <1>4, <1>5, <1>6 DEF Handlers

\* So do the worker's, and the end of a process.
LEMMA WorkerKeeps ==
  ASSUME IInv, Worker \/ Restart
  PROVE  IInv'
<1> USE DEF files
<1>0. /\ job \in JobRow /\ job.attempt \in 0..MaxAttempt
      /\ job.status # "none" => job.attempt \in Attempt
      /\ "worker" \in Thread /\ NoRequest.pc = "idle"
  BY DEF IInv, JobTyped, JobRow, Thread, NoRequest
<1>1. ASSUME NEW status \in JobStatus, NEW known \in BOOLEAN, status # "none",
             job.status \in {"queued", "running"},
             \/ job' = [job EXCEPT !.status = status]
             \/ job' = [job EXCEPT !.status = status, !.known = known]
      PROVE  /\ JobTyped' /\ job'.attempt = job.attempt
             /\ job.status = "ready" => job'.status = "ready" /\ job'.attempt = job.attempt
  BY <1>0, <1>1 DEF JobTyped, JobRow
<1>2. CASE StartJob
  <2>1. /\ JobTyped' /\ job'.attempt = job.attempt
        /\ job.status = "ready" => job'.status = "ready" /\ job'.attempt = job.attempt
    BY <1>1, <1>2 DEF StartJob, JobStatus
  <2> QED
    BY <1>2, <2>1, JobMoves, ReviewsStay DEF StartJob, IInv
<1>3. ASSUME NEW status \in {"ready", "partial", "unconfigured"}, FinishJob(status)
      PROVE  IInv'
  <2>1. /\ JobTyped' /\ job'.attempt = job.attempt
        /\ job.status = "ready" => job'.status = "ready" /\ job'.attempt = job.attempt
    BY <1>1, <1>3 DEF FinishJob, JobStatus
  <2> QED
    BY <1>0, <1>3, <2>1, StartFacts, ReviewsStay DEF FinishJob, IInv
<1>4. CASE FailJob
  <2>1. /\ JobTyped' /\ job'.attempt = job.attempt
        /\ job.status = "ready" => job'.status = "ready" /\ job'.attempt = job.attempt
    BY <1>1, <1>4 DEF FailJob, JobStatus
  <2> QED
    BY <1>4, <2>1, JobMoves, ReviewsStay DEF FailJob, IInv
<1>5. CASE Restart
  <2>1. /\ JobTyped' /\ job'.attempt = job.attempt
        /\ job.status = "ready" => job'.status = "ready" /\ job'.attempt = job.attempt
    BY <1>0, <1>1, <1>5 DEF Restart, IInv, JobTyped, JobStatus
  <2>2. ExportTyped' /\ ReadyIsOfJob'
    BY <1>5, Constants DEF Restart, ExportTyped, ReadyIsOfJob, ReadyRow
  <2>3. LogIsOfLastAnalysis'
    BY <1>5, <2>1 DEF Restart, IInv, LogIsOfLastAnalysis
  <2> QED
    BY <1>0, <1>5, <2>1, <2>2, <2>3, ReviewsStay DEF Restart, IInv
<1> QED
  BY <1>2, <1>3, <1>4, <1>5 DEF Worker

\* Types, what is said of a ready job, the analysis log and the history of the
\* reviews hold in every reachable state.
THEOREM Invariant == Spec => []IInv
<1>1. Init => IInv
  <2> SUFFICES ASSUME Init PROVE IInv
    OBVIOUS
  <2>1. JobTyped
    BY DEF Init, NoJob, JobTyped, JobRow, JobStatus
  <2>2. ExportTyped /\ ReadyIsOfJob
    BY Constants DEF Init, ExportTyped, ReadyIsOfJob
  <2>3. ReviewsTyped
    BY DEF Init, ReviewsTyped, NoRequest, NoJob
  <2> QED
    BY <2>1, <2>2, <2>3 DEF Init, IInv, LogIsOfLastAnalysis, ReviewsBuildOn
<1>2. IInv /\ [Next]_vars => IInv'
  <2> SUFFICES ASSUME IInv, [Next]_vars PROVE IInv'
    OBVIOUS
  <2>1. CASE UNCHANGED vars
    BY <2>1, JobMoves, ReviewsStay DEF vars, IInv, JobTyped
  <2>2. CASE Handlers
    BY <2>2, HandlersKeep
  <2>3. CASE Worker \/ Restart
    BY <2>3, WorkerKeeps
  <2>4. ASSUME NEW t \in Thread, ExportStep(t)
        PROVE  IInv'
    <3>1. UNCHANGED <<job, reviews, tab, handler>>
      BY <2>4 DEF ExportStep, ReadSummary, ReadJob, ReadResult, Build, WriteIfCurrent, Verify,
                  WriteOperationLog, WriteAnalysisLog, files
    <3> QED
      BY <2>4, <3>1, ExportKeeps, ReviewsStay DEF IInv, JobTyped
  <2> QED
    BY <2>1, <2>2, <2>3, <2>4 DEF Next
<1> QED
  BY <1>1, <1>2, PTL DEF Spec

\* No review overwrites one its author has not seen, but from a tab left on an
\* attempt that was retried since: whatever tabs, retries and crashes come between,
\* the revisions of a dimension follow each other.
THEOREM ReviewsAlwaysBuildOn == Spec => []ReviewsBuildOn
<1>1. IInv => ReviewsBuildOn
  BY DEF IInv
<1> QED
  BY Invariant, <1>1, PTL

\* The analysis log, which two threads write and remove, is never of an attempt
\* that was retried.
THEOREM LogFollowsLastAnalysis == Spec => []LogIsOfLastAnalysis
<1>1. IInv => LogIsOfLastAnalysis
  BY DEF IInv
<1> QED
  BY Invariant, <1>1, PTL
-----------------------------------------------------------------------------
(* The training record *)

\* When the record has to show the session.
Due ==
  /\ session = "finalized" /\ job.status \in {"none", "ready", "partial", "unconfigured"}
  /\ job.attempt # 0 => Readable

\* What an export e has read so far of the session is what the session is now.
Fits(e) ==
  /\ e.step \in {"job", "result"} => e.now = Summary
  /\ e.step = "result" => IsShown(job.status)
  /\ e.step = "done" => e.now = Source

\* The record shows the session, and no export is about to write another.
Current == record = <<Source>> /\ \A t \in Thread : export[t].phase = "check" => Fits(export[t])

\* An export that will write the session as it is now.
Leads(t) ==
  /\ export[t].phase \in {"read", "check"} /\ Fits(export[t])
  /\ export[t].phase = "check" => export[t].first = Source

\* Whoever changes the session starts an export after the change; the attempts of
\* the other thread, failed or not, do not matter.
RecordFollows ==
  Due => Current \/ (\E t \in Thread : Leads(t)) \/ (interrupted /\ \A t \in Thread : ~Exporting(t))

\* One export at a time is between its check and its write, and the actions that
\* start an export find none of their thread under way.
Exclusion ==
  /\ \A t \in Thread : export[t].phase = "check" => lock = {t}
  /\ \A t \in Thread : export[t].phase \in {"read", "check", "verify"} =>
                         export[t].step \in {"summary", "job", "result", "done"}
  /\ handler.pc = "append" => ~Exporting("main")
  /\ job.status = "running" => ~Exporting("worker")

RecordInv == Exclusion /\ RecordFollows

\* The session as it is now: its summary, with the result and the reviews of a job
\* that shows them.
LEMMA SourceFacts ==
  ASSUME IInv
  PROVE  /\ ~IsShown(job.status) => Source = Summary
         /\ IsShown(job.status) =>
              Source = [[Summary EXCEPT !.analysis = job.attempt] EXCEPT !.reviews = reviews[job.attempt]]
<1>1. Summary \in DetailRow /\ Summary.analysis = 0 /\ Summary.reviews = <<>>
  BY SummaryType DEF Summary, NoDetail
<1>2. CASE ~IsShown(job.status)
  <2>1. Source = [[Summary EXCEPT !.analysis = 0] EXCEPT !.reviews = <<>>]
    BY <1>2 DEF Source
  <2> QED
    BY <1>1, <1>2, <2>1 DEF DetailRow
<1>3. CASE IsShown(job.status)
  BY <1>3 DEF Source
<1> QED
  BY <1>2, <1>3

\* What is read of a session is the same as long as its job and reviews are.
LEMMA SourceStays ==
  ASSUME UNCHANGED reviews, job'.status = job.status, job'.attempt = job.attempt
  PROVE  Source' = Source /\ Summary' = Summary
BY DEF Source, Summary

\* An export that moves on, in a session that stays, keeps the record following:
\* the one that leads goes on to lead or has written.
LEMMA Advance ==
  ASSUME IInv, RecordInv, NEW t \in Thread, NEW e, Go(t, e), Exporting(t),
         UNCHANGED <<session, job, reviews, torn, record, interrupted>>,
         e.phase = "check" => (Fits(export[t]) => Fits(e)) /\ (Fits(e) \/ export[t].phase = "check"),
         Due /\ Leads(t) => /\ e.phase \in {"read", "check"} /\ Fits(e)
                            /\ e.phase = "check" => e.first = Source
  PROVE  RecordFollows'
<1> SUFFICES ASSUME Due' PROVE Current' \/ (\E u \in Thread : Leads(u)')
  BY DEF RecordFollows
<1>1. /\ Source' = Source /\ Summary' = Summary /\ Due
      /\ export'[t] = e /\ \A u \in Thread : u # t => export'[u] = export[u]
  BY SourceStays DEF Due, Readable, Go, IInv, ExportTyped
<1>2. CASE Current
  BY <1>1, <1>2 DEF Current, Fits
<1>3. ASSUME NEW u \in Thread, Leads(u)
      PROVE  Leads(u)'
  <2>1. CASE u = t
    BY <1>1, <1>3, <2>1 DEF Leads, Fits
  <2>2. CASE u # t
    BY <1>1, <1>3, <2>2 DEF Leads, Fits
  <2> QED
    BY <2>1, <2>2
<1> QED
  BY <1>1, <1>2, <1>3 DEF RecordInv, RecordFollows
\* Every step of an export.
LEMMA ExportFollows ==
  ASSUME IInv, RecordInv, NEW t \in Thread, ExportStep(t)
  PROVE  RecordInv'
<1>0. /\ export[t] \in ExportRow /\ export[t].now \in DetailRow /\ export[t].first \in DetailRow
      /\ \A u \in Thread : export[u] \in ExportRow
      /\ UNCHANGED <<session, job, reviews, torn, handler>>
      /\ Exporting(t)
  BY DEF IInv, ExportTyped, ExportRow, ExportStep, ReadSummary, ReadJob, ReadResult, Build, WriteIfCurrent,
         Verify, WriteOperationLog, WriteAnalysisLog, files, Reads, Done, Exporting
<1>1. ASSUME NEW e, Go(t, e), e.phase \in {"read", "check", "verify"} => e.step \in {"summary", "job", "result", "done"},
             e.phase = "check" => lock' = {t},
             \A u \in Thread : u # t /\ export[u].phase = "check" => lock' = {u}
      PROVE  Exclusion'
  <2>1. export'[t] = e /\ \A u \in Thread : u # t => export'[u] = export[u]
    BY <1>1 DEF Go, IInv, ExportTyped
  <2> QED
    BY <1>0, <1>1, <2>1 DEF RecordInv, Exclusion, Exporting, Thread
<1>2. NoExport.phase = "idle" /\ Fresh.phase = "read" /\ Fresh.step = "summary"
      /\ Again(t).phase \in {"read", "idle"} /\ Again(t).step = "summary"
  <2>1. NoExport.phase = "idle" /\ NoExport.step = "summary"
    BY DEF NoExport
  <2>2. Fresh.phase = "read" /\ Fresh.step = "summary" /\ Fresh \in ExportRow
    BY <2>1, Constants DEF Fresh, NoExport, ExportRow
  <2>3. LET e == [Fresh EXCEPT !.tries = export[t].tries + 1] IN e.phase = "read" /\ e.step = "summary"
    BY <2>2 DEF ExportRow
  <2> QED
    BY <2>1, <2>2, <2>3 DEF Again
<1>3. CASE ReadSummary(t)
  <2> DEFINE e == [export[t] EXCEPT !.now = Summary, !.step = "job"]
  <2>1. CASE HasResult(job.status) /\ ~Readable
    <3>1. Go(t, NoExport) /\ lock' = lock \ {t} /\ UNCHANGED <<record, interrupted>>
      BY <1>3, <2>1 DEF ReadSummary, Fails
    <3>2. ~Due
      BY <2>1 DEF Due, HasResult, IInv, JobTyped, Attempt
    <3> QED
      BY <1>0, <1>1, <1>2, <3>1, <3>2, Advance DEF RecordInv, Exclusion
  <2>2. CASE ~(HasResult(job.status) /\ ~Readable)
    <3>1. Go(t, e) /\ UNCHANGED <<lock, record, interrupted>>
      BY <1>3, <2>2 DEF ReadSummary
    <3>2. e.now = Summary /\ e.step = "job" /\ e.phase = export[t].phase /\ e.first = export[t].first
      BY <1>0 DEF ExportRow
    <3>3. Fits(e)
      BY <3>2 DEF Fits
    <3> QED
      BY <1>0, <1>1, <3>1, <3>2, <3>3, Advance DEF RecordInv, Exclusion, Leads
  <2> QED
    BY <2>1, <2>2
<1>4. CASE ReadJob(t)
  <2> DEFINE step == IF IsShown(job.status) THEN "result" ELSE "done"
             now == [export[t].now EXCEPT !.job = job.status]
             e == [export[t] EXCEPT !.now.job = job.status, !.step = step]
  <2>1. Go(t, e) /\ UNCHANGED <<lock, record, interrupted>> /\ export[t].step = "job"
    BY <1>4 DEF ReadJob, Reads
  <2>2. e = [export[t] EXCEPT !.now = now, !.step = step]
    BY <1>0 DEF ExportRow
  <2>3. e.now = now /\ e.step = step /\ e.phase = export[t].phase /\ e.first = export[t].first
    BY <1>0, <2>2 DEF ExportRow
  <2>4. Fits(export[t]) => Fits(e)
    <3>1. SUFFICES ASSUME export[t].now = Summary PROVE Fits(e)
      BY <2>1 DEF Fits
    <3>2. now = Summary
      BY <1>0, <3>1, SummaryType DEF DetailRow
    <3> QED
      BY <2>3, <3>2, SourceFacts DEF Fits
  <2>5. e.step \in {"result", "done"}
    BY <2>3
  <2> HIDE DEF e
  <2> QED
    BY <1>0, <1>1, <2>1, <2>3, <2>4, <2>5, Advance DEF RecordInv, Exclusion, Leads
<1>5. CASE ReadResult(t)
  <2>1. CASE IsShown(job.status) /\ Readable
    <3> DEFINE now == [[export[t].now EXCEPT !.analysis = job.attempt] EXCEPT !.reviews = reviews[job.attempt]]
               e == [export[t] EXCEPT !.now.analysis = job.attempt, !.now.reviews = reviews[job.attempt],
                                      !.step = "done"]
    <3>1. Go(t, e) /\ UNCHANGED <<lock, record, interrupted>> /\ export[t].step = "result"
      BY <1>5, <2>1 DEF ReadResult, Reads
    <3>2. e = [export[t] EXCEPT !.now = now, !.step = "done"]
      BY <1>0 DEF ExportRow, DetailRow
    <3>3. e.now = now /\ e.step = "done" /\ e.phase = export[t].phase /\ e.first = export[t].first
      BY <1>0, <3>2 DEF ExportRow
    <3>4. Fits(export[t]) => Fits(e)
      BY <2>1, <3>1, <3>3, SourceFacts DEF Fits
    <3> QED
      BY <1>0, <1>1, <3>1, <3>3, <3>4, Advance DEF RecordInv, Exclusion, Leads
  <2>2. CASE ~(IsShown(job.status) /\ Readable)
    <3>1. Go(t, NoExport) /\ lock' = lock \ {t} /\ UNCHANGED <<record, interrupted>> /\ export[t].step = "result"
      BY <1>5, <2>2 DEF ReadResult, Fails, Reads
    <3>2. ~(Due /\ Fits(export[t]))
      BY <2>2, <3>1 DEF Due, Fits, IsShown, IInv, JobTyped, Attempt
    <3> QED
      BY <1>0, <1>1, <1>2, <3>1, <3>2, Advance DEF RecordInv, Exclusion, Leads
  <2> QED
    BY <2>1, <2>2
<1>6. CASE Build(t)
  <2> DEFINE e == [export[t] EXCEPT !.phase = "check", !.step = "summary", !.first = export[t].now,
                                    !.now = NoDetail]
  <2>1. /\ Go(t, e) /\ UNCHANGED <<record, interrupted>> /\ export[t].step = "done"
        /\ lock = {} /\ lock' = {t}
    BY <1>6 DEF Build, Done
  <2>2. e.phase = "check" /\ e.step = "summary" /\ e.first = export[t].now
    BY <1>0 DEF ExportRow
  <2>3. Fits(e) /\ (Leads(t) => e.first = Source)
    BY <2>1, <2>2 DEF Fits, Leads
  <2> QED
    BY <1>0, <1>1, <2>1, <2>2, <2>3, Advance DEF RecordInv, Exclusion
<1>7. CASE WriteIfCurrent(t)
  <2> DEFINE e == [export[t] EXCEPT !.phase = "verify", !.step = "summary", !.now = NoDetail]
  <2>0. /\ export[t].phase = "check" /\ export[t].step = "done" /\ lock = {t} /\ lock' = {}
        /\ UNCHANGED interrupted
        /\ \A u \in Thread : u # t => export[u].phase # "check"
    BY <1>7 DEF WriteIfCurrent, Done, RecordInv, Exclusion
  <2>1. e.phase = "verify" /\ e.step = "summary"
    BY <1>0 DEF ExportRow
  <2>2. CASE export[t].now # export[t].first
    <3>1. Go(t, Again(t)) /\ UNCHANGED record
      BY <1>7, <2>2 DEF WriteIfCurrent
    <3>2. ~Leads(t)
      BY <2>0, <2>2 DEF Leads, Fits
    <3> QED
      BY <1>0, <1>1, <1>2, <2>0, <3>1, <3>2, Advance DEF RecordInv
  <2>3. CASE export[t].now = export[t].first
    <3>1. Go(t, e) /\ record' = <<export[t].first>>
      BY <1>7, <2>3 DEF WriteIfCurrent
    <3>2. Exclusion'
      BY <1>1, <2>0, <2>1, <3>1
    <3>3. RecordFollows'
      <4> SUFFICES ASSUME Due' PROVE Current' \/ (\E u \in Thread : Leads(u)')
        BY DEF RecordFollows
      <4>1. /\ Source' = Source /\ Summary' = Summary /\ Due
            /\ export'[t] = e /\ \A u \in Thread : u # t => export'[u] = export[u]
        BY <1>0, <3>1, SourceStays DEF Due, Readable, Go, IInv, ExportTyped
      <4>2. \A u \in Thread : export'[u].phase # "check"
        BY <2>0, <2>1, <4>1
      <4>3. CASE Current \/ Leads(t)
        <5>1. export[t].now = Source
          BY <2>0, <4>3 DEF Current, Leads, Fits
        <5> QED
          BY <2>3, <3>1, <4>1, <4>2, <5>1 DEF Current
      <4>4. ASSUME NEW u \in Thread, u # t, Leads(u)
            PROVE  Leads(u)'
        BY <1>0, <4>1, <4>4 DEF Leads, Fits
      <4> QED
        BY <1>0, <4>1, <4>3, <4>4 DEF RecordInv, RecordFollows
    <3> QED
      BY <3>2, <3>3 DEF RecordInv
  <2> QED
    BY <2>2, <2>3
<1>8. CASE Verify(t)
  <2> DEFINE e == [export[t] EXCEPT !.phase = "logs", !.step = "operation", !.now = NoDetail]
  <2>1. /\ Go(t, e) \/ Go(t, Again(t))
        /\ UNCHANGED <<lock, record, interrupted>> /\ export[t].phase = "verify"
    BY <1>8 DEF Verify, Done
  <2>2. e.phase = "logs"
    BY <1>0 DEF ExportRow
  <2> QED
    BY <1>0, <1>1, <1>2, <2>1, <2>2, Advance DEF RecordInv, Exclusion, Leads
<1>9. CASE WriteOperationLog(t)
  <2> DEFINE e == [export[t] EXCEPT !.step = "analysis"]
  <2>1. Go(t, e) /\ UNCHANGED <<lock, record, interrupted>> /\ export[t].step = "operation"
    BY <1>9 DEF WriteOperationLog, Reads
  <2>2. export[t].phase \notin {"read", "check", "verify"} /\ e.phase = export[t].phase
    BY <1>0, <2>1 DEF ExportRow, RecordInv, Exclusion
  <2> QED
    BY <1>0, <1>1, <2>1, <2>2, Advance DEF RecordInv, Exclusion, Leads
<1>10. CASE WriteAnalysisLog(t)
  <2>1. Go(t, NoExport) /\ UNCHANGED <<lock, record>> /\ export[t].step = "analysis"
    BY <1>10 DEF WriteAnalysisLog, Reads
  <2>2. export[t].phase \notin {"read", "check", "verify"}
    BY <2>1 DEF RecordInv, Exclusion
  <2>3. Exclusion'
    BY <1>1, <1>2, <2>1 DEF RecordInv, Exclusion
  <2>4. RecordFollows'
    <3> SUFFICES ASSUME Due' PROVE Current' \/ (\E u \in Thread : Leads(u)')
      BY DEF RecordFollows
    <3>1. /\ Source' = Source /\ Summary' = Summary /\ Due
          /\ export'[t] = NoExport /\ \A u \in Thread : u # t => export'[u] = export[u]
      BY <1>0, <2>1, SourceStays DEF Due, Readable, Go, IInv, ExportTyped
    <3> QED
      BY <1>0, <1>2, <2>1, <2>2, <3>1 DEF RecordInv, RecordFollows, Current, Leads, Fits
  <2> QED
    BY <2>3, <2>4 DEF RecordInv
<1> QED
  BY <1>3, <1>4, <1>5, <1>6, <1>7, <1>8, <1>9, <1>10 DEF ExportStep
\* An export that starts leads.
LEMMA StartFollows ==
  ASSUME IInv, NEW t \in Thread, Go(t, Fresh)
  PROVE  RecordFollows' /\ export'[t] = Fresh /\ \A u \in Thread : u # t => export'[u] = export[u]
<1>1. export'[t] = Fresh /\ \A u \in Thread : u # t => export'[u] = export[u]
  BY DEF Go, IInv, ExportTyped
<1>2. Fresh.phase = "read" /\ Fresh.step = "summary"
  <2>1. NoExport \in ExportRow /\ NoExport.step = "summary"
    BY Constants DEF NoExport
  <2> QED
    BY <2>1 DEF Fresh, ExportRow
<1> QED
  BY <1>1, <1>2 DEF RecordFollows, Leads, Fits

\* The exports go on as they did when nothing changes that they read, or when
\* the record has not to show the session.
LEMMA QuietFollows ==
  ASSUME IInv, RecordInv, UNCHANGED <<export, record, interrupted>>,
         Due' => Due /\ UNCHANGED reviews /\ job'.status = job.status /\ job'.attempt = job.attempt
  PROVE  RecordFollows'
<1> SUFFICES ASSUME Due' PROVE RecordFollows'
  BY DEF RecordFollows
<1>1. Source' = Source /\ Summary' = Summary /\ Due /\ job'.status = job.status
  BY SourceStays
<1> QED
  BY <1>1 DEF RecordInv, RecordFollows, Current, Leads, Fits, Exporting

\* What keeps the exports apart when an export starts, or none does.
LEMMA ApartWhenStarting ==
  ASSUME IInv, RecordInv, NEW t \in Thread, Go(t, Fresh), ~Exporting(t), UNCHANGED lock,
         handler'.pc = "append" => t # "main" /\ handler.pc = "append",
         job'.status = "running" => t # "worker" /\ job.status = "running"
  PROVE  Exclusion'
<1>1. export'[t] = Fresh /\ \A u \in Thread : u # t => export'[u] = export[u]
  BY StartFollows
<1>2. Fresh.phase = "read" /\ Fresh.step = "summary"
  <2>1. NoExport \in ExportRow /\ NoExport.step = "summary"
    BY Constants DEF NoExport
  <2> QED
    BY <2>1 DEF Fresh, ExportRow
<1> QED
  BY <1>1, <1>2 DEF RecordInv, Exclusion, Exporting, Thread

\* No thread begins to export, so the exports stay apart.
LEMMA ApartWhenQuiet ==
  ASSUME RecordInv, UNCHANGED <<export, lock>>,
         handler'.pc = "append" => handler.pc = "append" \/ ~Exporting("main"),
         job'.status = "running" => job.status = "running" \/ ~Exporting("worker")
  PROVE  Exclusion'
BY DEF RecordInv, Exclusion, Exporting

\* The main thread's requests.
LEMMA HandlersFollow ==
  ASSUME IInv, RecordInv, Handlers
  PROVE  RecordInv'
<1> USE DEF files
<1>0. /\ "main" \in Thread /\ "main" # "worker" /\ NoRequest.pc = "idle" /\ job \in JobRow
  BY DEF Thread, NoRequest, IInv, JobTyped
<1>1. ASSUME NEW analyse \in BOOLEAN, Finalize(analyse)
      PROVE  RecordInv'
  <2>1. /\ Go("main", Fresh) /\ ~Exporting("main") /\ UNCHANGED lock /\ handler'.pc = "finalize"
    BY <1>1 DEF Finalize, Free, NoRequest
  <2>2. job'.status = "running" => job.status = "running"
    <3>1. NoJob.status = "none" /\ NoJob \in JobRow
      BY DEF NoJob, JobRow, JobStatus
    <3>2. [NoJob EXCEPT !.status = "queued", !.attempt = 1].status = "queued"
      BY DEF NoJob
    <3> QED
      BY <1>1, <3>2 DEF Finalize
  <2> QED
    BY <1>0, <2>1, <2>2, StartFollows, ApartWhenStarting DEF RecordInv
<1>2. CASE Finalized
  <2>1. job'.status = job.status /\ job'.attempt = job.attempt
    BY <1>0, <1>2 DEF Finalized, JobRow
  <2>2. handler'.pc = "idle" /\ UNCHANGED <<session, reviews, torn, export, record, lock, interrupted>>
    BY <1>0, <1>2 DEF Finalized
  <2>3. Due' => Due
    BY <2>1, <2>2 DEF Due, Readable
  <2> QED
    BY <2>1, <2>2, <2>3, QuietFollows, ApartWhenQuiet DEF RecordInv
<1>3. CASE Retry
  <2>1. job'.status = "queued" /\ UNCHANGED <<handler, export, record, lock, interrupted>>
    BY <1>3 DEF Retry
  <2>2. ~Due'
    BY <2>1 DEF Due
  <2> QED
    BY <2>1, <2>2, QuietFollows, ApartWhenQuiet DEF RecordInv
<1>4. ASSUME NEW t \in Tab, ShowAnalysis(t)
      PROVE  RecordInv'
  <2>1. UNCHANGED <<session, job, reviews, torn, handler, export, record, lock, interrupted>>
    BY <1>4 DEF ShowAnalysis
  <2>2. Due' => Due
    BY <2>1 DEF Due, Readable
  <2> QED
    BY <2>1, <2>2, QuietFollows, ApartWhenQuiet DEF RecordInv
<1>5. ASSUME NEW t \in Tab, NEW d \in Dimension, PatchReview(t, d)
      PROVE  RecordInv'
  <2>1. UNCHANGED <<session, job, reviews, torn, export, record, lock, interrupted>> /\ ~Exporting("main")
    BY <1>5 DEF PatchReview, Free
  <2>2. Due' => Due
    BY <2>1 DEF Due, Readable
  <2> QED
    BY <2>1, <2>2, QuietFollows, ApartWhenQuiet DEF RecordInv
<1>6. CASE AppendReview
  <2>1. /\ UNCHANGED <<session, job, torn, record, lock, interrupted>> /\ handler'.pc = "idle"
        /\ ~Exporting("main")
    BY <1>0, <1>6 DEF AppendReview, RecordInv, Exclusion
  <2>2. CASE Go("main", Fresh)
    BY <1>0, <2>1, <2>2, StartFollows, ApartWhenStarting DEF RecordInv, Exclusion
  <2>3. CASE UNCHANGED <<reviews, export>>
    <3>1. Due' => Due
      BY <2>1, <2>3 DEF Due, Readable
    <3> QED
      BY <2>1, <2>3, <3>1, QuietFollows, ApartWhenQuiet DEF RecordInv
  <2> QED
    BY <1>6, <2>2, <2>3 DEF AppendReview
<1> QED
  BY <1>1, <1>2, <1>3, <1>4, <1>5, <1>6 DEF Handlers

\* The worker, and the end of the process: what it cuts off is noted.
LEMMA WorkerFollows ==
  ASSUME IInv, RecordInv, Worker \/ Restart
  PROVE  RecordInv'
<1> USE DEF files
<1>0. "worker" \in Thread /\ "main" # "worker" /\ NoRequest.pc = "idle" /\ job \in JobRow
      /\ NoExport.phase = "idle" /\ NoExport.step = "summary"
  BY DEF Thread, NoRequest, IInv, JobTyped, NoExport
<1>1. CASE StartJob
  <2>1. /\ job'.status = "running" /\ ~Exporting("worker")
        /\ UNCHANGED <<handler, export, record, lock, interrupted>>
    BY <1>0, <1>1 DEF StartJob, JobRow
  <2>2. ~Due'
    BY <2>1 DEF Due
  <2> QED
    BY <2>1, <2>2, QuietFollows, ApartWhenQuiet DEF RecordInv
<1>2. ASSUME NEW status \in {"ready", "partial", "unconfigured"}, FinishJob(status)
      PROVE  RecordInv'
  <2>1. /\ Go("worker", Fresh) /\ UNCHANGED <<handler, lock>> /\ job'.status = status
        /\ ~Exporting("worker")
    BY <1>0, <1>2 DEF FinishJob, JobRow, RecordInv, Exclusion
  <2> QED
    BY <1>0, <2>1, StartFollows, ApartWhenStarting DEF RecordInv
<1>3. CASE FailJob
  <2>1. job'.status = "error" /\ UNCHANGED <<handler, export, record, lock, interrupted>>
    BY <1>0, <1>3 DEF FailJob, JobRow
  <2>2. ~Due'
    BY <2>1 DEF Due
  <2> QED
    BY <2>1, <2>2, QuietFollows, ApartWhenQuiet DEF RecordInv
<1>4. CASE Restart
  <2>1. /\ \A t \in Thread : export'[t] = NoExport
        /\ UNCHANGED <<session, reviews, record>> /\ handler'.pc = "idle"
        /\ torn \subseteq torn'
        /\ interrupted' = (interrupted \/ \E t \in Thread : Exporting(t))
    BY <1>0, <1>4 DEF Restart
  <2>2. job'.status # "running"
        /\ (job'.status # "queued" => job' = job)
    BY <1>0, <1>4 DEF Restart, JobRow
  <2>3. Exclusion'
    BY <1>0, <2>1, <2>2 DEF Exclusion, Exporting
  <2>4. RecordFollows'
    <3> SUFFICES ASSUME Due' PROVE Current' \/ (interrupted' /\ \A t \in Thread : ~Exporting(t)')
      BY DEF RecordFollows
    <3>1. job' = job /\ Due
      BY <2>1, <2>2 DEF Due, Readable
    <3>2. Source' = Source
      BY <2>1, <3>1, SourceStays
    <3>3. CASE Current
      BY <1>0, <2>1, <3>2, <3>3 DEF Current
    <3>4. CASE \E t \in Thread : Leads(t)
      BY <1>0, <2>1, <3>4 DEF Leads, Exporting
    <3>5. CASE interrupted
      BY <1>0, <2>1, <3>5 DEF Exporting
    <3> QED
      BY <3>1, <3>3, <3>4, <3>5 DEF RecordInv, RecordFollows
  <2> QED
    BY <2>3, <2>4 DEF RecordInv
<1> QED
  BY <1>1, <1>2, <1>3, <1>4 DEF Worker

\* Two threads read the session without a lock that covers it, try again three
\* times and give up: the training record shows the session as it is when they
\* have ended, for any number of reviews, retries and crashes.
THEOREM RecordAlwaysCurrent == Spec => []RecordIsCurrent
<1>1. Init => RecordInv
  BY DEF Init, RecordInv, Exclusion, RecordFollows, Due, NoExport, NoRequest, NoJob
<1>2. IInv /\ RecordInv /\ [Next]_vars => RecordInv'
  <2> SUFFICES ASSUME IInv, RecordInv, [Next]_vars PROVE RecordInv'
    OBVIOUS
  <2>1. CASE UNCHANGED vars
    <3>1. Due' => Due
      BY <2>1 DEF vars, Due, Readable
    <3> QED
      BY <2>1, <3>1, QuietFollows, ApartWhenQuiet DEF vars, RecordInv
  <2>2. CASE Handlers
    BY <2>2, HandlersFollow
  <2>3. CASE Worker \/ Restart
    BY <2>3, WorkerFollows
  <2>4. ASSUME NEW t \in Thread, ExportStep(t)
        PROVE  RecordInv'
    BY <2>4, ExportFollows
  <2> QED
    BY <2>1, <2>2, <2>3, <2>4 DEF Next
<1>3. IInv /\ RecordInv => RecordIsCurrent
  <2> SUFFICES ASSUME IInv, RecordInv, Settled, job.status # "error", ~interrupted, job.attempt # 0 => Readable
               PROVE  record = <<Source>>
    BY DEF RecordIsCurrent
  <2>1. Due /\ \A t \in Thread : export[t].phase = "idle"
    BY DEF Settled, Due, Exporting, IInv, JobTyped, JobRow, JobStatus
  <2> QED
    BY <2>1 DEF RecordInv, RecordFollows, Leads, Current
<1> QED
  BY Invariant, <1>1, <1>2, <1>3, PTL DEF Spec

-----------------------------------------------------------------------------
(* The profiles: what their rows are *)

HIDE BoundsAssumption

PayloadRow == [text : Nat, confirmed : BOOLEAN]
DraftRow == [revision : Nat, payload : PayloadRow]
SaveRow == [pc : {"idle", "sent", "saved", "refused", "lost"}, profile : Nat, revision : Nat,
            payload : PayloadRow]
AnswerRow == [version : Nat, payload : PayloadRow]
EditorRow ==
  [text : Nat, complete : BOOLEAN, confirmed : BOOLEAN, confirming : Int,
   dirty : BOOLEAN, ready : BOOLEAN, timer : BOOLEAN, failed : BOOLEAN,
   conflicted : BOOLEAN, disposed : BOOLEAN, profile : Nat, revision : Nat,
   save : SaveRow, publishing : {"no", "flush", "sent", "published", "refused"},
   clicked : Nat, answer : AnswerRow, shown : AnswerRow]

\* The types.
Types ==
  /\ drafts \in Seq(DraftRow) /\ versions \in Seq(Seq(PayloadRow))
  /\ Len(drafts) = Len(versions)
  /\ editor \in [Editor -> EditorRow]

\* The editor r knows profiles of the drafts d only; its request is of the
\* profile and revision it knows, and of its text unless that is marked dirty.
Requests(r, d) ==
  /\ r.profile \in 0..Len(d) /\ r.save.profile \in 0..Len(d)
  /\ r.save.pc = "idle" => r.save = NoSave
  /\ r.conflicted => r.save.pc = "idle"
  /\ r.save.pc = "sent" => r.save.profile = r.profile /\ r.save.revision = r.revision
  /\ r.save.pc # "idle" /\ r.profile # 0 => r.save.profile = r.profile
  /\ r.save.pc # "idle" /\ ~r.dirty => r.save.payload = Payload(r)

\* A save that succeeded, and an editor at rest, are what the drafts say.
Saved(r, d) ==
  /\ r.save.pc = "saved" =>
       /\ r.save.profile # 0
       /\ d[r.save.profile] = [revision |-> r.save.revision, payload |-> r.save.payload]
  /\ r.save.pc = "idle" /\ ~r.dirty /\ ~r.conflicted /\ ~r.disposed /\ r.text # 0 =>
       /\ r.profile # 0
       /\ d[r.profile] = [revision |-> r.revision, payload |-> Payload(r)]

\* While a publication is under way, no draft that is or will be stored is older
\* than what the button was pressed for.
Clicked(r, d) ==
  /\ r.publishing # "no" => r.clicked <= r.text
  /\ r.publishing = "flush" => ~r.disposed
  /\ r.publishing = "sent" =>
       /\ r.profile # 0 /\ r.clicked <= d[r.profile].payload.text
       /\ r.save.pc = "sent" => r.clicked <= r.save.payload.text

Local(r, d) == Requests(r, d) /\ Saved(r, d) /\ Clicked(r, d)

Locals == \A e \in Editor : Local(editor[e], drafts)

\* Two editors have no profile in common.
Owned ==
  \A e, f \in Editor : e # f =>
    \A p \in {editor[e].profile, editor[e].save.profile} \ {0} :
      p # editor[f].profile /\ p # editor[f].save.profile

\* The answer a of a publication of profile p, asked for when the text was c.
Good(p, a, c) ==
  /\ p # 0 /\ Served(p, a.version) /\ versions[p][a.version] = a.payload
  /\ a.payload.confirmed /\ a.payload.text >= c

AnswersOf(e) ==
  /\ editor[e].publishing = "published" => Good(editor[e].profile, editor[e].answer, editor[e].clicked)
  /\ editor[e].shown # NoVersion => Good(editor[e].profile, editor[e].shown, editor[e].clicked)

Answers == \A e \in Editor : AnswersOf(e)

\* The lines of the audit file are of versions that have a file.
LinesHaveFiles ==
  \A p, v : Projected(p, v) /\ <<p, v>> # Torn => p \in DOMAIN versions /\ v \in DOMAIN versions[p]

\* The invariant behind every theorem below.
ProfileInv == Types /\ Locals /\ Owned /\ Answers /\ LinesHaveFiles

-----------------------------------------------------------------------------
(* What the editor does to its own row *)

\* What a turn of the drain and the end of a flush leave alone.
Frame(r, q) ==
  /\ q \in EditorRow
  /\ q.text = r.text /\ q.confirmed = r.confirmed /\ q.disposed = r.disposed
  /\ q.profile = r.profile /\ q.clicked = r.clicked /\ q.answer = r.answer /\ q.shown = r.shown
  /\ q.publishing = r.publishing \/ (r.publishing = "flush" /\ q.publishing \in {"no", "sent"})
  /\ q.save.profile \in {r.save.profile, r.profile, 0}

\* A turn of drainLoop.
LEMMA DrainKeeps ==
  ASSUME NEW r \in EditorRow, NEW d \in Seq(DraftRow), Local(r, d), r.save.pc = "idle"
  PROVE  Local(Drain(r), d) /\ Frame(r, Drain(r))
<1>1. CASE ~r.dirty \/ ~r.ready \/ r.conflicted
  BY <1>1 DEF Drain, Frame
<1>2. CASE r.dirty /\ r.ready /\ ~r.conflicted /\ ~r.complete
  <2>1. Drain(r) = [r EXCEPT !.ready = FALSE, !.failed = TRUE]
    BY <1>2 DEF Drain
  <2>2. Drain(r) \in EditorRow
    BY <2>1 DEF EditorRow
  <2>3. Frame(r, Drain(r))
    BY <2>1, <2>2 DEF Frame, EditorRow
  <2>4. Requests(Drain(r), d)
    BY <2>1 DEF EditorRow, Local, Requests, Payload
  <2>5. Saved(Drain(r), d)
    BY <2>1 DEF EditorRow, Local, Saved, Payload
  <2>6. Clicked(Drain(r), d)
    BY <2>1 DEF EditorRow, Local, Clicked
  <2> QED
    BY <2>3, <2>4, <2>5, <2>6 DEF Local
<1>3. CASE r.dirty /\ r.ready /\ ~r.conflicted /\ r.complete
  <2> DEFINE save == [pc |-> "sent", profile |-> r.profile, revision |-> r.revision, payload |-> Payload(r)]
  <2>1. Drain(r) = [r EXCEPT !.dirty = FALSE, !.ready = FALSE, !.failed = FALSE, !.save = save]
    BY <1>3 DEF Drain
  <2>2. Payload(r) \in PayloadRow /\ Payload(r).text = r.text
    BY DEF Payload, PayloadRow, EditorRow
  <2>3. save \in SaveRow
    BY <2>2 DEF SaveRow, EditorRow
  <2>4. Drain(r) \in EditorRow
    BY <2>1, <2>3 DEF EditorRow
  <2>5. Payload(Drain(r)) = Payload(r)
    BY <2>1 DEF EditorRow, Payload
  <2>6. Frame(r, Drain(r))
    BY <2>1, <2>4 DEF Frame, EditorRow
  <2>7. Requests(Drain(r), d)
    BY <1>3, <2>1, <2>5 DEF EditorRow, Local, Requests
  <2>8. Saved(Drain(r), d)
    BY <2>1 DEF EditorRow, Saved
  <2>9. Clicked(Drain(r), d)
    BY <2>1, <2>2 DEF EditorRow, Local, Clicked
  <2> QED
    BY <2>6, <2>7, <2>8, <2>9 DEF Local
<1> QED
  BY <1>1, <1>2, <1>3 DEF EditorRow

\* A drain that is joined, or begins.
LEMMA EnsureDrainKeeps ==
  ASSUME NEW r \in EditorRow, NEW d \in Seq(DraftRow), Local(r, d)
  PROVE  Local(EnsureDrain(r), d) /\ Frame(r, EnsureDrain(r))
<1>1. CASE r.save.pc = "idle"
  BY <1>1, DrainKeeps DEF EnsureDrain
<1>2. CASE r.save.pc # "idle"
  BY <1>2 DEF EnsureDrain, Frame
<1> QED
  BY <1>1, <1>2

\* publishOnce, when the drain it waits for has ended.
LEMMA GoOnKeeps ==
  ASSUME NEW r \in EditorRow, NEW d \in Seq(DraftRow), Local(r, d)
  PROVE  Local(GoOn(r), d) /\ Frame(r, GoOn(r))
<1>1. CASE r.publishing # "flush" \/ r.save.pc # "idle"
  BY <1>1 DEF GoOn, Frame
<1>2. CASE r.publishing = "flush" /\ r.save.pc = "idle"
  <2>1. PICK next \in {"sent", "no"} : GoOn(r) = [r EXCEPT !.publishing = next] /\ (next = "sent" => Flushed(r))
    BY <1>2 DEF GoOn
  <2>2. GoOn(r) \in EditorRow
    BY <2>1 DEF EditorRow
  <2>3. Frame(r, GoOn(r))
    BY <1>2, <2>1, <2>2 DEF Frame, EditorRow
  <2>4. Requests(GoOn(r), d)
    BY <2>1 DEF EditorRow, Local, Requests, Payload
  <2>5. Saved(GoOn(r), d)
    BY <2>1 DEF EditorRow, Local, Saved, Payload
  <2>6. next = "sent" => r.profile # 0 /\ r.clicked <= d[r.profile].payload.text
    <3>1. SUFFICES ASSUME next = "sent" PROVE r.profile # 0 /\ r.clicked <= d[r.profile].payload.text
      OBVIOUS
    <3>2. r.profile \in DOMAIN d /\ ~r.dirty /\ ~r.conflicted /\ ~r.disposed
      <4>1. r.profile # 0 /\ ~r.dirty /\ ~r.conflicted /\ ~r.disposed /\ r.profile \in 0..Len(d)
        BY <1>2, <2>1, <3>1 DEF Flushed, Local, Requests, Clicked
      <4>2. Len(d) \in Nat /\ DOMAIN d = 1..Len(d)
        OBVIOUS
      <4> QED
        BY <4>1, <4>2
    <3>3. d[r.profile].payload.text \in Nat
      <4>1. d[r.profile] \in DraftRow
        BY <3>2
      <4> QED
        BY <4>1 DEF DraftRow, PayloadRow
    <3>4. r.clicked \in Nat /\ r.text \in Nat /\ r.clicked <= r.text
      BY <1>2 DEF Local, Clicked, EditorRow
    <3>5. r.text # 0 => d[r.profile].payload.text = r.text
      BY <1>2, <3>2 DEF Local, Saved, Payload
    <3> QED
      BY <3>2, <3>3, <3>4, <3>5
  <2>7. Clicked(GoOn(r), d)
    BY <1>2, <2>1, <2>6 DEF EditorRow, Local, Clicked
  <2> QED
    BY <2>3, <2>4, <2>5, <2>7 DEF Local
<1> QED
  BY <1>1, <1>2

-----------------------------------------------------------------------------
(* One editor's step *)

\* The step of e in the store: it may write the draft of e, add one, add a
\* version and its line; nothing of the others changes.
StoreStep(e) ==
  /\ drafts' \in Seq(DraftRow) /\ versions' \in Seq(Seq(PayloadRow))
  /\ Len(drafts') = Len(versions') /\ Len(drafts) <= Len(drafts')
  /\ \A p \in DOMAIN drafts : drafts'[p] = drafts[p] \/ p \in {editor[e].profile, editor[e].save.profile}
  /\ \A p \in DOMAIN versions : \A v \in DOMAIN versions[p] :
       v \in DOMAIN versions'[p] /\ versions'[p][v] = versions[p][v]
  /\ \A p \in DOMAIN versions : \A v \in DOMAIN versions[p] : Projected(p, v) => Projected(p, v)'
  /\ LinesHaveFiles'

\* The row of e after its step.
RowStep(e) ==
  /\ editor' = [editor EXCEPT ![e] = editor'[e]]
  /\ editor'[e] \in EditorRow /\ Local(editor'[e], drafts')
  /\ \A p \in {editor'[e].profile, editor'[e].save.profile} :
       p \in {0, editor[e].profile, editor[e].save.profile} \/ p \notin DOMAIN drafts

\* What was answered stays so.
LEMMA GoodStays ==
  ASSUME Types, NEW e \in Editor, StoreStep(e), NEW p \in 0..Len(drafts), NEW a, NEW c, Good(p, a, c)
  PROVE  Good(p, a, c)'
<1>1. p \in DOMAIN versions /\ a.version \in DOMAIN versions[p] /\ Projected(p, a.version)
  BY DEF Types, Good, Served
<1>2. /\ a.version \in DOMAIN versions'[p] /\ versions'[p][a.version] = versions[p][a.version]
      /\ Projected(p, a.version)'
  BY <1>1 DEF StoreStep
<1> QED
  BY <1>2 DEF Good, Served

\* A draft that is neither written nor new says the same of an editor.
LEMMA LocalStays ==
  ASSUME NEW r \in EditorRow, NEW d \in Seq(DraftRow), NEW c \in Seq(DraftRow), Local(r, d),
         Len(d) <= Len(c),
         \A p \in DOMAIN d : p \in {r.profile, r.save.profile} => c[p] = d[p]
  PROVE  Local(r, c)
<1>1. /\ Len(d) \in Nat /\ Len(c) \in Nat /\ DOMAIN d = 1..Len(d)
      /\ r.profile \in Nat /\ r.save.profile \in Nat
  BY DEF EditorRow, SaveRow
<1>2. r.profile \in 0..Len(d) /\ r.save.profile \in 0..Len(d)
  BY DEF Local, Requests
<1>3. /\ r.profile # 0 => c[r.profile] = d[r.profile]
      /\ r.save.profile # 0 => c[r.save.profile] = d[r.save.profile]
  BY <1>1, <1>2
<1>4. Requests(r, c)
  BY <1>1, <1>2 DEF Local, Requests
<1> QED
  BY <1>3, <1>4 DEF Local, Saved, Clicked

\* A step of e in the store and in its own row, whose answers are good, keeps
\* the invariant.
LEMMA StepKeeps ==
  ASSUME ProfileInv, NEW e \in Editor, StoreStep(e), RowStep(e), AnswersOf(e)'
  PROVE  ProfileInv'
<1>1. \A f \in Editor : f # e => editor'[f] = editor[f]
  BY DEF ProfileInv, Types, RowStep
<1>2. Types'
  BY DEF ProfileInv, Types, RowStep, StoreStep
<1>3. \A f \in Editor : /\ editor[f] \in EditorRow /\ Local(editor[f], drafts)
                        /\ editor[f].profile \in 0..Len(drafts)
                        /\ editor[f].save.profile \in 0..Len(drafts)
  BY DEF ProfileInv, Types, Locals, Local, Requests
<1>4. Len(drafts) \in Nat /\ DOMAIN drafts = 1..Len(drafts) /\ drafts \in Seq(DraftRow)
  BY DEF ProfileInv, Types
<1>5. Locals'
  <2> SUFFICES ASSUME NEW f \in Editor, f # e
               PROVE  Local(editor[f], drafts')
    BY <1>1 DEF Locals, RowStep
  <2>1. \A p \in DOMAIN drafts : p \in {editor[f].profile, editor[f].save.profile} => drafts'[p] = drafts[p]
    <3> SUFFICES ASSUME NEW p \in DOMAIN drafts, p \in {editor[f].profile, editor[f].save.profile}
                 PROVE  p \notin {editor[e].profile, editor[e].save.profile}
      BY DEF StoreStep
    <3>1. p # 0
      BY <1>4
    <3> QED
      BY <3>1 DEF ProfileInv, Owned
  <2> QED
    <3>1. /\ editor[f] \in EditorRow /\ Local(editor[f], drafts) /\ drafts \in Seq(DraftRow)
          /\ drafts' \in Seq(DraftRow) /\ Len(drafts) <= Len(drafts')
      BY <1>3, <1>4 DEF StoreStep
    <3> QED
      BY ONLY <2>1, <3>1, LocalStays
<1>6. Owned'
  <2>1. ASSUME NEW f \in Editor, f # e,
               NEW p \in {editor'[e].profile, editor'[e].save.profile} \ {0}
        PROVE  p # editor[f].profile /\ p # editor[f].save.profile
    <3>1. CASE p \in {editor[e].profile, editor[e].save.profile}
      BY <2>1, <3>1 DEF ProfileInv, Owned
    <3>2. CASE p \notin DOMAIN drafts
      BY <1>3, <1>4, <2>1, <3>2
    <3> QED
      BY <3>1, <3>2 DEF RowStep
  <2> QED
    BY <1>1, <2>1 DEF ProfileInv, Owned
<1>7. Answers'
  <2> SUFFICES ASSUME NEW f \in Editor, f # e
               PROVE  AnswersOf(f)'
    BY DEF Answers
  <2> QED
    BY <1>1, <1>3, GoodStays DEF ProfileInv, Answers, AnswersOf
<1> QED
  BY <1>2, <1>5, <1>6, <1>7 DEF ProfileInv, StoreStep

-----------------------------------------------------------------------------
(* The browser's actions *)

\* What e shows after its step is what it showed, or the answer it has received.
Shows(e) ==
  LET r == editor[e]
      q == editor'[e]
  IN  /\ q.publishing = "published" =>
           /\ r.publishing = "published"
           /\ q.answer = r.answer /\ q.profile = r.profile /\ q.clicked = r.clicked
      /\ q.shown # NoVersion =>
           /\ q.profile = r.profile /\ q.clicked = r.clicked
           /\ q.shown = r.shown \/ (r.publishing = "published" /\ q.shown = r.answer)

\* A step of e that leaves the store alone keeps it.
LEMMA BrowserKeeps ==
  ASSUME ProfileInv, NEW e \in Editor, UNCHANGED store, NEW q \in EditorRow, Set(e, q),
         Local(q, drafts), Shows(e),
         q.profile \in {0, editor[e].profile, editor[e].save.profile},
         q.save.profile \in {0, editor[e].profile, editor[e].save.profile}
  PROVE  ProfileInv'
<1>1. editor'[e] = q /\ editor' = [editor EXCEPT ![e] = q]
  BY DEF Set, ProfileInv, Types
<1>2. RowStep(e)
  BY <1>1 DEF RowStep, store
<1>3. StoreStep(e)
  <2>1. \A p, v : Projected(p, v)' <=> Projected(p, v)
    BY DEF Projected, store
  <2>2. LinesHaveFiles'
    BY <2>1 DEF ProfileInv, LinesHaveFiles, store
  <2>3. Len(drafts) \in Nat
    BY DEF ProfileInv, Types
  <2> QED
    BY <2>1, <2>2, <2>3 DEF StoreStep, ProfileInv, Types, store
<1>4. \A p, a, c : Good(p, a, c) => Good(p, a, c)'
  BY DEF Good, Served, Projected, store
<1>5. AnswersOf(e)'
  BY <1>4 DEF Shows, AnswersOf, ProfileInv, Answers
<1> QED
  BY <1>2, <1>3, <1>5, StepKeeps

\* A row whose text has grown or was confirmed, marked as changed.
LEMMA ChangedKeeps ==
  ASSUME NEW r \in EditorRow, NEW d \in Seq(DraftRow), Local(r, d), NEW x \in EditorRow,
         r.text <= x.text, x.profile = r.profile, x.save = r.save, x.revision = r.revision,
         x.conflicted = r.conflicted, x.disposed = r.disposed,
         x.publishing = r.publishing, x.clicked = r.clicked
  PROVE  /\ MarkChanged(x) \in EditorRow /\ Local(MarkChanged(x), d)
         /\ MarkChanged(x).profile = x.profile /\ MarkChanged(x).save = x.save
         /\ MarkChanged(x).publishing = x.publishing /\ MarkChanged(x).clicked = x.clicked
         /\ MarkChanged(x).answer = x.answer /\ MarkChanged(x).shown = x.shown
<1>1. r.text \in Nat /\ x.text \in Nat /\ r.clicked \in Nat
  BY DEF EditorRow
<1>2. CASE x.conflicted
  <2>1. MarkChanged(x) = x
    BY <1>2 DEF MarkChanged
  <2>2. Requests(x, d)
    BY <1>2 DEF Local, Requests
  <2>3. Saved(x, d) /\ Clicked(x, d)
    BY <1>1, <1>2 DEF Local, Requests, Saved, Clicked
  <2> QED
    BY <2>1, <2>2, <2>3 DEF Local
<1>3. CASE ~x.conflicted
  <2>1. MarkChanged(x) = [x EXCEPT !.dirty = TRUE, !.ready = FALSE, !.timer = TRUE]
    BY <1>3 DEF MarkChanged
  <2>2. MarkChanged(x) \in EditorRow
    BY <2>1 DEF EditorRow
  <2>3. /\ MarkChanged(x).dirty /\ MarkChanged(x).text = x.text /\ MarkChanged(x).revision = x.revision
        /\ MarkChanged(x).profile = x.profile /\ MarkChanged(x).save = x.save
        /\ MarkChanged(x).conflicted = x.conflicted /\ MarkChanged(x).disposed = x.disposed
        /\ MarkChanged(x).publishing = x.publishing /\ MarkChanged(x).clicked = x.clicked
        /\ MarkChanged(x).answer = x.answer /\ MarkChanged(x).shown = x.shown
    BY <2>1 DEF EditorRow
  <2>4. Requests(MarkChanged(x), d)
    BY <2>3 DEF Local, Requests
  <2>5. Saved(MarkChanged(x), d) /\ Clicked(MarkChanged(x), d)
    BY <1>1, <2>3 DEF Local, Saved, Clicked
  <2> QED
    BY <2>2, <2>3, <2>4, <2>5 DEF Local
<1> QED
  BY <1>2, <1>3

\* What a teacher types and confirms.
LEMMA EditKeeps ==
  ASSUME ProfileInv, NEW e \in Editor, Edit(e) \/ AskToConfirm(e) \/ Confirm(e)
  PROVE  ProfileInv'
<1> DEFINE r == editor[e]
<1>0. /\ r \in EditorRow /\ drafts \in Seq(DraftRow) /\ Local(r, drafts) /\ editor \in [Editor -> EditorRow]
      /\ r.text \in Nat /\ r.text + 1 \in Nat /\ r.text <= r.text + 1 /\ r.text <= r.text
  BY DEF ProfileInv, Types, Locals, EditorRow
<1>1. ASSUME NEW x \in EditorRow, UNCHANGED store, Set(e, MarkChanged(x)),
             r.text <= x.text, x.profile = r.profile, x.save = r.save, x.revision = r.revision,
             x.conflicted = r.conflicted, x.disposed = r.disposed,
             x.publishing = r.publishing, x.clicked = r.clicked,
             x.answer = r.answer, x.shown = r.shown
      PROVE  ProfileInv'
  <2>1. /\ MarkChanged(x) \in EditorRow /\ Local(MarkChanged(x), drafts)
        /\ MarkChanged(x).profile = r.profile /\ MarkChanged(x).save = r.save
        /\ MarkChanged(x).publishing = r.publishing /\ MarkChanged(x).clicked = r.clicked
        /\ MarkChanged(x).answer = r.answer /\ MarkChanged(x).shown = r.shown
    BY <1>0, <1>1, ChangedKeeps
  <2>2. editor'[e] = MarkChanged(x)
    BY <1>0, <1>1 DEF Set
  <2>3. Shows(e)
    BY <2>1, <2>2 DEF Shows
  <2> QED
    BY <1>1, <2>1, <2>3, BrowserKeeps
<1>2. CASE Edit(e)
  <2>1. PICK complete \in BOOLEAN :
          Set(e, MarkChanged([r EXCEPT !.text = @ + 1, !.complete = complete, !.confirmed = FALSE]))
    BY <1>2 DEF Edit
  <2>2. [r EXCEPT !.text = @ + 1, !.complete = complete, !.confirmed = FALSE] \in EditorRow
    BY <1>0 DEF EditorRow
  <2> QED
    BY <1>0, <1>1, <1>2, <2>1, <2>2 DEF Edit, EditorRow
<1>3. ASSUME NEW n \in Int, UNCHANGED store, Set(e, [r EXCEPT !.confirming = n])
      PROVE  ProfileInv'
  <2> DEFINE q == [r EXCEPT !.confirming = n]
  <2>1. q \in EditorRow
    BY <1>0 DEF EditorRow
  <2>2. /\ q.text = r.text /\ q.confirmed = r.confirmed /\ q.dirty = r.dirty
        /\ q.revision = r.revision /\ q.profile = r.profile /\ q.save = r.save
        /\ q.conflicted = r.conflicted /\ q.disposed = r.disposed
        /\ q.publishing = r.publishing /\ q.clicked = r.clicked
        /\ q.answer = r.answer /\ q.shown = r.shown
    BY <1>0 DEF EditorRow
  <2>3. Local(q, drafts)
    BY <1>0, <2>2 DEF Local, Requests, Saved, Clicked, Payload
  <2>4. editor'[e] = q
    BY <1>0, <1>3 DEF Set
  <2>5. Shows(e)
    BY <2>2, <2>4 DEF Shows
  <2> QED
    BY <1>3, <2>1, <2>2, <2>3, <2>5, BrowserKeeps
<1>4. CASE AskToConfirm(e)
  BY <1>0, <1>3, <1>4 DEF AskToConfirm
<1>5. CASE Confirm(e)
  <2> DEFINE y == [r EXCEPT !.confirming = -1]
             x == [y EXCEPT !.confirmed = TRUE]
  <2>1. y \in EditorRow /\ y.text = r.text
    <3>1. ASSUME NEW n \in Int
          PROVE  [r EXCEPT !.confirming = n] \in EditorRow /\ [r EXCEPT !.confirming = n].text = r.text
      BY <1>0 DEF EditorRow
    <3>2. -1 \in Int
      OBVIOUS
    <3> QED
      BY <3>1, <3>2
  <2>2. UNCHANGED store /\ Set(e, IF r.confirming = y.text THEN MarkChanged(x) ELSE y)
    BY <1>5 DEF Confirm
  <2>3. CASE r.confirming # y.text
    BY <1>3, <2>2, <2>3
  <2>4. CASE r.confirming = y.text
    <3>1. x \in EditorRow
      BY <2>1 DEF EditorRow
    <3>2. /\ x.text = r.text /\ x.profile = r.profile /\ x.save = r.save /\ x.revision = r.revision
          /\ x.conflicted = r.conflicted /\ x.disposed = r.disposed
          /\ x.publishing = r.publishing /\ x.clicked = r.clicked
          /\ x.answer = r.answer /\ x.shown = r.shown
      BY <1>0 DEF EditorRow
    <3> HIDE DEF x, y
    <3> QED
      BY <1>0, <1>1, <2>2, <2>4, <3>1, <3>2
  <2> QED
    BY <2>3, <2>4
<1> QED
  BY <1>2, <1>4, <1>5

\* The timer, the button to publish, and the end of an editor.
LEMMA PressKeeps ==
  ASSUME ProfileInv, NEW e \in Editor, Timer(e) \/ Publish(e) \/ Dispose(e)
  PROVE  ProfileInv'
<1> DEFINE r == editor[e]
<1>0. /\ r \in EditorRow /\ drafts \in Seq(DraftRow) /\ Local(r, drafts) /\ editor \in [Editor -> EditorRow]
  BY DEF ProfileInv, Types, Locals
<1>1. ASSUME NEW x \in EditorRow, UNCHANGED store, Local(x, drafts), Set(e, GoOn(EnsureDrain(x))),
             x.profile = r.profile, x.save = r.save, x.answer = r.answer, x.shown = r.shown,
             x.publishing = r.publishing \/ x.publishing = "flush",
             x.clicked = r.clicked \/ (r.publishing # "published" /\ r.shown = NoVersion)
      PROVE  ProfileInv'
  <2> DEFINE m == EnsureDrain(x)
             q == GoOn(m)
  <2>1. Local(m, drafts) /\ Frame(x, m)
    BY <1>0, <1>1, EnsureDrainKeeps
  <2>2. m \in EditorRow
    BY <2>1 DEF Frame
  <2>3. Local(q, drafts) /\ Frame(m, q)
    BY <1>0, <2>1, <2>2, GoOnKeeps
  <2>4. q \in EditorRow
    BY <2>3 DEF Frame
  <2>5. editor'[e] = q
    BY <1>0, <1>1 DEF Set
  <2>6. /\ q.profile = r.profile /\ q.answer = r.answer /\ q.shown = r.shown /\ q.clicked = x.clicked
        /\ q.publishing = "published" => r.publishing = "published"
        /\ q.save.profile \in {0, r.profile, r.save.profile}
    BY <1>1, <2>1, <2>3 DEF Frame
  <2> HIDE DEF m, q
  <2>7. Shows(e)
    BY <1>1, <2>5, <2>6 DEF Shows
  <2>8. Set(e, q)
    BY <1>1 DEF q, m
  <2> QED
    BY <1>1, <2>3, <2>4, <2>6, <2>7, <2>8, BrowserKeeps
<1>2. CASE Timer(e)
  <2> DEFINE x == [r EXCEPT !.timer = FALSE, !.ready = TRUE]
  <2>1. x \in EditorRow
    BY <1>0 DEF EditorRow
  <2>2. /\ x.text = r.text /\ x.confirmed = r.confirmed /\ x.dirty = r.dirty
        /\ x.revision = r.revision /\ x.profile = r.profile /\ x.save = r.save
        /\ x.conflicted = r.conflicted /\ x.disposed = r.disposed
        /\ x.publishing = r.publishing /\ x.clicked = r.clicked
        /\ x.answer = r.answer /\ x.shown = r.shown
    BY <1>0 DEF EditorRow
  <2>3. Local(x, drafts)
    BY <1>0, <2>2 DEF Local, Requests, Saved, Clicked, Payload
  <2>4. UNCHANGED store /\ Set(e, GoOn(EnsureDrain(x)))
    BY <1>2 DEF Timer
  <2> HIDE DEF x
  <2> QED
    BY <1>1, <2>1, <2>2, <2>3, <2>4
<1>3. CASE Publish(e)
  <2> DEFINE x == [r EXCEPT !.publishing = "flush", !.clicked = r.text, !.timer = FALSE, !.ready = r.dirty \/ @]
  <2>1. x \in EditorRow
    BY <1>0 DEF EditorRow
  <2>2. /\ x.text = r.text /\ x.confirmed = r.confirmed /\ x.dirty = r.dirty
        /\ x.revision = r.revision /\ x.profile = r.profile /\ x.save = r.save
        /\ x.conflicted = r.conflicted /\ x.disposed = r.disposed
        /\ x.publishing = "flush" /\ x.clicked = r.text
        /\ x.answer = r.answer /\ x.shown = r.shown
    BY <1>0 DEF EditorRow
  <2>3. UNCHANGED store /\ Set(e, GoOn(EnsureDrain(x)))
        /\ ~r.disposed /\ r.publishing = "no" /\ r.shown = NoVersion
    BY <1>3 DEF Publish
  <2>4. r.text \in Nat
    BY <1>0 DEF EditorRow
  <2>5. Local(x, drafts)
    BY <1>0, <2>2, <2>3, <2>4 DEF Local, Requests, Saved, Clicked, Payload
  <2> HIDE DEF x
  <2> QED
    BY <1>1, <2>1, <2>2, <2>3, <2>5
<1>4. CASE Dispose(e)
  <2> DEFINE next == IF r.publishing = "flush" THEN "no" ELSE r.publishing
             q == [r EXCEPT !.disposed = TRUE, !.timer = FALSE, !.publishing = next]
  <2>1. Set(e, q) /\ UNCHANGED store
    BY <1>4 DEF Dispose
  <2>2. q \in EditorRow
    BY <1>0 DEF EditorRow
  <2>3. /\ q.text = r.text /\ q.confirmed = r.confirmed /\ q.dirty = r.dirty
        /\ q.revision = r.revision /\ q.profile = r.profile /\ q.save = r.save
        /\ q.conflicted = r.conflicted /\ q.disposed /\ q.publishing = next
        /\ q.clicked = r.clicked /\ q.answer = r.answer /\ q.shown = r.shown
    BY <1>0 DEF EditorRow
  <2>4. Local(q, drafts)
    BY <1>0, <2>3 DEF Local, Requests, Saved, Clicked, Payload
  <2>5. editor'[e] = q
    BY <1>0, <2>1 DEF Set
  <2> HIDE DEF q
  <2>6. Shows(e)
    BY <2>3, <2>5 DEF Shows
  <2> QED
    BY <2>1, <2>2, <2>3, <2>4, <2>6, BrowserKeeps
<1> QED
  BY <1>2, <1>3, <1>4

\* The answers of a save and of a publication.
LEMMA AnswersKeep ==
  ASSUME ProfileInv, NEW e \in Editor, Answered(e)
  PROVE  ProfileInv'
<1> DEFINE r == editor[e]
           s == r.save
<1>0. /\ r \in EditorRow /\ s \in SaveRow /\ drafts \in Seq(DraftRow) /\ Local(r, drafts)
      /\ editor \in [Editor -> EditorRow] /\ AnswersOf(e)
  BY DEF ProfileInv, Types, Locals, EditorRow, Answers
<1>1. ASSUME NEW q \in EditorRow, UNCHANGED store, Set(e, q), Local(q, drafts), NEW x, Frame(x, q),
             x.answer = r.answer, x.shown = r.shown, x.clicked = r.clicked,
             x.publishing = r.publishing, x.save = NoSave,
             x.profile = r.profile \/ (x.profile = s.profile /\ s.pc = "saved")
      PROVE  ProfileInv'
  <2>1. editor'[e] = q
    BY <1>0, <1>1 DEF Set
  <2>2. /\ q.answer = r.answer /\ q.shown = r.shown /\ q.clicked = r.clicked /\ q.profile = x.profile
        /\ q.publishing = "published" => r.publishing = "published"
        /\ q.save.profile \in {0, x.profile}
    BY <1>1 DEF Frame, NoSave
  <2>3. r.profile # 0 => q.profile = r.profile
    BY <1>0, <1>1, <2>2 DEF Local, Requests
  <2>4. r.publishing = "published" \/ r.shown # NoVersion => r.profile # 0
    BY <1>0 DEF AnswersOf, Good
  <2>5. Shows(e)
    BY <2>1, <2>2, <2>3, <2>4 DEF Shows
  <2> QED
    BY <1>1, <2>2, <2>5, BrowserKeeps
<1>2. CASE SaveAnswered(e)
  <2> DEFINE c == [r EXCEPT !.save = NoSave]
             f == [c EXCEPT !.dirty = TRUE, !.ready = FALSE, !.failed = TRUE]
             g == [f EXCEPT !.conflicted = TRUE]
             n == [c EXCEPT !.profile = s.profile, !.revision = s.revision]
  <2>1. /\ UNCHANGED store /\ s.pc \in {"saved", "refused", "lost"}
        /\ Set(e, IF c.disposed THEN c
                  ELSE CASE s.pc = "saved" -> GoOn(Drain(n))
                         [] s.pc = "refused" -> GoOn(g) [] s.pc = "lost" -> GoOn(f))
    BY <1>2 DEF SaveAnswered
  <2>2. NoSave \in SaveRow /\ NoSave.pc = "idle" /\ NoSave.profile = 0
    BY DEF NoSave, SaveRow, NoPayload, PayloadRow
  <2>3. c \in EditorRow
    BY <1>0, <2>2 DEF EditorRow
  <2>4. /\ c.text = r.text /\ c.confirmed = r.confirmed /\ c.dirty = r.dirty
        /\ c.revision = r.revision /\ c.profile = r.profile /\ c.save = NoSave
        /\ c.conflicted = r.conflicted /\ c.disposed = r.disposed
        /\ c.publishing = r.publishing /\ c.clicked = r.clicked
        /\ c.answer = r.answer /\ c.shown = r.shown
    BY <1>0 DEF EditorRow
  <2>5. Requests(c, drafts) /\ Clicked(c, drafts)
    BY <1>0, <2>2, <2>4 DEF Local, Requests, Clicked
  <2>6. CASE c.disposed
    <3>1. Local(c, drafts)
      BY <2>2, <2>4, <2>5, <2>6 DEF Local, Saved
    <3>2. Frame(c, c)
      BY <2>3 DEF Frame
    <3>3. Set(e, c)
      BY <2>1, <2>6
    <3> HIDE DEF c
    <3> QED
      BY <1>1, <2>1, <2>3, <2>4, <3>1, <3>2, <3>3
  <2>7. ASSUME NEW x \in EditorRow, x.dirty, Set(e, GoOn(x)),
               x.text = r.text, x.revision = r.revision, x.profile = r.profile, x.save = NoSave,
               x.disposed = r.disposed, x.publishing = r.publishing, x.clicked = r.clicked,
               x.answer = r.answer, x.shown = r.shown
        PROVE  ProfileInv'
    <3>1. Local(x, drafts)
      BY <2>2, <2>4, <2>5, <2>7 DEF Local, Saved, Requests, Clicked
    <3>2. Local(GoOn(x), drafts) /\ Frame(x, GoOn(x))
      BY <1>0, <3>1, GoOnKeeps
    <3>3. GoOn(x) \in EditorRow
      BY <3>2 DEF Frame
    <3> QED
      BY <1>1, <2>1, <2>7, <3>2, <3>3
  <2>8. f \in EditorRow /\ g \in EditorRow
    <3>1. f \in EditorRow
      BY <2>3 DEF EditorRow
    <3> HIDE DEF f
    <3> QED
      BY <3>1 DEF EditorRow
  <2>9. \A x \in {f, g} :
          /\ x.dirty /\ x.text = r.text /\ x.revision = r.revision /\ x.profile = r.profile
          /\ x.save = NoSave /\ x.disposed = r.disposed /\ x.publishing = r.publishing
          /\ x.clicked = r.clicked /\ x.answer = r.answer /\ x.shown = r.shown
    <3>1. /\ f.dirty /\ f.text = r.text /\ f.revision = r.revision /\ f.profile = r.profile
          /\ f.save = NoSave /\ f.disposed = r.disposed /\ f.publishing = r.publishing
          /\ f.clicked = r.clicked /\ f.answer = r.answer /\ f.shown = r.shown
      BY <2>3, <2>4 DEF EditorRow
    <3> HIDE DEF f
    <3>2. /\ g.dirty /\ g.text = r.text /\ g.revision = r.revision /\ g.profile = r.profile
          /\ g.save = NoSave /\ g.disposed = r.disposed /\ g.publishing = r.publishing
          /\ g.clicked = r.clicked /\ g.answer = r.answer /\ g.shown = r.shown
      BY <2>8, <3>1 DEF EditorRow
    <3> QED
      BY <3>1, <3>2
  <2>10. CASE ~c.disposed /\ s.pc \in {"refused", "lost"}
    <3>1. Set(e, GoOn(g)) \/ Set(e, GoOn(f))
      BY <2>1, <2>10
    <3> HIDE DEF f, g
    <3> QED
      BY <2>7, <2>8, <2>9, <3>1
  <2>11. CASE ~c.disposed /\ s.pc = "saved"
    <3>1. Set(e, GoOn(Drain(n)))
      BY <2>1, <2>11
    <3>2. s.profile \in Nat /\ s.revision \in Nat
      BY <1>0 DEF SaveRow
    <3>3. n \in EditorRow
      BY <2>3, <3>2 DEF EditorRow
    <3>4. /\ n.text = r.text /\ n.confirmed = r.confirmed /\ n.dirty = r.dirty
          /\ n.revision = s.revision /\ n.profile = s.profile /\ n.save = NoSave
          /\ n.conflicted = r.conflicted /\ n.disposed = r.disposed
          /\ n.publishing = r.publishing /\ n.clicked = r.clicked
          /\ n.answer = r.answer /\ n.shown = r.shown
      BY <2>3, <2>4 DEF EditorRow
    <3>5. r.profile # 0 => s.profile = r.profile
      BY <1>0, <2>11 DEF Local, Requests
    <3> HIDE DEF n, c
    <3>6. Requests(n, drafts) /\ Clicked(n, drafts)
      BY <1>0, <2>2, <3>4, <3>5 DEF Local, Requests, Clicked
    <3>7. Saved(n, drafts)
      BY <1>0, <2>2, <2>11, <3>4 DEF Local, Requests, Saved, Payload
    <3>8. Local(Drain(n), drafts) /\ Frame(n, Drain(n))
      BY <1>0, <2>2, <3>3, <3>4, <3>6, <3>7, DrainKeeps DEF Local
    <3>9. Drain(n) \in EditorRow
      BY <3>8 DEF Frame
    <3>10. Local(GoOn(Drain(n)), drafts) /\ Frame(Drain(n), GoOn(Drain(n)))
      BY <1>0, <3>8, <3>9, GoOnKeeps
    <3>11. GoOn(Drain(n)) \in EditorRow /\ Frame(n, GoOn(Drain(n)))
      BY <2>2, <3>4, <3>8, <3>10 DEF Frame
    <3> QED
      BY <1>1, <2>1, <2>11, <3>1, <3>4, <3>10, <3>11
  <2> QED
    BY <2>1, <2>6, <2>10, <2>11
<1>3. CASE PublishAnswered(e)
  <2> DEFINE shown == IF r.disposed \/ r.publishing = "refused" THEN r.shown ELSE r.answer
             q == [r EXCEPT !.publishing = "no", !.answer = NoVersion, !.shown = shown]
  <2>1. /\ Set(e, q) /\ UNCHANGED store /\ r.publishing \in {"published", "refused"}
    BY <1>3 DEF PublishAnswered
  <2>2. NoVersion \in AnswerRow /\ shown \in AnswerRow
    BY <1>0 DEF NoVersion, AnswerRow, NoPayload, PayloadRow, EditorRow
  <2>3. q \in EditorRow
    BY <1>0, <2>2 DEF EditorRow
  <2>4. /\ q.text = r.text /\ q.confirmed = r.confirmed /\ q.dirty = r.dirty
        /\ q.revision = r.revision /\ q.profile = r.profile /\ q.save = r.save
        /\ q.conflicted = r.conflicted /\ q.disposed = r.disposed /\ q.publishing = "no"
        /\ q.clicked = r.clicked /\ q.shown = shown
    BY <1>0 DEF EditorRow
  <2>5. Local(q, drafts)
    BY <1>0, <2>4 DEF Local, Requests, Saved, Clicked, Payload
  <2>6. editor'[e] = q
    BY <1>0, <2>1 DEF Set
  <2> HIDE DEF q
  <2>7. Shows(e)
    BY <2>1, <2>4, <2>6 DEF Shows
  <2> QED
    BY <2>1, <2>3, <2>4, <2>5, <2>7, BrowserKeeps
<1> QED
  BY <1>2, <1>3 DEF Answered

-----------------------------------------------------------------------------
(* The store *)

\* Appending to a sequence leaves what it had, with its number.
LEMMA Appended ==
  ASSUME NEW S, NEW q \in Seq(S), NEW x \in S
  PROVE  /\ Append(q, x) \in Seq(S)
         /\ Len(Append(q, x)) = Len(q) + 1 /\ Len(q) \in Nat
         /\ Append(q, x)[Len(q) + 1] = x
         /\ \A n \in DOMAIN q : Append(q, x)[n] = q[n]
         /\ DOMAIN q = 1..Len(q) /\ DOMAIN Append(q, x) = DOMAIN q \cup {Len(q) + 1}
<1>1. Len(q) \in Nat /\ DOMAIN q = 1..Len(q)
  OBVIOUS
<1>2. /\ Append(q, x) \in Seq(S) /\ Len(Append(q, x)) = Len(q) + 1
      /\ Append(q, x)[Len(q) + 1] = x
      /\ \A n \in 1..Len(q) : Append(q, x)[n] = q[n]
  BY AppendProperties
<1>3. DOMAIN Append(q, x) = 1..(Len(q) + 1)
  BY <1>2
<1>4. 1..(Len(q) + 1) = 1..Len(q) \cup {Len(q) + 1}
  BY <1>1
<1> QED
  BY <1>1, <1>2, <1>3, <1>4

\* A request of e's that moves on within the store's step keeps what e shows.
LEMMA SaveAnswers ==
  ASSUME ProfileInv, NEW e \in Editor, StoreStep(e), NEW save \in SaveRow,
         editor' = [editor EXCEPT ![e].save = save]
  PROVE  /\ AnswersOf(e)' /\ editor' = [editor EXCEPT ![e] = editor'[e]]
         /\ editor'[e] = [editor[e] EXCEPT !.save = save] /\ editor'[e] \in EditorRow
         /\ Payload(editor'[e]) = Payload(editor[e])
<1>0. editor[e] \in EditorRow /\ editor \in [Editor -> EditorRow]
  BY DEF ProfileInv, Types
<1>1. editor'[e] = [editor[e] EXCEPT !.save = save] /\ editor' = [editor EXCEPT ![e] = editor'[e]]
  BY <1>0
<1>2. editor'[e] \in EditorRow
  BY <1>0, <1>1 DEF EditorRow
<1>3. /\ editor'[e].publishing = editor[e].publishing /\ editor'[e].profile = editor[e].profile
      /\ editor'[e].clicked = editor[e].clicked /\ editor'[e].answer = editor[e].answer
      /\ editor'[e].shown = editor[e].shown
      /\ editor'[e].text = editor[e].text /\ editor'[e].confirmed = editor[e].confirmed
  BY <1>0, <1>1 DEF EditorRow
<1>4. editor[e].profile \in 0..Len(drafts) /\ AnswersOf(e)
  BY DEF ProfileInv, Locals, Local, Requests, Answers
<1>5. AnswersOf(e)'
  BY <1>3, <1>4, GoodStays DEF AnswersOf, ProfileInv
<1> QED
  BY <1>1, <1>2, <1>3, <1>5 DEF Payload

\* A first save makes a draft that nobody else knows.
LEMMA CreateKeeps ==
  ASSUME ProfileInv, NEW e \in Editor, CreateDraft(e)
  PROVE  ProfileInv'
<1> DEFINE r == editor[e]
           s == r.save
           p == Len(drafts) + 1
           new == [revision |-> 1, payload |-> s.payload]
           save == [s EXCEPT !.pc = "saved", !.profile = p, !.revision = 1]
<1>0. /\ r \in EditorRow /\ s \in SaveRow /\ Local(r, drafts) /\ editor \in [Editor -> EditorRow]
      /\ drafts \in Seq(DraftRow) /\ versions \in Seq(Seq(PayloadRow)) /\ Len(drafts) = Len(versions)
  BY DEF ProfileInv, Types, Locals, EditorRow
<1>1. /\ s.pc = "sent" /\ s.profile = 0 /\ r.profile = 0
      /\ drafts' = Append(drafts, new) /\ versions' = Append(versions, <<>>) /\ audit' = audit
      /\ editor' = [editor EXCEPT ![e].save = save]
  <2>1. /\ s.pc = "sent" /\ s.profile = 0
        /\ drafts' = Append(drafts, new) /\ versions' = Append(versions, <<>>) /\ audit' = audit
        /\ editor' = [editor EXCEPT ![e] = [r EXCEPT !.save = save]]
    BY DEF CreateDraft, Set
  <2>2. r.profile = 0
    BY <1>0, <2>1 DEF Local, Requests
  <2>3. [editor EXCEPT ![e] = [r EXCEPT !.save = save]] = [editor EXCEPT ![e].save = save]
    OBVIOUS
  <2> QED
    BY <2>1, <2>2, <2>3
<1>2. new \in DraftRow /\ <<>> \in Seq(PayloadRow)
  BY <1>0 DEF DraftRow, SaveRow
<1>3. /\ drafts' \in Seq(DraftRow) /\ Len(drafts') = p /\ Len(drafts) \in Nat /\ drafts'[p] = new
      /\ DOMAIN drafts = 1..Len(drafts) /\ \A n \in DOMAIN drafts : drafts'[n] = drafts[n]
  BY <1>0, <1>1, <1>2, Appended
<1>4. /\ versions' \in Seq(Seq(PayloadRow)) /\ Len(versions') = p
      /\ DOMAIN versions \subseteq DOMAIN versions' /\ \A n \in DOMAIN versions : versions'[n] = versions[n]
  BY <1>0, <1>1, <1>2, Appended
<1>5. StoreStep(e)
  <2>1. \A n, v : Projected(n, v)' <=> Projected(n, v)
    BY <1>1 DEF Projected
  <2>2. LinesHaveFiles'
    BY <1>4, <2>1 DEF ProfileInv, LinesHaveFiles
  <2> QED
    BY <1>0, <1>3, <1>4, <2>1, <2>2 DEF StoreStep
<1>6. /\ save \in SaveRow /\ save.pc = "saved" /\ save.profile = p /\ save.revision = 1
      /\ save.payload = s.payload
  <2>1. p \in Nat
    BY <1>3
  <2> HIDE DEF p, new
  <2> QED
    BY <1>0, <2>1 DEF SaveRow
<1> HIDE DEF save
<1>7. /\ AnswersOf(e)' /\ editor' = [editor EXCEPT ![e] = editor'[e]] /\ editor'[e] \in EditorRow
      /\ editor'[e] = [r EXCEPT !.save = save] /\ Payload(editor'[e]) = Payload(r)
  BY <1>1, <1>5, <1>6, SaveAnswers
<1>8. /\ editor'[e].save = save /\ editor'[e].profile = 0 /\ editor'[e].conflicted = r.conflicted
      /\ editor'[e].dirty = r.dirty /\ editor'[e].publishing = r.publishing
      /\ editor'[e].clicked = r.clicked /\ editor'[e].text = r.text /\ editor'[e].disposed = r.disposed
  BY <1>0, <1>1, <1>7 DEF EditorRow
<1>9. Local(editor'[e], drafts')
  <2>1. p \in 0..p /\ 0 \in 0..p /\ p # 0
    BY <1>3
  <2> HIDE DEF p, new
  <2>2. Requests(editor'[e], drafts')
    BY <1>0, <1>1, <1>3, <1>6, <1>7, <1>8, <2>1 DEF Local, Requests
  <2>3. Saved(editor'[e], drafts')
    BY <1>3, <1>6, <1>8, <2>1 DEF Saved, new
  <2>4. Clicked(editor'[e], drafts')
    BY <1>0, <1>1, <1>8 DEF Local, Clicked
  <2> QED
    BY <2>2, <2>3, <2>4 DEF Local
<1>10. p \notin DOMAIN drafts
  BY <1>3
<1>11. RowStep(e)
  BY <1>6, <1>7, <1>8, <1>9, <1>10 DEF RowStep
<1> QED
  BY <1>5, <1>7, <1>11, StepKeeps

\* A later save writes the draft that only e knows, or is refused.
LEMMA UpdateKeeps ==
  ASSUME ProfileInv, NEW e \in Editor, UpdateDraft(e)
  PROVE  ProfileInv'
<1> DEFINE r == editor[e]
           s == r.save
           p == s.profile
           next == drafts[p].revision + 1
           new == [revision |-> next, payload |-> s.payload]
<1>0. /\ r \in EditorRow /\ s \in SaveRow /\ Local(r, drafts) /\ editor \in [Editor -> EditorRow]
      /\ drafts \in Seq(DraftRow) /\ versions \in Seq(Seq(PayloadRow)) /\ Len(drafts) = Len(versions)
  BY DEF ProfileInv, Types, Locals, EditorRow
<1>1. s.pc = "sent" /\ p # 0 /\ UNCHANGED <<versions, audit>>
  BY DEF UpdateDraft
<1>2. r.profile = p /\ p \in DOMAIN drafts /\ Len(drafts) \in Nat /\ DOMAIN drafts = 1..Len(drafts)
  <2>1. r.profile = p /\ p \in 0..Len(drafts)
    BY <1>0, <1>1 DEF Local, Requests
  <2>2. Len(drafts) \in Nat /\ DOMAIN drafts = 1..Len(drafts)
    BY <1>0
  <2> QED
    BY <1>1, <2>1, <2>2
<1>3. drafts[p] \in DraftRow /\ next \in Nat /\ new \in DraftRow
  <2>1. drafts[p] \in DraftRow
    BY <1>0, <1>2
  <2> QED
    BY <1>0, <2>1 DEF DraftRow, SaveRow
<1>4. \/ /\ drafts' = [drafts EXCEPT ![p] = new]
         /\ editor' = [editor EXCEPT ![e].save = [s EXCEPT !.pc = "saved", !.revision = next]]
      \/ /\ drafts' = drafts
         /\ editor' = [editor EXCEPT ![e].save = [s EXCEPT !.pc = "refused"]]
  <2>1. \/ /\ drafts' = [drafts EXCEPT ![p] = new]
           /\ editor' = [editor EXCEPT ![e] = [r EXCEPT !.save = [s EXCEPT !.pc = "saved", !.revision = next]]]
        \/ /\ drafts' = drafts
           /\ editor' = [editor EXCEPT ![e] = [r EXCEPT !.save.pc = "refused"]]
    BY DEF UpdateDraft, Set
  <2> HIDE DEF next, new
  <2> QED
    BY <2>1
<1>5. PICK save \in SaveRow :
        /\ editor' = [editor EXCEPT ![e].save = save] /\ save.profile = p /\ save.payload = s.payload
        /\ \/ save.pc = "saved" /\ save.revision = next /\ drafts' = [drafts EXCEPT ![p] = new]
           \/ save.pc = "refused" /\ drafts' = drafts
  <2>1. /\ [s EXCEPT !.pc = "saved", !.revision = next] \in SaveRow
        /\ [s EXCEPT !.pc = "saved", !.revision = next].profile = p
        /\ [s EXCEPT !.pc = "saved", !.revision = next].payload = s.payload
        /\ [s EXCEPT !.pc = "saved", !.revision = next].pc = "saved"
        /\ [s EXCEPT !.pc = "saved", !.revision = next].revision = next
    BY <1>0, <1>3 DEF SaveRow
  <2>2. /\ [s EXCEPT !.pc = "refused"] \in SaveRow
        /\ [s EXCEPT !.pc = "refused"].profile = p /\ [s EXCEPT !.pc = "refused"].payload = s.payload
        /\ [s EXCEPT !.pc = "refused"].pc = "refused"
    BY <1>0 DEF SaveRow
  <2> HIDE DEF next, new
  <2> QED
    BY <1>4, <2>1, <2>2
<1>6. /\ drafts' \in Seq(DraftRow) /\ Len(drafts') = Len(drafts)
      /\ \A n \in DOMAIN drafts : n # p => drafts'[n] = drafts[n]
      /\ save.pc = "saved" => drafts'[p] = new
      /\ save.pc = "refused" => drafts' = drafts
  <2>1. CASE drafts' = drafts /\ save.pc = "refused"
    BY <1>0, <2>1
  <2>2. CASE drafts' = [drafts EXCEPT ![p] = new] /\ save.pc = "saved"
    <3>1. drafts' \in Seq(DraftRow) /\ Len(drafts') = Len(drafts)
      BY <1>0, <1>2, <1>3, <2>2, ExceptSeq
    <3> QED
      BY <1>2, <2>2, <3>1
  <2> QED
    BY <1>5, <2>1, <2>2
<1> HIDE DEF next, new
<1>7. StoreStep(e)
  <2>1. \A n, v : Projected(n, v)' <=> Projected(n, v)
    BY <1>1 DEF Projected
  <2>2. LinesHaveFiles'
    BY <1>1, <2>1 DEF ProfileInv, LinesHaveFiles
  <2>3. \A n \in DOMAIN drafts : drafts'[n] = drafts[n] \/ n \in {r.profile, s.profile}
    BY <1>6
  <2> QED
    BY <1>0, <1>1, <1>2, <1>6, <2>1, <2>2, <2>3 DEF StoreStep
<1>8. /\ AnswersOf(e)' /\ editor' = [editor EXCEPT ![e] = editor'[e]] /\ editor'[e] \in EditorRow
      /\ editor'[e] = [r EXCEPT !.save = save] /\ Payload(editor'[e]) = Payload(r)
  BY <1>5, <1>7, SaveAnswers
<1>9. /\ editor'[e].save = save /\ editor'[e].profile = p /\ editor'[e].conflicted = r.conflicted
      /\ editor'[e].dirty = r.dirty /\ editor'[e].publishing = r.publishing
      /\ editor'[e].clicked = r.clicked /\ editor'[e].text = r.text /\ editor'[e].disposed = r.disposed
  BY <1>0, <1>2, <1>8 DEF EditorRow
<1>10. Local(editor'[e], drafts')
  <2>1. Requests(editor'[e], drafts')
    BY <1>0, <1>1, <1>5, <1>6, <1>8, <1>9 DEF Local, Requests
  <2>2. Saved(editor'[e], drafts')
    BY <1>1, <1>5, <1>6, <1>9 DEF Saved, new
  <2>3. Clicked(editor'[e], drafts')
    BY <1>0, <1>1, <1>2, <1>5, <1>6, <1>9 DEF Local, Clicked, new
  <2> QED
    BY <2>1, <2>2, <2>3 DEF Local
<1>11. RowStep(e)
  BY <1>2, <1>5, <1>8, <1>9, <1>10 DEF RowStep
<1> QED
  BY <1>7, <1>8, <1>11, StepKeeps

\* A line is not the end of the file.
LEMMA PairIsNotEmpty == \A p, v : <<p, v>> # <<>>
OBVIOUS

\* An append to the audit file, cut or not, loses no line and adds its own at most.
LEMMA AuditFacts ==
  ASSUME NEW p, NEW v, audit' \in CutAppends(audit, <<p, v>>)
  PROVE  \A n, m : <<n, m>> # Torn =>
           /\ Projected(n, m) => Projected(n, m)'
           /\ Projected(n, m)' => Projected(n, m) \/ <<n, m>> = <<p, v>>
<1> SUFFICES ASSUME NEW n, NEW m, <<n, m>> # Torn
             PROVE  /\ Projected(n, m) => Projected(n, m)'
                    /\ Projected(n, m)' => Projected(n, m) \/ <<n, m>> = <<p, v>>
  OBVIOUS
<1>0. <<n, m>> # Clean
  BY PairIsNotEmpty DEF Clean
<1>1. /\ Repaired(audit).tail = Clean
      /\ <<n, m>> \in Repaired(audit).lines <=> Projected(n, m)
  BY <1>0 DEF Repaired, Projected
<1>2. /\ Written(Repaired(audit), <<p, v>>).tail = Clean
      /\ Written(Repaired(audit), <<p, v>>).lines = Repaired(audit).lines \cup {<<p, v>>}
  BY <1>1 DEF Written
<1>3. \A t : /\ [Repaired(audit) EXCEPT !.tail = t].lines = Repaired(audit).lines
             /\ [Repaired(audit) EXCEPT !.tail = t].tail = t
  BY DEF Repaired
<1>4. \/ audit' = audit \/ audit' = Repaired(audit)
      \/ audit' = Written(Repaired(audit), <<p, v>>)
      \/ \E t \in {Torn, <<p, v>>} : audit' = [Repaired(audit) EXCEPT !.tail = t]
  BY DEF CutAppends
<1> QED
  BY <1>0, <1>1, <1>2, <1>3, <1>4 DEF Projected

\* A publication, cut or not, adds a version to one profile.
AddsVersion(p) ==
  /\ p \in DOMAIN versions /\ drafts' = drafts
  /\ versions' = [versions EXCEPT ![p] = Append(@, drafts[p].payload)]
  /\ audit' \in CutAppends(audit, <<p, NextVersion(p)>>)

\* The other profiles keep their versions, and this one gets the next number.
LEMMA VersionFacts ==
  ASSUME Types, NEW p, AddsVersion(p)
  PROVE  /\ drafts[p].payload \in PayloadRow /\ p \in Nat \ {0} /\ NextVersion(p) \in Nat \ {0}
         /\ versions' \in Seq(Seq(PayloadRow)) /\ Len(versions') = Len(versions)
         /\ DOMAIN versions' = DOMAIN versions
         /\ \A n \in DOMAIN versions : n # p => versions'[n] = versions[n]
         /\ DOMAIN versions'[p] = DOMAIN versions[p] \cup {NextVersion(p)}
         /\ NextVersion(p) \notin DOMAIN versions[p]
         /\ \A v \in DOMAIN versions[p] : versions'[p][v] = versions[p][v]
         /\ versions'[p][NextVersion(p)] = drafts[p].payload
         /\ \A n \in DOMAIN versions : \A v : <<n, v>> # Torn
<1> DEFINE new == drafts[p].payload
<1>1. /\ p \in 1..Len(versions) /\ Len(versions) \in Nat /\ DOMAIN versions = 1..Len(versions)
      /\ versions \in Seq(Seq(PayloadRow)) /\ versions[p] \in Seq(PayloadRow)
      /\ versions' = [versions EXCEPT ![p] = Append(versions[p], new)]
  BY DEF Types, AddsVersion
<1>2. new \in PayloadRow
  <2>1. p \in DOMAIN drafts
    BY <1>1 DEF Types
  <2>2. drafts[p] \in DraftRow
    BY <2>1 DEF Types
  <2> QED
    BY <2>2 DEF DraftRow
<1>3. /\ Append(versions[p], new) \in Seq(PayloadRow)
      /\ Append(versions[p], new)[Len(versions[p]) + 1] = new /\ Len(versions[p]) \in Nat
      /\ \A n \in DOMAIN versions[p] : Append(versions[p], new)[n] = versions[p][n]
      /\ DOMAIN versions[p] = 1..Len(versions[p])
      /\ DOMAIN Append(versions[p], new) = DOMAIN versions[p] \cup {Len(versions[p]) + 1}
  BY <1>1, <1>2, Appended
<1> HIDE DEF new
<1>4. versions' \in Seq(Seq(PayloadRow)) /\ Len(versions') = Len(versions)
  BY <1>1, <1>3, ExceptSeq
<1>5. /\ DOMAIN versions' = DOMAIN versions /\ versions'[p] = Append(versions[p], new)
      /\ \A n \in DOMAIN versions : n # p => versions'[n] = versions[n]
  BY <1>1
<1>6. \A n \in DOMAIN versions : \A v : <<n, v>> # Torn
  BY <1>1 DEF Torn
<1>7. p \in Nat \ {0} /\ NextVersion(p) \in Nat \ {0} /\ NextVersion(p) \notin DOMAIN versions[p]
  BY <1>1, <1>3 DEF NextVersion
<1> QED
  BY <1>2, <1>3, <1>4, <1>5, <1>6, <1>7 DEF NextVersion, new

\* The row of an editor whose publication has been served or cut.
LEMMA VersionKeeps ==
  ASSUME ProfileInv, NEW e \in Editor, editor[e].publishing = "sent", AddsVersion(editor[e].profile),
         NEW answer \in AnswerRow, NEW publishing \in {"published", "refused"},
         Set(e, [editor[e] EXCEPT !.publishing = publishing, !.answer = answer]),
         publishing = "published" => Good(editor[e].profile, answer, editor[e].clicked)'
  PROVE  ProfileInv'
<1> DEFINE r == editor[e]
           p == r.profile
<1>0. r \in EditorRow /\ Local(r, drafts) /\ editor \in [Editor -> EditorRow] /\ AnswersOf(e)
  BY DEF ProfileInv, Types, Locals, Answers
<1>1. StoreStep(e)
  <2>1. \A n \in DOMAIN versions : \A v \in DOMAIN versions[n] :
          /\ v \in DOMAIN versions'[n] /\ versions'[n][v] = versions[n][v]
          /\ Projected(n, v) => Projected(n, v)'
    <3> SUFFICES ASSUME NEW n \in DOMAIN versions, NEW v \in DOMAIN versions[n]
                 PROVE  /\ v \in DOMAIN versions'[n] /\ versions'[n][v] = versions[n][v]
                        /\ Projected(n, v) => Projected(n, v)'
      OBVIOUS
    <3>1. <<n, v>> # Torn /\ v \in DOMAIN versions'[n] /\ versions'[n][v] = versions[n][v]
      BY VersionFacts DEF ProfileInv
    <3>2. Projected(n, v) => Projected(n, v)'
      BY <3>1, AuditFacts DEF AddsVersion
    <3> QED
      BY <3>1, <3>2
  <2>2. LinesHaveFiles'
    <3> SUFFICES ASSUME NEW n, NEW v, Projected(n, v)', <<n, v>> # Torn
                 PROVE  n \in DOMAIN versions' /\ v \in DOMAIN versions'[n]
      BY DEF LinesHaveFiles
    <3>1. Projected(n, v) \/ <<n, v>> = <<p, NextVersion(p)>>
      BY AuditFacts DEF AddsVersion
    <3>2. CASE Projected(n, v)
      <4>1. n \in DOMAIN versions /\ v \in DOMAIN versions[n]
        BY <3>2 DEF ProfileInv, LinesHaveFiles
      <4>2. DOMAIN versions' = DOMAIN versions
        BY VersionFacts DEF ProfileInv
      <4> QED
        BY <2>1, <4>1, <4>2
    <3>3. CASE <<n, v>> = <<p, NextVersion(p)>>
      <4>1. n = p /\ v = NextVersion(p)
        BY <3>3
      <4>2. p \in DOMAIN versions
        BY DEF AddsVersion
      <4>3. DOMAIN versions' = DOMAIN versions /\ NextVersion(p) \in DOMAIN versions'[p]
        BY VersionFacts DEF ProfileInv
      <4> QED
        BY <4>1, <4>2, <4>3
    <3> QED
      BY <3>1, <3>2, <3>3
  <2>3. /\ versions' \in Seq(Seq(PayloadRow)) /\ Len(versions') = Len(versions) /\ drafts' = drafts
        /\ Len(drafts) \in Nat /\ drafts \in Seq(DraftRow) /\ Len(drafts) = Len(versions)
    <3>1. versions' \in Seq(Seq(PayloadRow)) /\ Len(versions') = Len(versions)
      BY VersionFacts DEF ProfileInv
    <3>2. drafts' = drafts /\ Len(drafts) \in Nat /\ drafts \in Seq(DraftRow) /\ Len(drafts) = Len(versions)
      BY DEF ProfileInv, Types, AddsVersion
    <3> QED
      BY <3>1, <3>2
  <2> QED
    BY <2>1, <2>2, <2>3 DEF StoreStep
<1> DEFINE q == [r EXCEPT !.publishing = publishing, !.answer = answer]
<1>2. q \in EditorRow
  BY <1>0 DEF EditorRow
<1>3. /\ q.text = r.text /\ q.confirmed = r.confirmed /\ q.dirty = r.dirty
      /\ q.revision = r.revision /\ q.profile = r.profile /\ q.save = r.save
      /\ q.conflicted = r.conflicted /\ q.disposed = r.disposed
      /\ q.publishing = publishing /\ q.answer = answer
      /\ q.clicked = r.clicked /\ q.shown = r.shown
  BY <1>0 DEF EditorRow
<1> HIDE DEF q
<1>4. Local(q, drafts)
  BY <1>0, <1>3 DEF Local, Requests, Saved, Clicked, Payload
<1>5. editor'[e] = q /\ editor' = [editor EXCEPT ![e] = q]
  BY <1>0 DEF Set, q
<1>6. AnswersOf(e)'
  <2>1. p \in 0..Len(drafts)
    BY <1>0 DEF Local, Requests
  <2>2. ASSUME NEW n \in 0..Len(drafts), NEW a, NEW c, Good(n, a, c)
        PROVE  Good(n, a, c)'
    BY <1>1, <2>2, GoodStays DEF ProfileInv
  <2>3. /\ editor'[e].publishing = publishing /\ editor'[e].profile = p /\ editor'[e].answer = answer
        /\ editor'[e].shown = r.shown /\ editor'[e].clicked = r.clicked
    BY <1>3, <1>5
  <2>4. editor'[e].publishing = "published" => Good(editor[e].profile, editor[e].answer, editor[e].clicked)'
    BY <2>3
  <2>5. editor'[e].shown # NoVersion => Good(editor[e].profile, editor[e].shown, editor[e].clicked)'
    BY <1>0, <2>1, <2>2, <2>3 DEF AnswersOf
  <2> QED
    BY <2>4, <2>5 DEF AnswersOf
<1>7. RowStep(e)
  BY <1>2, <1>3, <1>4, <1>5 DEF RowStep, AddsVersion
<1> QED
  BY <1>1, <1>6, <1>7, StepKeeps

\* A publication that is refused changes nothing else of the row.
LEMMA RefusedKeeps ==
  ASSUME NEW r \in EditorRow, NEW d, Local(r, d), r.publishing # "no"
  PROVE  LET q == [r EXCEPT !.publishing = "refused"]
         IN  /\ q \in EditorRow /\ Local(q, d) /\ q.publishing = "refused"
             /\ q.profile = r.profile /\ q.save = r.save /\ q.clicked = r.clicked
             /\ q.answer = r.answer /\ q.shown = r.shown
<1> DEFINE q == [r EXCEPT !.publishing = "refused"]
<1>1. q \in EditorRow
  BY DEF EditorRow
<1>2. /\ q.text = r.text /\ q.confirmed = r.confirmed /\ q.dirty = r.dirty
      /\ q.revision = r.revision /\ q.profile = r.profile /\ q.save = r.save
      /\ q.conflicted = r.conflicted /\ q.disposed = r.disposed
      /\ q.publishing = "refused" /\ q.clicked = r.clicked /\ q.answer = r.answer /\ q.shown = r.shown
  BY DEF EditorRow
<1> HIDE DEF q
<1>3. Local(q, d)
  <2>1. Requests(q, d)
    BY <1>2 DEF Local, Requests, Payload
  <2>2. Saved(q, d)
    BY <1>2 DEF Local, Saved, Payload
  <2>3. Clicked(q, d)
    BY <1>2 DEF Local, Clicked
  <2> QED
    BY <2>1, <2>2, <2>3 DEF Local
<1> QED
  BY <1>1, <1>2, <1>3 DEF q

\* A publication that is served, refused or cut.
LEMMA PublishKeeps ==
  ASSUME ProfileInv, NEW e \in Editor, PublishDraft(e) \/ CutPublish(e)
  PROVE  ProfileInv'
<1> DEFINE r == editor[e]
           p == r.profile
           v == NextVersion(p)
<1>0. /\ r \in EditorRow /\ Local(r, drafts) /\ editor \in [Editor -> EditorRow] /\ Types
      /\ r.publishing = "sent"
  BY DEF ProfileInv, Types, Locals, PublishDraft, CutPublish
<1>1. p # 0 /\ p \in DOMAIN versions /\ r.clicked <= drafts[p].payload.text
  <2>1. p # 0 /\ p \in 0..Len(versions) /\ Len(versions) \in Nat /\ DOMAIN versions = 1..Len(versions)
    BY <1>0 DEF Local, Requests, Clicked, Types
  <2>2. r.clicked <= drafts[p].payload.text
    BY <1>0 DEF Local, Clicked
  <2> QED
    BY <2>1, <2>2
<1>2. CASE PublishDraft(e) /\ ~Publishable(p)
  <2> DEFINE q == [r EXCEPT !.publishing = "refused"]
  <2>1. Set(e, q) /\ UNCHANGED store
    BY <1>2 DEF PublishDraft, store
  <2>2. /\ q \in EditorRow /\ Local(q, drafts) /\ q.publishing = "refused"
        /\ q.profile = r.profile /\ q.save = r.save /\ q.clicked = r.clicked
        /\ q.answer = r.answer /\ q.shown = r.shown
    BY <1>0, RefusedKeeps
  <2>3. editor'[e] = q
    BY <1>0, <2>1 DEF Set
  <2> HIDE DEF q
  <2>4. Shows(e)
    <3>1. editor'[e].publishing # "published"
      BY <2>2, <2>3
    <3>2. /\ editor'[e].profile = editor[e].profile /\ editor'[e].clicked = editor[e].clicked
          /\ editor'[e].shown = editor[e].shown
      BY <2>2, <2>3, Zenon
    <3> QED
      BY <3>1, <3>2 DEF Shows
  <2> QED
    BY <2>1, <2>2, <2>4, BrowserKeeps
<1>3. CASE PublishDraft(e) /\ Publishable(p)
  <2> DEFINE answer == [version |-> v, payload |-> drafts[p].payload]
  <2>1. /\ versions' = [versions EXCEPT ![p] = Append(@, drafts[p].payload)]
        /\ audit' = Written(Repaired(audit), <<p, v>>) /\ drafts' = drafts
        /\ Set(e, [r EXCEPT !.publishing = "published", !.answer = answer])
    BY <1>3 DEF PublishDraft
  <2>2. AddsVersion(p)
    BY <1>1, <2>1 DEF AddsVersion, CutAppends
  <2>3. /\ drafts[p].payload \in PayloadRow /\ v \in Nat /\ v \in DOMAIN versions'[p]
        /\ versions'[p][v] = drafts[p].payload
    BY <1>0, <2>2, VersionFacts
  <2>4. answer \in AnswerRow
    BY <2>3 DEF AnswerRow
  <2>5. <<p, v>> \in audit'.lines
    BY <2>1 DEF Repaired, Written
  <2>6. editor'[e].profile = p /\ editor'[e].clicked = r.clicked
    BY <1>0, <2>1 DEF Set, EditorRow
  <2>7. drafts[p].payload.text >= r.clicked /\ drafts[p].payload.confirmed
    <3>1. r.clicked \in Nat /\ drafts[p].payload.text \in Nat
      BY <1>0, <2>3 DEF EditorRow, PayloadRow
    <3> QED
      BY <1>1, <1>3, <3>1 DEF Publishable
  <2>8. ASSUME NEW n, NEW a, n = p, a = answer
        PROVE  /\ n # 0 /\ a.version \in DOMAIN versions'[n] /\ <<n, a.version>> \in audit'.lines
               /\ versions'[n][a.version] = a.payload /\ a.payload.confirmed /\ a.payload.text >= r.clicked
    <3>1. a.version = v /\ a.payload = drafts[p].payload
      BY <2>8
    <3> HIDE DEF answer, v
    <3> QED
      BY <1>1, <2>3, <2>5, <2>7, <2>8, <3>1
  <2> HIDE DEF answer, v
  <2>9. \A a : a = answer => Good(editor[e].profile, a, editor[e].clicked)'
    BY <2>6, <2>8 DEF Good, Served, Projected
  <2> QED
    BY <1>0, <2>1, <2>2, <2>4, <2>9, VersionKeeps
<1>4. CASE CutPublish(e)
  <2>1. /\ AddsVersion(p) /\ Set(e, [r EXCEPT !.publishing = "refused"])
    BY <1>1, <1>4 DEF CutPublish, AddsVersion
  <2>2. r.answer \in AnswerRow
    BY <1>0 DEF EditorRow
  <2>3. [r EXCEPT !.publishing = "refused", !.answer = r.answer] = [r EXCEPT !.publishing = "refused"]
    BY <1>0 DEF EditorRow
  <2> QED
    BY <1>0, <2>1, <2>2, <2>3, VersionKeeps
<1> QED
  BY <1>2, <1>3, <1>4

\* A lost request, or a lost answer.
LEMMA LoseKeeps ==
  ASSUME ProfileInv, NEW e \in Editor, Lose(e)
  PROVE  ProfileInv'
<1> DEFINE r == editor[e]
           s == r.save
<1>0. /\ r \in EditorRow /\ s \in SaveRow /\ Local(r, drafts) /\ editor \in [Editor -> EditorRow]
  BY DEF ProfileInv, Types, Locals, EditorRow
<1>1. CASE s.pc \in {"sent", "saved"} /\ Set(e, [r EXCEPT !.save.pc = "lost"]) /\ UNCHANGED store
  <2> DEFINE save == [s EXCEPT !.pc = "lost"]
             q == [r EXCEPT !.save = save]
  <2>1. /\ save \in SaveRow /\ save.pc = "lost" /\ save.profile = s.profile
        /\ save.revision = s.revision /\ save.payload = s.payload
    BY <1>0 DEF SaveRow
  <2>2. Set(e, q)
    BY <1>1
  <2> HIDE DEF save
  <2>3. q \in EditorRow
    BY <1>0, <2>1 DEF EditorRow
  <2>4. /\ q.text = r.text /\ q.confirmed = r.confirmed /\ q.dirty = r.dirty
        /\ q.revision = r.revision /\ q.profile = r.profile /\ q.save = save
        /\ q.conflicted = r.conflicted /\ q.disposed = r.disposed
        /\ q.publishing = r.publishing /\ q.clicked = r.clicked
        /\ q.answer = r.answer /\ q.shown = r.shown
    BY <1>0 DEF EditorRow
  <2>5. Local(q, drafts)
    BY <1>0, <1>1, <2>1, <2>4 DEF Local, Requests, Saved, Clicked, Payload
  <2>6. editor'[e] = q
    BY <1>0, <2>2 DEF Set
  <2> HIDE DEF q
  <2>7. Shows(e)
    BY <2>4, <2>6 DEF Shows
  <2> QED
    BY <1>1, <2>1, <2>2, <2>3, <2>4, <2>5, <2>7, BrowserKeeps
<1>2. CASE /\ r.publishing \in {"sent", "published"} /\ Set(e, [r EXCEPT !.publishing = "refused"])
           /\ UNCHANGED store
  <2> DEFINE q == [r EXCEPT !.publishing = "refused"]
  <2>1. /\ q \in EditorRow /\ Local(q, drafts) /\ q.publishing = "refused"
        /\ q.profile = r.profile /\ q.save = r.save /\ q.clicked = r.clicked
        /\ q.answer = r.answer /\ q.shown = r.shown
    BY <1>0, <1>2, RefusedKeeps
  <2>2. editor'[e] = q /\ Set(e, q)
    BY <1>0, <1>2 DEF Set
  <2> HIDE DEF q
  <2>3. Shows(e)
    BY <2>1, <2>2 DEF Shows
  <2> QED
    BY <1>2, <2>1, <2>2, <2>3, BrowserKeeps
<1> QED
  BY <1>1, <1>2 DEF Lose

\* Types, what each editor knows and shows, and the audit file are kept by every
\* step and hold in every reachable state.
THEOREM ProfileInvariant == ProfileSpec => []ProfileInv
<1>1. ProfileInit => ProfileInv
  <2> SUFFICES ASSUME ProfileInit PROVE ProfileInv
    OBVIOUS
  <2>1. \A e \in Editor : editor[e] = FreshEditor
    BY DEF ProfileInit
  <2>2. FreshEditor \in EditorRow
    <3>1. NoPayload \in PayloadRow
      BY DEF NoPayload, PayloadRow
    <3>2. NoSave \in SaveRow /\ NoVersion \in AnswerRow
      BY <3>1 DEF NoSave, NoVersion, SaveRow, AnswerRow
    <3>3. -1 \in Int
      OBVIOUS
    <3> QED
      BY <3>2, <3>3 DEF FreshEditor, EditorRow
  <2>3. Types
    BY <2>2 DEF ProfileInit, Types
  <2>4. Locals
    <3>1. Len(drafts) = 0
      BY DEF ProfileInit
    <3> QED
      BY <2>1, <3>1 DEF Locals, Local, Requests, Saved, Clicked, FreshEditor, NoSave
  <2>5. Owned
    BY <2>1 DEF Owned, FreshEditor, NoSave
  <2>6. Answers
    BY <2>1 DEF Answers, AnswersOf, FreshEditor
  <2>7. LinesHaveFiles
    BY PairIsNotEmpty DEF ProfileInit, LinesHaveFiles, Projected, Clean
  <2> QED
    BY <2>3, <2>4, <2>5, <2>6, <2>7 DEF ProfileInv
<1>2. ProfileInv /\ [ProfileNext]_profileVars => ProfileInv'
  <2> SUFFICES ASSUME ProfileInv, [ProfileNext]_profileVars PROVE ProfileInv'
    OBVIOUS
  <2>1. CASE UNCHANGED profileVars
    <3>1. \A p, v : Projected(p, v)' <=> Projected(p, v)
      BY <2>1 DEF profileVars, Projected
    <3>2. \A p, a, c : Good(p, a, c) => Good(p, a, c)'
      BY <2>1 DEF profileVars, Good, Served, Projected
    <3>3. Types' /\ Locals' /\ Owned'
      BY <2>1 DEF ProfileInv, profileVars, Types, Locals, Owned
    <3>4. Answers'
      BY <2>1, <3>2 DEF ProfileInv, profileVars, Answers, AnswersOf
    <3>5. LinesHaveFiles'
      BY <2>1, <3>1 DEF ProfileInv, profileVars, LinesHaveFiles
    <3> QED
      BY <3>3, <3>4, <3>5 DEF ProfileInv
  <2>2. CASE ProfileNext
    BY <2>2, EditKeeps, PressKeeps, AnswersKeep, CreateKeeps, UpdateKeeps, PublishKeeps, LoseKeeps
       DEF ProfileNext, Serve
  <2> QED
    BY <2>1, <2>2
<1> QED
  BY <1>1, <1>2, PTL DEF ProfileSpec

-----------------------------------------------------------------------------
(* Theorems *)

\* What an editor at rest shows as saved is the draft the store has, whatever
\* was typed, lost or answered late.
THEOREM RestIsAlwaysSaved == ProfileSpec => []RestIsSaved
<1>1. ProfileInv => RestIsSaved
  <2> SUFFICES ASSUME ProfileInv, NEW e \in Editor,
                      LET r == editor[e]
                      IN  r.save = NoSave /\ ~r.dirty /\ ~r.conflicted /\ ~r.disposed /\ r.text # 0
               PROVE  LET r == editor[e]
                      IN  r.profile # 0 /\ drafts[r.profile] = [revision |-> r.revision, payload |-> Payload(r)]
    BY DEF RestIsSaved
  <2>1. Saved(editor[e], drafts) /\ editor[e].save.pc = "idle"
    BY DEF ProfileInv, Locals, Local, NoSave
  <2> QED
    BY <2>1 DEF Saved
<1> QED
  BY ProfileInvariant, <1>1, PTL

\* A version an editor shows as published is served as shown, confirmed, and has
\* every edit made before the button was pressed.
THEOREM ShownIsAlwaysServed == ProfileSpec => []ShownIsServed
<1>1. ProfileInv => ShownIsServed
  BY DEF ProfileInv, Answers, AnswersOf, Good, ShownIsServed
<1> QED
  BY ProfileInvariant, <1>1, PTL

\* What an editor tells its teacher of the store is true.
THEOREM EditorAlwaysTellsTruth == ProfileSpec => []EditorTellsTruth
BY RestIsAlwaysSaved, ShownIsAlwaysServed, PTL DEF EditorTellsTruth

\* What is served is a version that has its file and its line.
LEMMA ServedFacts ==
  \A x : x \in ServedVersions <=>
    \E p \in DOMAIN versions : \E v \in DOMAIN versions[p] : Projected(p, v) /\ x = <<p, v, versions[p][v]>>
BY DEF ServedVersions, Served

\* What is served after a publication was served before it, or is its version.
LEMMA AddedIsServed ==
  ASSUME ProfileInv, NEW p, AddsVersion(p)
  PROVE  Shelf!Publish \/ UNCHANGED ServedVersions
<1> DEFINE v == NextVersion(p)
           new == <<p, v, drafts[p].payload>>
<1>0. Types
  BY DEF ProfileInv
<1>1. \A x : x \in ServedVersions' <=>
        \E n \in DOMAIN versions' : \E m \in DOMAIN versions'[n] : Projected(n, m)' /\ x = <<n, m, versions'[n][m]>>
  BY DEF ServedVersions, Served
<1>2. \A x \in ServedVersions : x \in ServedVersions' /\ <<x[1], x[2]>> # <<p, v>>
  <2> SUFFICES ASSUME NEW n \in DOMAIN versions, NEW m \in DOMAIN versions[n], Projected(n, m)
               PROVE  <<n, m, versions[n][m]>> \in ServedVersions' /\ <<n, m>> # <<p, v>>
    BY ServedFacts
  <2>1. /\ n \in DOMAIN versions' /\ m \in DOMAIN versions'[n] /\ versions'[n][m] = versions[n][m]
        /\ <<n, m>> # Torn
    BY <1>0, VersionFacts
  <2>2. Projected(n, m)'
    BY <2>1, AuditFacts DEF AddsVersion
  <2>3. <<n, m>> # <<p, v>>
    BY <1>0, VersionFacts
  <2> QED
    BY <1>1, <2>1, <2>2, <2>3
<1>3. \A x \in ServedVersions' : x \in ServedVersions \/ x = new
  <2> SUFFICES ASSUME NEW n \in DOMAIN versions', NEW m \in DOMAIN versions'[n], Projected(n, m)'
               PROVE  <<n, m, versions'[n][m]>> \in ServedVersions \cup {new}
    BY <1>1
  <2>1. n \in DOMAIN versions /\ <<n, m>> # Torn
    BY <1>0, VersionFacts
  <2>2. CASE n = p /\ m = v
    <3>1. versions'[n][m] = drafts[p].payload
      BY <1>0, <2>2, VersionFacts
    <3> QED
      BY <2>2, <3>1
  <2>3. CASE ~(n = p /\ m = v)
    <3>1. Projected(n, m)
      BY <2>1, <2>3, AuditFacts DEF AddsVersion
    <3>2. m \in DOMAIN versions[n] /\ versions'[n][m] = versions[n][m]
      BY <1>0, <2>1, <2>3, VersionFacts
    <3> QED
      BY <2>1, <3>1, <3>2, ServedFacts
  <2> QED
    BY <2>2, <2>3
<1>4. v \in Nat \ {0}
  BY <1>0, VersionFacts
<1>5. CASE new \in ServedVersions'
  <2>1. ServedVersions' = ServedVersions \cup {new}
    BY <1>2, <1>3, <1>5
  <2>2. new[1] = p /\ new[2] = v
    OBVIOUS
  <2> HIDE DEF new
  <2> QED
    BY <1>2, <1>4, <1>5, <2>1, <2>2 DEF Shelf!Publish
<1>6. CASE new \notin ServedVersions'
  BY <1>2, <1>3, <1>6
<1> QED
  BY <1>5, <1>6

\* The store implements PlanShelf: whatever is cut or lost, a version served once
\* is served for ever with the same content, and no number is used twice.
THEOREM ImplementsPlanShelf == ProfileSpec => KeepsProfiles
<1>1. ProfileInit => Shelf!Init
  BY DEF ProfileInit, Shelf!Init, ServedVersions
<1>2. ProfileInv /\ [ProfileNext]_profileVars => Shelf!Publish \/ UNCHANGED ServedVersions
  <2> SUFFICES ASSUME ProfileInv, [ProfileNext]_profileVars
               PROVE  Shelf!Publish \/ UNCHANGED ServedVersions
    OBVIOUS
  <2>1. ASSUME UNCHANGED <<versions, audit>>
        PROVE  UNCHANGED ServedVersions
    BY <2>1 DEF ServedVersions, Served, Projected
  <2>2. ASSUME NEW e \in Editor, CreateDraft(e)
        PROVE  UNCHANGED ServedVersions
    <3>1. versions \in Seq(Seq(PayloadRow)) /\ versions' = Append(versions, <<>>) /\ audit' = audit
      BY <2>2 DEF ProfileInv, Types, CreateDraft
    <3>2. <<>> \in Seq(PayloadRow)
      OBVIOUS
    <3>3. /\ DOMAIN versions' = DOMAIN versions \cup {Len(versions) + 1}
          /\ versions'[Len(versions) + 1] = <<>> /\ \A n \in DOMAIN versions : versions'[n] = versions[n]
      BY <3>1, <3>2, Appended
    <3>4. \A x : x \in ServedVersions' <=>
            \E n \in DOMAIN versions' : \E m \in DOMAIN versions'[n] : Projected(n, m) /\ x = <<n, m, versions'[n][m]>>
      <4>1. \A n, m : Projected(n, m)' <=> Projected(n, m)
        BY <3>1 DEF Projected
      <4>2. \A x : x \in ServedVersions' <=>
              \E n \in DOMAIN versions' : \E m \in DOMAIN versions'[n] : Projected(n, m)' /\ x = <<n, m, versions'[n][m]>>
        BY DEF ServedVersions, Served
      <4> QED
        BY <4>1, <4>2
    <3>5. DOMAIN <<>> = {}
      OBVIOUS
    <3>6. \A x : x \in ServedVersions' <=> x \in ServedVersions
      BY <3>3, <3>4, <3>5, ServedFacts
    <3> QED
      BY <3>6
  <2>3. ASSUME NEW e \in Editor, PublishDraft(e) \/ CutPublish(e)
        PROVE  Shelf!Publish \/ UNCHANGED ServedVersions
    <3> DEFINE p == editor[e].profile
    <3>1. CASE UNCHANGED <<versions, audit>>
      BY <2>1, <3>1
    <3>2. CASE /\ versions' = [versions EXCEPT ![p] = Append(@, drafts[p].payload)]
               /\ audit' \in CutAppends(audit, <<p, NextVersion(p)>>) /\ drafts' = drafts
      <4>1. p \in DOMAIN versions
        <5>1. p # 0 /\ p \in 0..Len(versions)
          BY <2>3 DEF ProfileInv, Types, Locals, Local, Requests, Clicked, PublishDraft, CutPublish
        <5>2. Len(versions) \in Nat /\ DOMAIN versions = 1..Len(versions)
          BY DEF ProfileInv, Types
        <5> QED
          BY <5>1, <5>2
      <4> QED
        BY <3>2, <4>1, AddedIsServed DEF AddsVersion
    <3>3. Written(Repaired(audit), <<p, NextVersion(p)>>) \in CutAppends(audit, <<p, NextVersion(p)>>)
      BY DEF CutAppends
    <3>4. CASE PublishDraft(e)
      BY <3>1, <3>2, <3>3, <3>4 DEF PublishDraft
    <3>5. CASE CutPublish(e)
      BY <3>2, <3>5 DEF CutPublish
    <3> QED
      BY <2>3, <3>4, <3>5, Zenon
  <2>4. CASE UNCHANGED profileVars
    BY <2>1, <2>4, Zenon DEF profileVars
  <2>5. ASSUME NEW e \in Editor, Edit(e) \/ AskToConfirm(e) \/ Confirm(e) \/ Timer(e) \/ Publish(e)
                                  \/ Dispose(e) \/ Answered(e) \/ Lose(e) \/ UpdateDraft(e)
        PROVE  UNCHANGED <<versions, audit>>
    BY <2>5 DEF Edit, AskToConfirm, Confirm, Timer, Publish, Dispose, Answered, SaveAnswered,
                PublishAnswered, Lose, UpdateDraft, store
  <2> QED
    BY <2>1, <2>2, <2>3, <2>4, <2>5 DEF ProfileNext, Serve
<1> QED
  BY ProfileInvariant, <1>1, <1>2, PTL DEF ProfileSpec, KeepsProfiles, Shelf!Spec

-----------------------------------------------------------------------------
(* The readable logs of one day *)

USE LogAssumption

\* The types of the logs, and of what the threads are at.
Texts == Seq(Event)
Status == {"none", "collecting", "finalizing", "finalized", "deleted"}
Todo == Kinds \union {"reserve", "save", "index", "session"}
StoredRow == [status : Status, events : Nat, path : Stems \union {Absent}]
LogJob == [op : {"idle", "finalize", "append", "delete"}, session : {Absent} \union Session,
           stem : Stems \union {Absent}, text : Texts, todo : SUBSET Todo]

LogTyped ==
  /\ stored \in [Session -> StoredRow]
  /\ index \in [Session -> Stems \union {Absent}]
  /\ file \in [Kinds -> [Stems -> {Absent} \union Texts]]
  /\ thread \in [Writer -> LogJob]
  /\ appended \in [Session -> Nat]

\* What each operation has in hand while it is under way: a finalization its
\* events and either the log the session names or that of the index, an append
\* the log of the index, a deletion the log the session names.
Finalizing(t) ==
  LET work == thread[t]
      s == work.session
  IN  /\ stored[s].status = "finalizing"
      /\ work.text = New(s, stored[s].events)
      /\ "save" \in work.todo /\ work.todo \subseteq {"reserve", "save"} \union Kinds
      /\ IF stored[s].path # Absent THEN work.todo = {"save"} /\ work.stem = stored[s].path
         ELSE IF "reserve" \in work.todo THEN Kinds \subseteq work.todo
         ELSE work.stem = index[s] /\ index[s] # Absent

Appending(t) ==
  LET work == thread[t]
      s == work.session
  IN  /\ work.todo # {} /\ work.todo \subseteq {"reserve"} \union Kinds
      /\ appended[s] > 0
      /\ IF "reserve" \in work.todo THEN Kinds \subseteq work.todo
         ELSE work.stem = index[s] /\ index[s] # Absent

Erasing(t) ==
  LET work == thread[t]
      s == work.session
  IN  /\ stored[s].status \notin {"none", "deleted"}
      /\ "session" \in work.todo /\ work.todo \subseteq {"index", "session"} \union Kinds
      /\ work.stem = stored[s].path
      /\ (work.stem = Absent => work.todo \subseteq {"index", "session"})
      /\ ("index" \notin work.todo /\ work.stem # Absent => index[s] = Absent)

\* Every thread is at a step of an operation it may be at, and two that hold
\* the lock of a session hold it of different ones.
JobsShaped ==
  /\ \A t \in Writer :
       /\ thread[t].op = "idle" => thread[t] = Idle
       /\ thread[t].op # "idle" => thread[t].session \in Session
       /\ thread[t].op = "finalize" => Finalizing(t)
       /\ thread[t].op = "append" => Appending(t)
       /\ thread[t].op = "delete" => Erasing(t)
  /\ thread["worker"].op \in {"idle", "finalize"}
  /\ thread["worker"].op = "finalize" /\ thread["main"].op \in {"finalize", "delete"}
       => thread["worker"].session # thread["main"].session

\* No stem is given twice.
IndexApart == \A r, s \in Session : r # s /\ index[r] # Absent => index[r] # index[s]

\* A session names a log when it is finalized, and never before it began or
\* after it went.
StatusPath ==
  \A s \in Session : /\ stored[s].status \in {"none", "deleted"} => stored[s].path = Absent
                     /\ stored[s].status = "finalized" => stored[s].path # Absent

\* Operations of s that were cut; sessions of which nothing was, or no deletion
\* of any.
CutIn(s) == \E c \in cut : c.session = s
SaveCut(s) == \E c \in cut : c.session = s /\ c.op = "save"
Trusted(s) == ~DeletionCut \/ (~Touched(s) /\ ~CutIn(s))

\* The deletion of s and its log is under way; it has left the index.
Dying(s) == thread["main"].op = "delete" /\ thread["main"].session = s /\ thread["main"].stem # Absent
Unindexed(s) == Dying(s) /\ "index" \notin thread["main"].todo

\* The log a session names is that of the index until its deletion takes it out,
\* and is nobody else's even then: what an unlink removes is the session's own.
PathsKept ==
  \A s \in Session : Trusted(s) /\ stored[s].path # Absent =>
     index[s] = IF Unindexed(s) THEN Absent ELSE stored[s].path
PathsApart ==
  \A r, s \in Session : r # s /\ Trusted(r) /\ stored[r].path # Absent => index[s] # stored[r].path

\* The events of a session are in the log of the index, and while it is deleted
\* in the files not yet removed; an append has only its session's in hand.
AtHome(k, n, s) ==
  IF Dying(s) THEN n = thread["main"].stem /\ k \in thread["main"].todo ELSE n = index[s]
EventsAtHome ==
  \A s \in Session, k \in Kinds, n \in Stems :
     Trusted(s) => \A i \in DOMAIN Text(k, n) : Text(k, n)[i][1] = s => AtHome(k, n, s)
OwnText ==
  LET work == thread["main"]
  IN  work.op = "append" /\ "reserve" \notin work.todo =>
        \A i \in DOMAIN work.text : Trusted(work.text[i][1]) => work.text[i][1] = work.session

\* An entry of the index is named by its session or being written, and a session
\* that goes on recording names a log only if its last save failed.
Writing(s) ==
  \E t \in Writer : thread[t].op = "finalize" /\ thread[t].session = s /\ "reserve" \notin thread[t].todo
IndexMeansLog ==
  \A s \in Session : ~Touched(s) /\ ~CutIn(s) /\ index[s] # Absent => stored[s].path # Absent \/ Writing(s)
PathMeansSaved ==
  \A s \in Session : stored[s].path # Absent /\ stored[s].status \in {"collecting", "finalizing"} => SaveCut(s)

\* The log of a finalized session is whole, and that of a finalizing one as far as
\* it has been written.
Plain(s) == ~Touched(s) /\ ~DeletionCut /\ ~SaveCut(s)
Whole ==
  \A s \in Session : Plain(s) /\ stored[s].status = "finalized" /\ ~Unindexed(s) =>
     \A k \in Kinds : file[k][stored[s].path] = New(s, stored[s].events)
PartWritten ==
  \A t \in Writer : thread[t].op = "finalize" /\ "reserve" \notin thread[t].todo /\ Plain(thread[t].session) =>
     \A k \in Kinds \ thread[t].todo : file[k][thread[t].stem] = thread[t].text

\* The log of the older page holds what it sent; while an append is under way,
\* the files still to be written hold all but the last event.
AppendedTo(s) == thread["main"].op = "append" /\ thread["main"].session = s
Before(s) == Old(s, appended[s] - 1)
SentIsKept ==
  \A s \in Session : stored[s].status = "none" /\ ~DeletionCut /\ ~CutIn(s) =>
     IF AppendedTo(s)
     THEN IF "reserve" \in thread["main"].todo
          THEN IF index[s] = Absent THEN appended[s] = 1 ELSE \A k \in Kinds : Text(k, index[s]) = Before(s)
          ELSE /\ thread["main"].text = Old(s, appended[s])
               /\ \A k \in Kinds : Text(k, index[s]) =
                    IF k \in thread["main"].todo THEN Before(s) ELSE Old(s, appended[s])
     ELSE IF index[s] = Absent THEN appended[s] = 0 ELSE \A k \in Kinds : Text(k, index[s]) = Old(s, appended[s])

\* The invariant behind the theorems about the logs.
LogIInv ==
  /\ LogTyped /\ JobsShaped /\ IndexApart /\ StatusPath /\ PathsKept /\ PathsApart
  /\ EventsAtHome /\ OwnText /\ IndexMeansLog /\ PathMeansSaved /\ Whole /\ PartWritten /\ SentIsKept

-----------------------------------------------------------------------------
\* Absent is no stem.
LEMMA NoStem == Absent \notin Stems
  BY DEF Stems

\* What the order of the steps means for what is left to do.
LEMMA StepOrder ==
  ASSUME NEW t \in Writer
  PROVE  /\ At(t, "finalize", "save") /\ thread[t].todo \subseteq {"reserve", "save"} \union Kinds
              => thread[t].todo = {"save"}
         /\ At(t, "delete", "session") /\ thread[t].todo \subseteq {"index", "session"} \union Kinds
              => thread[t].todo = {"session"}
         /\ thread[t].op = "finalize" /\ thread[t].todo = {"save"} => At(t, "finalize", "save")
         /\ /\ thread[t].op = "finalize" /\ "reserve" \in thread[t].todo
            /\ thread[t].todo \subseteq {"reserve", "save"} \union Kinds
            => At(t, "finalize", "reserve")
         /\ /\ thread[t].op = "delete" /\ "index" \in thread[t].todo
            /\ thread[t].todo \subseteq {"index", "session"} \union Kinds
            => At(t, "delete", "index")
         /\ \A k \in Kinds :
              /\ At(t, "finalize", k) => "reserve" \notin thread[t].todo
              /\ At(t, "append", k) => "reserve" \notin thread[t].todo
              /\ At(t, "delete", k) => "index" \notin thread[t].todo
<1>1. /\ Order["finalize"]["reserve"] = 1 /\ Order["finalize"]["save"] = 6
      /\ \A k \in Kinds : Order["finalize"][k] \in 2 .. 5
  BY DEF Order, Kinds
<1>2. /\ Order["append"]["reserve"] = 1
      /\ \A k \in Kinds : Order["append"][k] \in 2 .. 5
  BY DEF Order, Kinds
<1>3. /\ Order["delete"]["index"] = 1 /\ Order["delete"]["session"] = 6
      /\ \A k \in Kinds : Order["delete"][k] \in 2 .. 5
  BY DEF Order, Kinds
<1>4. ASSUME At(t, "finalize", "save"), thread[t].todo \subseteq {"reserve", "save"} \union Kinds
      PROVE  thread[t].todo = {"save"}
  BY <1>1, <1>4 DEF At
<1>5. ASSUME At(t, "delete", "session"), thread[t].todo \subseteq {"index", "session"} \union Kinds
      PROVE  thread[t].todo = {"session"}
  BY <1>3, <1>5 DEF At
<1>6. ASSUME NEW k \in Kinds, At(t, "finalize", k)
      PROVE  "reserve" \notin thread[t].todo
  BY <1>1, <1>6 DEF At
<1>7. ASSUME NEW k \in Kinds, At(t, "append", k)
      PROVE  "reserve" \notin thread[t].todo
  BY <1>2, <1>7 DEF At
<1>8. ASSUME NEW k \in Kinds, At(t, "delete", k)
      PROVE  "index" \notin thread[t].todo
  BY <1>3, <1>8 DEF At
<1>9. ASSUME thread[t].op = "finalize", thread[t].todo = {"save"}
      PROVE  At(t, "finalize", "save")
  BY <1>1, <1>9 DEF At
<1>10. ASSUME thread[t].op = "finalize", "reserve" \in thread[t].todo,
              thread[t].todo \subseteq {"reserve", "save"} \union Kinds
       PROVE  At(t, "finalize", "reserve")
  BY <1>1, <1>10 DEF At
<1>11. ASSUME thread[t].op = "delete", "index" \in thread[t].todo,
              thread[t].todo \subseteq {"index", "session"} \union Kinds
       PROVE  At(t, "delete", "index")
  BY <1>3, <1>11 DEF At
<1> QED
  BY <1>4, <1>5, <1>6, <1>7, <1>8, <1>9, <1>10, <1>11

\* A set of numbers has a least one.
LEMMA LeastNumber ==
  ASSUME NEW T, T \subseteq Nat, T # {}
  PROVE  \E x \in T : \A y \in T : x <= y
<1> DEFINE R == OpToRel(<, Nat)
<1>1. IsWellFoundedOn(R, Nat)
  BY NatLessThanWellFounded
<1>2. \A x, y \in Nat : <<y, x>> \in R <=> y < x
  BY DEF OpToRel
<1> HIDE DEF R
<1>3. PICK x \in T : \A y \in T : <<y, x>> \notin R
  BY <1>1, WFMin
<1>4. \A y \in T : x \in Nat /\ y \in Nat /\ ~(y < x)
  BY <1>2, <1>3
<1>5. \A y \in T : x <= y
  BY <1>4
<1> QED
  BY <1>5

\* A stem that is given anew is vacant.
LEMMA NewStem ==
  ASSUME NEW s \in Session, index[s] = Absent, \E n \in Stems : Vacant(n)
  PROVE  StemOf(s) \in Stems /\ Vacant(StemOf(s))
<1> DEFINE V == {n \in Stems : Vacant(n)}
<1>1. V # {} /\ V \in SUBSET Nat
  BY DEF Stems
<1>2. \E n \in V : \A m \in V : n <= m
  BY <1>1, LeastNumber
<1>3. Min(V) \in V
  BY <1>2 DEF Min
<1> QED
  BY <1>3 DEF StemOf

\* The log of n events.
LEMMA NewLog ==
  ASSUME NEW s \in Session, NEW n \in Nat
  PROVE  /\ New(s, n) \in Texts /\ \A i \in DOMAIN New(s, n) : New(s, n)[i][1] = s
         /\ Old(s, n) \in Texts /\ Len(Old(s, n)) = n
         /\ \A i \in DOMAIN Old(s, n) : Old(s, n)[i][1] = s
<1>1. New(s, n) \in [1 .. n -> Event] /\ Old(s, n) \in [1 .. n -> Event]
  BY DEF New, Old, Event
<1>2. New(s, n) \in Texts /\ Old(s, n) \in Texts
  BY <1>1 DEF Texts
<1>3. Len(Old(s, n)) = n
  BY <1>1, <1>2 DEF Texts
<1> QED
  BY <1>2, <1>3 DEF New, Old

\* One more event of the older page.
LEMMA OneMore ==
  ASSUME NEW s \in Session, NEW n \in Nat, n > 0
  PROVE  Append(Old(s, n - 1), <<s, "old", n>>) = Old(s, n)
<1> DEFINE a == Old(s, n - 1)
           b == Append(a, <<s, "old", n>>)
           c == Old(s, n)
<1>1. a \in Texts /\ Len(a) = n - 1 /\ c \in Texts /\ Len(c) = n
  BY NewLog
<1>2. <<s, "old", n>> \in Event
  BY DEF Event
<1>3. b \in Texts /\ Len(b) = n
  BY <1>1, <1>2 DEF Texts
<1>4. \A i \in 1 .. n : b[i] = c[i]
  <2> SUFFICES ASSUME NEW i \in 1 .. n PROVE b[i] = c[i]
    OBVIOUS
  <2>1. c[i] = <<s, "old", i>>
    BY DEF Old
  <2>2. CASE i = n
    BY <1>1, <1>2, <2>1, <2>2 DEF Texts
  <2>3. CASE i # n
    <3>1. i \in 1 .. n - 1 /\ b[i] = a[i]
      BY <1>1, <1>2, <2>3 DEF Texts
    <3>2. a[i] = <<s, "old", i>>
      BY <3>1 DEF Old
    <3> QED
      BY <2>1, <3>1, <3>2
  <2> QED
    BY <2>2, <2>3
<1> HIDE DEF a, b, c
<1>5. b = c
  BY <1>1, <1>3, <1>4, SeqEqual DEF Texts
<1> QED
  BY <1>5 DEF a, b, c

\* What files hold.
LEMMA TextFacts ==
  ASSUME LogTyped, NEW k \in Kinds, NEW n \in Stems
  PROVE  /\ Text(k, n) \in Texts /\ \A i \in DOMAIN Text(k, n) : Text(k, n)[i][1] \in Session
<1>1. file[k][n] \in {Absent} \union Texts
  BY DEF LogTyped
<1>2. Text(k, n) \in Texts
  BY <1>1 DEF Text, Texts
<1>3. \A i \in DOMAIN Text(k, n) : Text(k, n)[i] \in Event
  BY <1>2 DEF Texts
<1> QED
  BY <1>2, <1>3 DEF Event

-----------------------------------------------------------------------------
\* The steps keep the invariant.

\* Trust is lost and never gained.
LEMMA TrustShrinks ==
  ASSUME NEW s \in Session, appended[s] \in Nat, appended'[s] \in Nat, appended[s] <= appended'[s],
         cut \subseteq cut'
  PROVE  /\ Trusted(s)' => Trusted(s)
         /\ Plain(s)' => Plain(s)
         /\ DeletionCut => DeletionCut'
         /\ CutIn(s) => CutIn(s)'
         /\ SaveCut(s) => SaveCut(s)'
         /\ Touched(s) => Touched(s)'
<1>1. DeletionCut => DeletionCut'
  BY DEF DeletionCut
<1>2. (CutIn(s) => CutIn(s)') /\ (SaveCut(s) => SaveCut(s)')
  BY DEF CutIn, SaveCut
<1>3. Touched(s) => Touched(s)'
  BY DEF Touched
<1> QED
  BY <1>1, <1>2, <1>3 DEF Trusted, Plain

\* The older page and those that were cut are as they were.
Calm == appended' = appended /\ cut' = cut

LEMMA CalmFacts ==
  ASSUME Calm, NEW s
  PROVE  /\ Trusted(s)' <=> Trusted(s)
         /\ Plain(s)' <=> Plain(s)
         /\ DeletionCut' <=> DeletionCut
         /\ CutIn(s)' <=> CutIn(s)
         /\ SaveCut(s)' <=> SaveCut(s)
         /\ Touched(s)' <=> Touched(s)
  BY DEF Calm, Trusted, Plain, DeletionCut, CutIn, SaveCut, Touched

\* A session that nobody is finalizing or deleting goes on collecting.
LEMMA SessionTurns ==
  ASSUME LogIInv, NEW s \in Session, ~Locked(s), Calm,
         index' = index, file' = file, thread' = thread,
         stored' \in [Session -> StoredRow], \A r \in Session \ {s} : stored'[r] = stored[r],
         stored'[s].path = stored[s].path,
         stored[s].status \in {"collecting", "finalizing"},
         stored'[s].status \in {"collecting", "finalizing"}
  PROVE  LogIInv'
<1> USE DEF LogIInv
<1>2. LogTyped'
  BY DEF LogTyped, Calm
<1>3. JobsShaped'
  <2>1. \A t \in Writer : thread[t].op \in {"finalize", "delete"} => thread[t].session \in Session \ {s}
    BY DEF Locked, JobsShaped
  <2> QED
    BY <2>1 DEF JobsShaped, Finalizing, Appending, Erasing, Calm
<1>4. IndexApart' /\ StatusPath'
  BY DEF IndexApart, StatusPath
<1>5. \A r \in Session : (Dying(r)' <=> Dying(r)) /\ (Unindexed(r)' <=> Unindexed(r))
  BY DEF Dying, Unindexed
<1>6. PathsKept' /\ PathsApart'
  BY <1>5, CalmFacts DEF PathsKept, PathsApart
<1>7. EventsAtHome'
  BY <1>5, CalmFacts DEF EventsAtHome, AtHome, Text
<1>8. OwnText'
  BY CalmFacts DEF OwnText
<1>9. IndexMeansLog' /\ PathMeansSaved'
  BY CalmFacts DEF IndexMeansLog, PathMeansSaved, Writing
<1>10. Whole' /\ PartWritten'
  BY <1>5, CalmFacts DEF Whole, PartWritten, JobsShaped
<1>11. SentIsKept'
  BY CalmFacts DEF SentIsKept, AppendedTo, Before, Text, Calm
<1> QED
  BY <1>2, <1>3, <1>4, <1>6, <1>7, <1>8, <1>9, <1>10, <1>11

\* A recording goes on.
LEMMA RecordKeeps ==
  ASSUME LogIInv, NEW s \in Session, Record(s)
  PROVE  LogIInv'
<1>1. stored \in [Session -> StoredRow] /\ stored[s] \in StoredRow
  BY DEF LogIInv, LogTyped
<1>2. /\ stored[s].status = "collecting" /\ stored[s].events \in Nat /\ ~Locked(s) /\ Calm
      /\ stored' = [stored EXCEPT ![s].events = @ + 1]
      /\ index' = index /\ file' = file /\ thread' = thread
  BY <1>1 DEF Record, StoredRow, Calm
<1> DEFINE row == [stored[s] EXCEPT !.events = @ + 1]
<1>3. row \in StoredRow /\ row.status = stored[s].status /\ row.path = stored[s].path
  BY <1>1, <1>2 DEF StoredRow
<1>4. stored' = [stored EXCEPT ![s] = row]
  BY <1>2
<1> HIDE DEF row
<1>5. /\ stored' \in [Session -> StoredRow] /\ stored'[s] = row
      /\ \A r \in Session \ {s} : stored'[r] = stored[r]
  BY <1>1, <1>3, <1>4
<1> QED
  BY <1>2, <1>3, <1>5, SessionTurns

\* A session whose finalization died is taken back.
LEMMA RecoverKeeps ==
  ASSUME LogIInv, NEW s \in Session, Recover(s)
  PROVE  LogIInv'
<1>1. stored \in [Session -> StoredRow] /\ stored[s] \in StoredRow
  BY DEF LogIInv, LogTyped
<1>2. /\ stored[s].status = "finalizing" /\ ~Locked(s) /\ Calm
      /\ stored' = [stored EXCEPT ![s].status = "collecting"]
      /\ index' = index /\ file' = file /\ thread' = thread
  BY <1>1 DEF Recover, Calm
<1> DEFINE row == [stored[s] EXCEPT !.status = "collecting"]
<1>3. row \in StoredRow /\ row.status = "collecting" /\ row.path = stored[s].path
  BY <1>1 DEF StoredRow, Status
<1>4. stored' = [stored EXCEPT ![s] = row]
  BY <1>2
<1> HIDE DEF row
<1>5. /\ stored' \in [Session -> StoredRow] /\ stored'[s] = row
      /\ \A r \in Session \ {s} : stored'[r] = stored[r]
  BY <1>1, <1>3, <1>4
<1> QED
  BY <1>2, <1>3, <1>5, SessionTurns

\* The deletion and the append under way are those of the main thread.
LEMMA MainStays ==
  ASSUME \/ thread'["main"] = thread["main"]
         \/ thread["main"].op \in {"idle", "finalize"} /\ thread'["main"].op \in {"idle", "finalize"},
         NEW s
  PROVE  /\ Dying(s)' <=> Dying(s)
         /\ Unindexed(s)' <=> Unindexed(s)
         /\ AppendedTo(s)' <=> AppendedTo(s)
         /\ Dying(s) \/ AppendedTo(s) => thread'["main"] = thread["main"]
         /\ thread'["main"].op = "append" => thread'["main"] = thread["main"]
  BY DEF Dying, Unindexed, AppendedTo

\* A finalization begins.
LEMMA FinalizeBeginKeeps ==
  ASSUME LogIInv, NEW t \in Writer, NEW s \in Session, FinalizeBegin(t, s)
  PROVE  LogIInv'
<1> USE DEF LogIInv
<1> DEFINE work == [op |-> "finalize", session |-> s, stem |-> stored[s].path,
                   text |-> New(s, stored[s].events),
                   todo |-> IF stored[s].path # Absent THEN {"save"}
                            ELSE {"reserve", "save"} \union Kinds]
           row == [stored[s] EXCEPT !.status = "finalizing"]
<1>0. /\ Calm /\ index' = index /\ file' = file /\ ~Locked(s) /\ thread[t] = Idle
      /\ stored[s].status = "collecting" /\ thread' = [thread EXCEPT ![t] = work]
      /\ stored' = [stored EXCEPT ![s] = row]
  BY DEF FinalizeBegin, Calm, Rests
<1>1. stored \in [Session -> StoredRow] /\ stored[s] \in StoredRow /\ thread \in [Writer -> LogJob]
  BY DEF LogTyped
<1>2. /\ row \in StoredRow /\ row.status = "finalizing" /\ row.path = stored[s].path
      /\ row.events = stored[s].events
  BY <1>1 DEF StoredRow, Status
<1>3. /\ work \in LogJob /\ work.op = "finalize" /\ work.session = s /\ work.stem = stored[s].path
      /\ work.text = New(s, stored[s].events)
      /\ work.todo = IF stored[s].path # Absent THEN {"save"} ELSE {"reserve", "save"} \union Kinds
  BY <1>1, NewLog DEF LogJob, StoredRow, Todo, Kinds
<1> HIDE DEF work, row
<1>4. /\ stored' \in [Session -> StoredRow] /\ stored'[s] = row
      /\ \A r \in Session \ {s} : stored'[r] = stored[r]
      /\ thread' \in [Writer -> LogJob] /\ thread'[t] = work
      /\ \A u \in Writer \ {t} : thread'[u] = thread[u]
  BY <1>0, <1>1, <1>2, <1>3
<1>5. /\ thread[t].op = "idle"
      /\ \A u \in Writer : thread[u].op \in {"finalize", "delete"} => thread[u].session \in Session \ {s}
  BY <1>0 DEF Idle, Locked, JobsShaped
<1>6. /\ "main" \in Writer
      /\ \/ thread'["main"] = thread["main"]
         \/ thread["main"].op \in {"idle", "finalize"} /\ thread'["main"].op \in {"idle", "finalize"}
  BY <1>3, <1>4, <1>5 DEF Writer
<1>7. LogTyped'
  BY <1>0, <1>4 DEF LogTyped, Calm
<1>8. JobsShaped'
  <2>1. Finalizing(t)'
    BY <1>2, <1>3, <1>4 DEF Finalizing
  <2>2. ASSUME NEW u \in Writer \ {t}
        PROVE  /\ thread'[u].op = "idle" => thread'[u] = Idle
               /\ thread'[u].op # "idle" => thread'[u].session \in Session
               /\ thread'[u].op = "finalize" => Finalizing(u)'
               /\ thread'[u].op = "append" => Appending(u)'
               /\ thread'[u].op = "delete" => Erasing(u)'
    BY <1>0, <1>4, <1>5 DEF JobsShaped, Finalizing, Appending, Erasing, Calm
  <2>3. /\ thread'["worker"].op \in {"idle", "finalize"}
        /\ thread'["worker"].op = "finalize" /\ thread'["main"].op \in {"finalize", "delete"}
             => thread'["worker"].session # thread'["main"].session
    BY <1>3, <1>4, <1>5 DEF JobsShaped, Writer
  <2> QED
    BY <1>3, <1>4, <2>1, <2>2, <2>3 DEF JobsShaped
<1>9. IndexApart' /\ StatusPath'
  BY <1>0, <1>2, <1>4 DEF IndexApart, StatusPath
<1>10. \A r \in Session : stored'[r].path = stored[r].path
  BY <1>2, <1>4
<1>11. PathsKept' /\ PathsApart'
  BY <1>0, <1>6, <1>10, MainStays, CalmFacts DEF PathsKept, PathsApart
<1>12. EventsAtHome'
  BY <1>0, <1>6, MainStays, CalmFacts DEF EventsAtHome, AtHome, Text
<1>13. OwnText'
  BY <1>0, <1>6, MainStays, CalmFacts DEF OwnText
<1>14. IndexMeansLog'
  <2>1. \A r \in Session : Writing(r) => Writing(r)'
    BY <1>4, <1>5 DEF Writing
  <2> QED
    BY <1>0, <1>10, <2>1, CalmFacts DEF IndexMeansLog
<1>15. PathMeansSaved'
  BY <1>0, <1>2, <1>4, CalmFacts DEF PathMeansSaved
<1>16. Whole'
  BY <1>0, <1>2, <1>4, <1>6, MainStays, CalmFacts DEF Whole
<1>17. PartWritten'
  <2>1. "reserve" \notin work.todo => ~Plain(s)
    BY <1>0, <1>3 DEF PathMeansSaved, Plain
  <2> QED
    BY <1>0, <1>3, <1>4, <2>1, CalmFacts DEF PartWritten
<1>18. SentIsKept'
  BY <1>0, <1>2, <1>4, <1>6, MainStays, CalmFacts DEF SentIsKept, Before, Text, Calm
<1> QED
  BY <1>7, <1>8, <1>9, <1>11, <1>12, <1>13, <1>14, <1>15, <1>16, <1>17, <1>18

\* The older page sends an event.
LEMMA AppendBeginKeeps ==
  ASSUME LogIInv, NEW s \in Session, AppendBegin(s)
  PROVE  LogIInv'
<1> USE DEF LogIInv
<1> DEFINE work == [op |-> "append", session |-> s, stem |-> Absent, text |-> <<>>,
                   todo |-> {"reserve"} \union Kinds]
<1>0. /\ stored' = stored /\ index' = index /\ file' = file /\ cut' = cut /\ thread["main"] = Idle
      /\ thread' = [thread EXCEPT !["main"] = work]
      /\ appended' = [appended EXCEPT ![s] = @ + 1]
  BY DEF AppendBegin, Rests
<1>1. /\ thread \in [Writer -> LogJob] /\ appended \in [Session -> Nat] /\ "main" \in Writer
      /\ "worker" \in Writer /\ "main" # "worker"
  BY DEF LogTyped, Writer
<1>2. /\ work \in LogJob /\ work.op = "append" /\ work.session = s
      /\ work.todo = {"reserve"} \union Kinds
  BY DEF LogJob, Todo, Kinds, Texts
<1> HIDE DEF work
<1>3. /\ thread' \in [Writer -> LogJob] /\ thread'["main"] = work
      /\ \A u \in Writer \ {"main"} : thread'[u] = thread[u]
      /\ appended' \in [Session -> Nat] /\ appended'[s] = appended[s] + 1
      /\ \A r \in Session \ {s} : appended'[r] = appended[r]
      /\ thread["main"].op = "idle"
  BY <1>0, <1>1, <1>2 DEF Idle
<1>4. \A r \in Session :
        /\ Trusted(r)' => Trusted(r)
        /\ Plain(r)' => Plain(r)
        /\ Touched(r) => Touched(r)'
        /\ CutIn(r)' <=> CutIn(r)
        /\ SaveCut(r)' <=> SaveCut(r)
        /\ DeletionCut' <=> DeletionCut
  <2> SUFFICES ASSUME NEW r \in Session
               PROVE  /\ Trusted(r)' => Trusted(r)
                      /\ Plain(r)' => Plain(r)
                      /\ Touched(r) => Touched(r)'
                      /\ CutIn(r)' <=> CutIn(r)
                      /\ SaveCut(r)' <=> SaveCut(r)
                      /\ DeletionCut' <=> DeletionCut
    OBVIOUS
  <2>1. appended[r] \in Nat /\ appended'[r] \in Nat /\ appended[r] <= appended'[r]
    BY <1>1, <1>3
  <2> QED
    BY <1>0, <2>1, TrustShrinks DEF CutIn, SaveCut, DeletionCut
<1>5. Touched(s)'
  BY <1>1, <1>3 DEF Touched
<1>6. \A r : ~Dying(r) /\ ~Dying(r)' /\ ~Unindexed(r) /\ ~Unindexed(r)' /\ ~AppendedTo(r)
  BY <1>2, <1>3 DEF Dying, Unindexed, AppendedTo
<1>7. LogTyped'
  BY <1>0, <1>3 DEF LogTyped
<1>8. JobsShaped'
  <2>1. Appending("main")'
    BY <1>1, <1>2, <1>3 DEF Appending
  <2>2. thread["worker"].op = "finalize" => Finalizing("worker")'
    BY <1>0, <1>1, <1>3 DEF JobsShaped, Finalizing
  <2> QED
    BY <1>1, <1>2, <1>3, <2>1, <2>2 DEF JobsShaped, Writer
<1>9. IndexApart' /\ StatusPath'
  BY <1>0 DEF IndexApart, StatusPath
<1>10. PathsKept' /\ PathsApart'
  BY <1>0, <1>4, <1>6 DEF PathsKept, PathsApart
<1>11. EventsAtHome'
  BY <1>0, <1>4, <1>6 DEF EventsAtHome, AtHome, Text
<1>12. OwnText'
  BY <1>2, <1>3 DEF OwnText
<1>13. IndexMeansLog'
  <2>1. \A r \in Session : Writing(r) => Writing(r)'
    BY <1>3 DEF Writing
  <2> QED
    BY <1>0, <1>4, <2>1 DEF IndexMeansLog
<1>14. PathMeansSaved'
  BY <1>0, <1>4 DEF PathMeansSaved
<1>15. Whole'
  BY <1>0, <1>4, <1>6 DEF Whole
<1>16. PartWritten'
  <2>1. \A t \in Writer : thread'[t].op = "finalize" => thread'[t] = thread[t] /\ thread[t].session \in Session
    BY <1>2, <1>3 DEF JobsShaped
  <2> QED
    BY <1>0, <1>4, <2>1 DEF PartWritten
<1>17. SentIsKept'
  <2> SUFFICES ASSUME NEW r \in Session, stored[r].status = "none", ~DeletionCut, ~CutIn(r)
               PROVE  IF AppendedTo(r)'
                      THEN IF "reserve" \in thread'["main"].todo
                           THEN IF index[r] = Absent THEN appended'[r] = 1
                                ELSE \A k \in Kinds : Text(k, index[r]) = Old(r, appended'[r] - 1)
                           ELSE FALSE
                      ELSE IF index[r] = Absent THEN appended'[r] = 0
                           ELSE \A k \in Kinds : Text(k, index[r]) = Old(r, appended'[r])
    <3>1. "reserve" \in thread'["main"].todo
      BY <1>2, <1>3
    <3> QED
      BY <1>0, <1>4, <3>1 DEF SentIsKept, Before, Text
  <2>1. IF index[r] = Absent THEN appended[r] = 0
        ELSE \A k \in Kinds : Text(k, index[r]) = Old(r, appended[r])
    BY <1>6 DEF SentIsKept
  <2>2. AppendedTo(r)' <=> r = s
    BY <1>2, <1>3 DEF AppendedTo
  <2>3. "reserve" \in thread'["main"].todo
    BY <1>2, <1>3
  <2>4. CASE r = s
    <3>1. appended[s] \in Nat /\ appended'[s] - 1 = appended[s] /\ (appended[s] = 0 => appended'[s] = 1)
      BY <1>1, <1>3
    <3> QED
      BY <2>1, <2>2, <2>3, <2>4, <3>1
  <2>5. CASE r # s
    BY <1>3, <2>1, <2>2, <2>5
  <2> QED
    BY <2>4, <2>5
<1> QED
  BY <1>7, <1>8, <1>9, <1>10, <1>11, <1>12, <1>13, <1>14, <1>15, <1>16, <1>17

\* A deletion begins.
LEMMA DeleteBeginKeeps ==
  ASSUME LogIInv, NEW s \in Session, DeleteBegin(s)
  PROVE  LogIInv'
<1> USE DEF LogIInv
<1> DEFINE path == stored[s].path
           There == {k \in Kinds : path # Absent /\ file[k][path] # Absent}
           work == [op |-> "delete", session |-> s, stem |-> path, text |-> <<>>,
                   todo |-> {"index", "session"} \union There]
<1>0. /\ Calm /\ stored' = stored /\ index' = index /\ file' = file /\ thread["main"] = Idle /\ ~Locked(s)
      /\ stored[s].status \notin {"none", "deleted"}
      /\ thread' = [thread EXCEPT !["main"] = work]
  BY DEF DeleteBegin, Rests, Calm
<1>1. /\ thread \in [Writer -> LogJob] /\ "main" \in Writer
      /\ "worker" \in Writer /\ "main" # "worker" /\ path \in Stems \union {Absent}
      /\ thread["main"].op = "idle"
  BY <1>0 DEF LogTyped, StoredRow, Writer, Idle
<1>2. /\ work \in LogJob /\ work.op = "delete" /\ work.session = s /\ work.stem = path
      /\ work.todo = {"index", "session"} \union There /\ There \subseteq Kinds
      /\ path = Absent => There = {}
  BY <1>1 DEF LogJob, Todo, Kinds, Texts
<1> HIDE DEF work
<1>3. /\ thread' \in [Writer -> LogJob] /\ thread'["main"] = work
      /\ \A u \in Writer \ {"main"} : thread'[u] = thread[u]
  BY <1>0, <1>1, <1>2
<1>4. /\ \A r : ~Dying(r) /\ ~Unindexed(r) /\ ~Unindexed(r)' /\ ~AppendedTo(r) /\ ~AppendedTo(r)'
      /\ \A r : Dying(r)' <=> r = s /\ path # Absent
  BY <1>1, <1>2, <1>3 DEF Dying, Unindexed, AppendedTo
<1>5. LogTyped'
  BY <1>0, <1>3 DEF LogTyped, Calm
<1>6. JobsShaped'
  <2>1. Erasing("main")'
    BY <1>0, <1>1, <1>2, <1>3 DEF Erasing, Kinds
  <2>2. thread["worker"].op = "finalize" => Finalizing("worker")' /\ thread["worker"].session # s
    BY <1>0, <1>1, <1>3 DEF JobsShaped, Finalizing, Locked
  <2> QED
    BY <1>1, <1>2, <1>3, <2>1, <2>2 DEF JobsShaped, Writer
<1>7. IndexApart' /\ StatusPath'
  BY <1>0 DEF IndexApart, StatusPath
<1>8. PathsKept' /\ PathsApart'
  BY <1>0, <1>4, CalmFacts DEF PathsKept, PathsApart
<1>9. EventsAtHome'
  <2> SUFFICES ASSUME NEW r \in Session, NEW k \in Kinds, NEW n \in Stems, Trusted(r),
                      NEW i \in DOMAIN Text(k, n), Text(k, n)[i][1] = r
               PROVE  AtHome(k, n, r)'
    BY <1>0, CalmFacts DEF EventsAtHome, Text
  <2>1. n = index[r]
    BY <1>4 DEF EventsAtHome, AtHome
  <2>2. CASE r = s /\ path # Absent
    <3>1. n = path
      BY <1>4, <2>1, <2>2 DEF PathsKept
    <3>2. file[k][n] # Absent
      BY DEF Text
    <3> QED
      BY <1>2, <1>3, <1>4, <2>2, <3>1, <3>2 DEF AtHome
  <2>3. CASE ~(r = s /\ path # Absent)
    BY <1>0, <1>4, <2>1, <2>3 DEF AtHome
  <2> QED
    BY <2>2, <2>3
<1>10. OwnText'
  BY <1>2, <1>3 DEF OwnText
<1>11. IndexMeansLog'
  <2>1. \A r \in Session : Writing(r) => Writing(r)'
    BY <1>1, <1>3 DEF Writing
  <2> QED
    BY <1>0, <2>1, CalmFacts DEF IndexMeansLog
<1>12. PathMeansSaved'
  BY <1>0, CalmFacts DEF PathMeansSaved
<1>13. Whole'
  BY <1>0, <1>4, CalmFacts DEF Whole
<1>14. PartWritten'
  <2>1. \A t \in Writer : thread'[t].op = "finalize" => thread'[t] = thread[t]
    BY <1>2, <1>3
  <2> QED
    BY <1>0, <2>1, CalmFacts DEF PartWritten
<1>15. SentIsKept'
  BY <1>0, <1>4, CalmFacts DEF SentIsKept, Before, Text, Calm
<1> QED
  BY <1>5, <1>6, <1>7, <1>8, <1>9, <1>10, <1>11, <1>12, <1>13, <1>14, <1>15

\* A thread takes the name of its log.
LEMMA ReserveKeeps ==
  ASSUME LogIInv, NEW t \in Writer, Reserve(t)
  PROVE  LogIInv'
<1> USE DEF LogIInv
<1>b. PICK s \in Session : s = thread[t].session
  BY DEF Reserve, At, JobsShaped
<1> DEFINE n == StemOf(s)
           work == ReservedBy(thread[t], n)
<1>0. /\ Calm /\ stored' = stored /\ file' = file
      /\ thread[t].op \in {"finalize", "append"} /\ "reserve" \in thread[t].todo /\ ~IndexLocked(t)
      /\ index[s] # Absent \/ \E m \in Stems : Vacant(m)
      /\ index' = [index EXCEPT ![s] = n] /\ thread' = [thread EXCEPT ![t] = work]
      /\ thread[t].session = s
  BY <1>b DEF Reserve, At, Calm
<1>1. /\ thread \in [Writer -> LogJob] /\ thread[t] \in LogJob /\ index \in [Session -> Stems \union {Absent}]
      /\ "main" \in Writer /\ "worker" \in Writer /\ "main" # "worker"
      /\ appended \in [Session -> Nat] /\ Absent \notin Stems /\ Sent(s) \in Event
  BY <1>0 DEF LogTyped, Writer, JobsShaped, Stems, Sent, Event
<1>2. /\ n \in Stems
      /\ index[s] = n \/ (index[s] = Absent /\ Vacant(n))
  <2>1. CASE index[s] # Absent
    BY <1>1, <2>1 DEF StemOf
  <2>2. CASE index[s] = Absent
    BY <1>0, <1>1, <2>2, NewStem
  <2> QED
    BY <2>1, <2>2
<1>3. Text("meta", n) \in Texts
  BY <1>2, TextFacts DEF Kinds
<1>4. /\ work \in LogJob /\ work.op = thread[t].op /\ work.session = s /\ work.stem = n
      /\ work.todo = thread[t].todo \ {"reserve"}
      /\ work.text = IF thread[t].op = "finalize" THEN thread[t].text ELSE Append(Text("meta", n), Sent(s))
  <2>1. Append(Text("meta", n), Sent(s)) \in Texts
    BY <1>1, <1>3 DEF Texts
  <2> QED
    BY <1>0, <1>1, <1>2, <2>1 DEF ReservedBy, LogJob
<1> HIDE DEF work, n
<1>5. /\ thread' \in [Writer -> LogJob] /\ thread'[t] = work
      /\ \A u \in Writer \ {t} : thread'[u] = thread[u]
      /\ index' \in [Session -> Stems \union {Absent}] /\ index'[s] = n
      /\ \A r \in Session \ {s} : index'[r] = index[r]
  BY <1>0, <1>1, <1>2, <1>4
<1>6. \A r : ~Dying(r) /\ ~Dying(r)' /\ ~Unindexed(r) /\ ~Unindexed(r)'
  <2>1. CASE t = "main"
    BY <1>0, <1>1, <1>4, <1>5, <2>1 DEF Dying, Unindexed
  <2>2. CASE t # "main"
    BY <1>0, <1>1, <1>4, <1>5, <2>2 DEF Dying, Unindexed, IndexLocked
  <2> QED
    BY <2>1, <2>2
<1>7. LogTyped'
  BY <1>0, <1>5 DEF LogTyped, Calm
<1>8. /\ thread[t].op = "finalize" =>
           /\ Finalizing(t) /\ stored[s].path = Absent /\ Kinds \subseteq thread[t].todo
           /\ stored[s].status = "finalizing"
      /\ thread[t].op = "append" => Appending(t) /\ Kinds \subseteq thread[t].todo /\ t = "main" /\ appended[s] > 0
      /\ "reserve" \notin Kinds /\ Kinds # {} /\ "reserve" # "save"
  BY <1>0, <1>1 DEF JobsShaped, Finalizing, Appending, Kinds, Writer
<1>9. JobsShaped'
  <2>1. thread[t].op = "finalize" => Finalizing(t)'
    BY <1>0, <1>1, <1>2, <1>4, <1>5, <1>8 DEF Finalizing
  <2>2. thread[t].op = "append" => Appending(t)'
    BY <1>0, <1>1, <1>2, <1>4, <1>5, <1>8 DEF Appending, Calm
  <2>3. ASSUME NEW u \in Writer \ {t}
        PROVE  /\ thread'[u].op = "idle" => thread'[u] = Idle
               /\ thread'[u].op # "idle" => thread'[u].session \in Session
               /\ thread'[u].op = "finalize" => Finalizing(u)'
               /\ thread'[u].op = "append" => Appending(u)'
               /\ thread'[u].op = "delete" => Erasing(u)'
    <3>1. thread'[u] = thread[u]
      BY <1>5
    <3>2. ASSUME thread[u].op # "idle", index[thread[u].session] # Absent
          PROVE  index'[thread[u].session] = index[thread[u].session]
      BY <1>2, <1>5, <3>2 DEF JobsShaped
    <3>3. thread[u].op = "finalize" => Finalizing(u)'
      BY <1>0, <3>1, <3>2 DEF JobsShaped, Finalizing
    <3>4. thread[u].op = "append" => Appending(u)'
      BY <1>0, <3>1, <3>2 DEF JobsShaped, Appending, Calm
    <3>5. thread[u].op = "delete" => Erasing(u)'
      BY <1>0, <3>1 DEF JobsShaped, Erasing, IndexLocked
    <3> QED
      BY <3>1, <3>3, <3>4, <3>5 DEF JobsShaped
  <2>4. /\ thread'["worker"].op \in {"idle", "finalize"}
        /\ thread'["worker"].op = "finalize" /\ thread'["main"].op \in {"finalize", "delete"}
             => thread'["worker"].session # thread'["main"].session
    BY <1>0, <1>1, <1>4, <1>5 DEF JobsShaped
  <2> QED
    BY <1>0, <1>1, <1>4, <1>5, <2>1, <2>2, <2>3, <2>4 DEF JobsShaped
<1>10. IndexApart'
  BY <1>1, <1>2, <1>5 DEF IndexApart, Vacant
<1>11. StatusPath'
  BY <1>0 DEF StatusPath
<1>12. PathsKept'
  BY <1>0, <1>1, <1>2, <1>5, <1>6, CalmFacts DEF PathsKept
<1>13. PathsApart'
  <2> SUFFICES ASSUME NEW r \in Session, NEW q \in Session, r # q, Trusted(r), stored[r].path # Absent
               PROVE  index'[q] # stored[r].path
    BY <1>0, CalmFacts DEF PathsApart
  <2>1. index[r] = stored[r].path /\ index[q] # stored[r].path
    BY <1>6 DEF PathsKept, PathsApart
  <2> QED
    BY <1>2, <1>5, <2>1 DEF Vacant
<1>14. EventsAtHome'
  <2> SUFFICES ASSUME NEW r \in Session, NEW k \in Kinds, NEW m \in Stems, Trusted(r),
                      NEW i \in DOMAIN Text(k, m), Text(k, m)[i][1] = r
               PROVE  m = index'[r]
    BY <1>0, <1>6, CalmFacts DEF EventsAtHome, AtHome, Text
  <2>1. m = index[r]
    BY <1>6 DEF EventsAtHome, AtHome
  <2> QED
    BY <1>1, <1>2, <1>5, <2>1
<1>15. OwnText'
  <2>1. CASE t = "main" /\ thread[t].op = "append"
    <3> DEFINE a == Text("meta", n)
    <3>1. \A i \in DOMAIN a : a[i][1] \in Session /\ (Trusted(a[i][1]) => a[i][1] = s)
      <4> SUFFICES ASSUME NEW i \in DOMAIN a, Trusted(a[i][1])
                   PROVE  a[i][1] = s
        BY <1>2, TextFacts DEF Kinds
      <4>1. a[i][1] \in Session /\ n = index[a[i][1]]
        BY <1>2, <1>6, TextFacts DEF EventsAtHome, AtHome, Kinds
      <4> QED
        BY <1>1, <1>2, <4>1 DEF IndexApart, Vacant
    <3>2. a \in Seq(Event) /\ Sent(s)[1] = s
      BY <1>3 DEF Texts, Sent
    <3> HIDE DEF a
    <3>3. \A i \in DOMAIN Append(a, Sent(s)) :
             LET e == Append(a, Sent(s))[i] IN e[1] = s \/ (i \in DOMAIN a /\ e = a[i])
      BY <1>1, <3>2
    <3>4. \A i \in DOMAIN work.text : Trusted(work.text[i][1]) => work.text[i][1] = s
      BY <1>4, <2>1, <3>1, <3>3 DEF a
    <3> QED
      BY <1>0, <1>4, <1>5, <2>1, <3>4, CalmFacts DEF OwnText
  <2>2. CASE t = "main" /\ thread[t].op = "finalize"
    BY <1>4, <1>5, <2>2 DEF OwnText
  <2>3. CASE t # "main"
    BY <1>0, <1>1, <1>5, <2>3, CalmFacts DEF OwnText
  <2> QED
    BY <1>0, <2>1, <2>2, <2>3
<1>16. IndexMeansLog'
  <2>1. \A r \in Session : Writing(r) => Writing(r)'
    BY <1>0, <1>4, <1>5 DEF Writing
  <2>2. Writing(s)' \/ Touched(s)
    BY <1>0, <1>1, <1>4, <1>5, <1>8 DEF Writing, Touched
  <2> SUFFICES ASSUME NEW r \in Session, ~Touched(r), ~CutIn(r), index'[r] # Absent
               PROVE  stored[r].path # Absent \/ Writing(r)'
    BY <1>0, CalmFacts DEF IndexMeansLog
  <2>3. CASE r = s
    BY <2>2, <2>3
  <2>4. CASE r # s
    BY <1>5, <2>1, <2>4 DEF IndexMeansLog
  <2> QED
    BY <2>3, <2>4
<1>17. PathMeansSaved' /\ Whole'
  BY <1>0, <1>6, CalmFacts DEF PathMeansSaved, Whole
<1>18. PartWritten'
  <2>1. thread[t].op = "finalize" => Kinds \ work.todo = {}
    BY <1>4, <1>8
  <2> QED
    BY <1>0, <1>4, <1>5, <2>1, CalmFacts DEF PartWritten
<1>19. SentIsKept'
  <2> SUFFICES ASSUME NEW r \in Session, stored[r].status = "none", ~DeletionCut, ~CutIn(r)
               PROVE  IF AppendedTo(r)'
                      THEN IF "reserve" \in thread'["main"].todo
                           THEN IF index'[r] = Absent THEN appended[r] = 1
                                ELSE \A k \in Kinds : Text(k, index'[r]) = Before(r)
                           ELSE /\ thread'["main"].text = Old(r, appended[r])
                                /\ \A k \in Kinds : Text(k, index'[r]) =
                                     IF k \in thread'["main"].todo THEN Before(r) ELSE Old(r, appended[r])
                      ELSE IF index'[r] = Absent THEN appended[r] = 0
                           ELSE \A k \in Kinds : Text(k, index'[r]) = Old(r, appended[r])
    BY <1>0, CalmFacts DEF SentIsKept, Before, Text, Calm
  <2>1. CASE r = s
    <3>1. t = "main" /\ thread[t].op = "append" /\ AppendedTo(r) /\ AppendedTo(r)' /\ Kinds \subseteq work.todo
      BY <1>0, <1>4, <1>5, <1>8, <2>1 DEF AppendedTo
    <3>2. \A k \in Kinds : Text(k, n) = Before(s)
      <4>1. CASE index[s] # Absent
        BY <1>0, <1>2, <2>1, <3>1, <4>1 DEF SentIsKept
      <4>2. CASE index[s] = Absent
        <5>1. Before(s) \in Texts /\ Len(Before(s)) = 0
          <6>1. appended[s] = 1
            BY <1>0, <2>1, <3>1, <4>2 DEF SentIsKept
          <6> QED
            BY <1>1, <6>1, NewLog DEF Before
        <5>2. ASSUME NEW k \in Kinds
              PROVE  Text(k, n) \in Texts /\ DOMAIN Text(k, n) = {}
          <6>1. Text(k, n) \in Texts
            BY <1>2, TextFacts
          <6>2. ASSUME NEW i \in DOMAIN Text(k, n) PROVE FALSE
            <7>1. Text(k, n)[i][1] \in Session /\ n = index[Text(k, n)[i][1]]
              BY <1>2, <1>6, TextFacts DEF EventsAtHome, AtHome, Trusted
            <7> QED
              BY <1>1, <1>2, <4>2, <7>1 DEF Vacant
          <6> QED
            BY <6>1, <6>2
        <5>3. \A a, b \in Texts : DOMAIN a = {} /\ Len(b) = 0 => a = b
          BY DEF Texts
        <5> QED
          BY <5>1, <5>2, <5>3
      <4> QED
        BY <4>1, <4>2
    <3>3. work.text = Old(s, appended[s])
      <4>1. work.text = Append(Before(s), <<s, "old", appended[s]>>)
        BY <1>4, <3>1, <3>2 DEF Sent, Kinds
      <4> QED
        BY <1>1, <1>8, <3>1, <4>1, OneMore DEF Before
    <3> QED
      BY <1>1, <1>2, <1>4, <1>5, <2>1, <3>1, <3>2, <3>3
  <2>2. CASE r # s
    <3>1. AppendedTo(r)' <=> AppendedTo(r)
      BY <1>0, <1>1, <1>4, <1>5, <2>2 DEF AppendedTo
    <3>2. AppendedTo(r) => thread'["main"] = thread["main"]
      BY <1>0, <1>1, <1>5, <2>2 DEF AppendedTo
    <3> QED
      BY <1>5, <2>2, <3>1, <3>2 DEF SentIsKept
  <2> QED
    BY <2>1, <2>2
<1> QED
  BY <1>7, <1>9, <1>10, <1>11, <1>12, <1>13, <1>14, <1>15, <1>16, <1>17, <1>18, <1>19

\* What a step leaves of the threads.
LEMMA StepFacts ==
  ASSUME thread \in [Writer -> LogJob], NEW t \in Writer, NEW step, Step(t, step)
  PROVE  /\ thread' \in [Writer -> LogJob]
         /\ \A u \in Writer \ {t} : thread'[u] = thread[u]
         /\ thread[t].todo = {step} => thread'[t] = Idle
         /\ thread[t].todo # {step} =>
              /\ thread'[t].op = thread[t].op /\ thread'[t].session = thread[t].session
              /\ thread'[t].stem = thread[t].stem /\ thread'[t].text = thread[t].text
              /\ thread'[t].todo = thread[t].todo \ {step}
<1> DEFINE work == Stepped(thread[t], step)
<1>1. thread' = [thread EXCEPT ![t] = work]
  BY DEF Step
<1>2. thread[t] \in LogJob /\ Idle \in LogJob
  BY DEF Idle, LogJob, Texts
<1>3. /\ work \in LogJob
      /\ thread[t].todo = {step} => work = Idle
      /\ thread[t].todo # {step} =>
           /\ work.op = thread[t].op /\ work.session = thread[t].session
           /\ work.stem = thread[t].stem /\ work.text = thread[t].text
           /\ work.todo = thread[t].todo \ {step}
  BY <1>2 DEF Stepped, LogJob
<1> HIDE DEF work
<1> QED
  BY <1>1, <1>3

\* What a write leaves of the files.
LEMMA PutFacts ==
  ASSUME LogTyped, NEW k \in Kinds, NEW n \in Stems, NEW text \in {Absent} \union Texts, Put(k, n, text)
  PROVE  /\ file' \in [Kinds -> [Stems -> {Absent} \union Texts]]
         /\ file'[k][n] = text /\ Text(k, n)' = IF text = Absent THEN <<>> ELSE text
         /\ \A l \in Kinds, m \in Stems : l # k \/ m # n => file'[l][m] = file[l][m] /\ Text(l, m)' = Text(l, m)
<1>1. file \in [Kinds -> [Stems -> {Absent} \union Texts]]
  BY DEF LogTyped
<1>2. file' = [file EXCEPT ![k][n] = text]
  BY DEF Put
<1>3. /\ file' \in [Kinds -> [Stems -> {Absent} \union Texts]]
      /\ file'[k][n] = text
      /\ \A l \in Kinds, m \in Stems : l # k \/ m # n => file'[l][m] = file[l][m]
  BY <1>1, <1>2
<1> QED
  BY <1>3 DEF Text

\* A finalization rewrites a file of its log.
LEMMA ProjectKeeps ==
  ASSUME LogIInv, NEW t \in Writer, NEW k \in Kinds, Project(t, k)
  PROVE  LogIInv'
<1> USE DEF LogIInv
<1>a. /\ Calm /\ stored' = stored /\ index' = index /\ Put(k, thread[t].stem, thread[t].text) /\ Step(t, k)
      /\ thread[t].op = "finalize" /\ k \in thread[t].todo /\ "reserve" \notin thread[t].todo
      /\ Finalizing(t) /\ thread[t].session \in Session
  BY StepOrder DEF Project, At, Calm, JobsShaped
<1>b. PICK s \in Session : s = thread[t].session
  BY <1>a
<1>c. /\ thread \in [Writer -> LogJob] /\ thread[t] \in LogJob /\ index \in [Session -> Stems \union {Absent}]
      /\ "main" \in Writer /\ "worker" \in Writer /\ "main" # "worker" /\ k # "save"
      /\ stored[s] \in StoredRow
  BY DEF LogTyped, Writer, Kinds
<1>d. /\ stored[s].status = "finalizing" /\ stored[s].path = Absent /\ thread[t].todo # {k}
      /\ thread[t].stem = index[s] /\ index[s] \in Stems
      /\ thread[t].text = New(s, stored[s].events) /\ stored[s].events \in Nat
  BY <1>a, <1>b, <1>c DEF Finalizing, StoredRow
<1>e. PICK n \in Stems : n = index[s]
  BY <1>d
<1>f. PICK text \in Texts : text = New(s, stored[s].events)
  BY <1>d, NewLog
<1>0. /\ thread' \in [Writer -> LogJob] /\ \A u \in Writer \ {t} : thread'[u] = thread[u]
      /\ thread'[t].op = "finalize" /\ thread'[t].session = s /\ thread'[t].stem = n /\ thread'[t].text = text
      /\ thread'[t].todo = thread[t].todo \ {k}
  BY <1>a, <1>b, <1>c, <1>d, <1>e, <1>f, StepFacts
<1>1. /\ file' \in [Kinds -> [Stems -> {Absent} \union Texts]]
      /\ file'[k][n] = text /\ Text(k, n)' = text
      /\ \A l \in Kinds, m \in Stems : l # k \/ m # n => file'[l][m] = file[l][m] /\ Text(l, m)' = Text(l, m)
  <2>1. Put(k, n, text) /\ text # Absent
    BY <1>a, <1>b, <1>d, <1>e, <1>f DEF Texts
  <2> QED
    BY <2>1, PutFacts
<1>2. \A r \in Session \ {s} : index[r] # n
  BY <1>c, <1>d, <1>e, NoStem DEF IndexApart
<1>3. \/ thread'["main"] = thread["main"]
      \/ thread["main"].op \in {"idle", "finalize"} /\ thread'["main"].op \in {"idle", "finalize"}
  BY <1>a, <1>c, <1>0
<1>4. ~Dying(s)
  BY <1>a, <1>b, <1>c DEF Dying, JobsShaped, Writer
<1>5. LogTyped'
  BY <1>a, <1>0, <1>1 DEF LogTyped, Calm
<1>6. JobsShaped'
  <2>1. Finalizing(t)'
    BY <1>a, <1>b, <1>c, <1>d, <1>e, <1>f, <1>0 DEF Finalizing
  <2>2. ASSUME NEW u \in Writer \ {t}
        PROVE  /\ thread'[u].op = "idle" => thread'[u] = Idle
               /\ thread'[u].op # "idle" => thread'[u].session \in Session
               /\ thread'[u].op = "finalize" => Finalizing(u)'
               /\ thread'[u].op = "append" => Appending(u)'
               /\ thread'[u].op = "delete" => Erasing(u)'
    BY <1>a, <1>0 DEF JobsShaped, Finalizing, Appending, Erasing, Calm
  <2>3. /\ thread'["worker"].op \in {"idle", "finalize"}
        /\ thread'["worker"].op = "finalize" /\ thread'["main"].op \in {"finalize", "delete"}
             => thread'["worker"].session # thread'["main"].session
    BY <1>a, <1>b, <1>c, <1>0 DEF JobsShaped
  <2> QED
    BY <1>0, <2>1, <2>2, <2>3 DEF JobsShaped
<1>7. IndexApart' /\ StatusPath'
  BY <1>a DEF IndexApart, StatusPath
<1>8. PathsKept' /\ PathsApart'
  BY <1>a, <1>3, MainStays, CalmFacts DEF PathsKept, PathsApart
<1>9. EventsAtHome'
  <2> SUFFICES ASSUME NEW r \in Session, NEW l \in Kinds, NEW m \in Stems, Trusted(r),
                      NEW i \in DOMAIN Text(l, m)', Text(l, m)'[i][1] = r
               PROVE  AtHome(l, m, r)'
    BY <1>a, CalmFacts DEF EventsAtHome
  <2>1. CASE l = k /\ m = n
    <3>1. r = s
      BY <1>d, <1>1, <1>f, <2>1, NewLog
    <3> QED
      BY <1>a, <1>e, <1>3, <1>4, <2>1, <3>1, MainStays DEF AtHome
  <2>2. CASE l # k \/ m # n
    <3>1. AtHome(l, m, r)
      BY <1>1, <2>2 DEF EventsAtHome
    <3> QED
      BY <1>a, <1>3, <3>1, MainStays DEF AtHome
  <2> QED
    BY <2>1, <2>2
<1>10. OwnText'
  BY <1>a, <1>3, MainStays, CalmFacts DEF OwnText
<1>11. IndexMeansLog'
  <2>1. \A r \in Session : Writing(r) => Writing(r)'
    BY <1>a, <1>b, <1>0 DEF Writing
  <2> QED
    BY <1>a, <2>1, CalmFacts DEF IndexMeansLog
<1>12. PathMeansSaved'
  BY <1>a, CalmFacts DEF PathMeansSaved
<1>13. Whole'
  <2> SUFFICES ASSUME NEW r \in Session, Plain(r), stored[r].status = "finalized", ~Unindexed(r), NEW l \in Kinds
               PROVE  file'[l][stored[r].path] = New(r, stored[r].events)
    BY <1>a, <1>3, MainStays, CalmFacts DEF Whole
  <2>1. stored[r].path # Absent /\ stored[r].path \in Stems /\ r # s
    BY <1>d DEF StatusPath, LogTyped, StoredRow
  <2>2. stored[r].path # n
    BY <1>2, <2>1 DEF PathsKept, Trusted, Plain
  <2> QED
    BY <1>1, <2>1, <2>2 DEF Whole
<1>14. PartWritten'
  <2> SUFFICES ASSUME NEW u \in Writer, thread'[u].op = "finalize", "reserve" \notin thread'[u].todo,
                      Plain(thread'[u].session), NEW l \in Kinds \ thread'[u].todo
               PROVE  file'[l][thread'[u].stem] = thread'[u].text
    BY <1>a, CalmFacts DEF PartWritten
  <2>1. CASE u = t
    <3>1. l = k \/ l \notin thread[t].todo
      BY <1>0, <2>1
    <3> QED
      BY <1>a, <1>b, <1>d, <1>e, <1>f, <1>0, <1>1, <2>1, <3>1 DEF PartWritten
  <2>2. CASE u # t
    <3>1. thread'[u] = thread[u] /\ thread[u].session \in Session \ {s} /\ Finalizing(u)
      BY <1>a, <1>b, <1>c, <1>0, <2>2 DEF JobsShaped, Writer
    <3>2. stored[thread[u].session].path = Absent
      BY <3>1 DEF Finalizing, PathMeansSaved, Plain
    <3>3. thread[u].stem = index[thread[u].session] /\ index[thread[u].session] \in Stems \ {n}
      BY <1>c, <1>2, <3>1, <3>2 DEF Finalizing
    <3> QED
      BY <1>1, <3>1, <3>3 DEF PartWritten
  <2> QED
    BY <2>1, <2>2
<1>15. SentIsKept'
  <2> SUFFICES ASSUME NEW r \in Session, stored[r].status = "none", ~DeletionCut, ~CutIn(r),
                      NEW m \in Stems \union {Absent}, m = index[r]
               PROVE  IF AppendedTo(r)
                      THEN IF "reserve" \in thread["main"].todo
                           THEN IF m = Absent THEN appended[r] = 1
                                ELSE \A l \in Kinds : Text(l, m)' = Before(r)
                           ELSE /\ thread["main"].text = Old(r, appended[r])
                                /\ \A l \in Kinds : Text(l, m)' =
                                     IF l \in thread["main"].todo THEN Before(r) ELSE Old(r, appended[r])
                      ELSE IF m = Absent THEN appended[r] = 0
                           ELSE \A l \in Kinds : Text(l, m)' = Old(r, appended[r])
    BY <1>a, <1>c, <1>3, MainStays, CalmFacts DEF SentIsKept, Before, Text, Calm
  <2>1. AppendedTo(r) /\ "reserve" \notin thread["main"].todo => m # Absent
    BY DEF AppendedTo, JobsShaped, Appending, Writer
  <2>2. m # Absent => \A l \in Kinds : Text(l, m)' = Text(l, m)
    BY <1>d, <1>1, <1>2
  <2> QED
    BY <2>1, <2>2 DEF SentIsKept
<1> QED
  BY <1>5, <1>6, <1>7, <1>8, <1>9, <1>10, <1>11, <1>12, <1>13, <1>14, <1>15

\* A session is saved as finalized, with the name of its log.
LEMMA SaveKeeps ==
  ASSUME LogIInv, NEW t \in Writer, Save(t)
  PROVE  LogIInv'
<1> USE DEF LogIInv
<1>a. /\ Calm /\ index' = index /\ file' = file /\ Step(t, "save")
      /\ thread[t].op = "finalize" /\ Finalizing(t) /\ thread[t].session \in Session
      /\ thread[t].todo = {"save"}
      /\ stored' = [stored EXCEPT ![thread[t].session] = [@ EXCEPT !.status = "finalized", !.path = thread[t].stem]]
  BY StepOrder DEF Save, At, Calm, JobsShaped, Finalizing
<1>b. PICK s \in Session : s = thread[t].session
  BY <1>a
<1>c. /\ thread \in [Writer -> LogJob] /\ thread[t] \in LogJob /\ index \in [Session -> Stems \union {Absent}]
      /\ "main" \in Writer /\ "worker" \in Writer /\ "main" # "worker" /\ "reserve" \notin {"save"} \union Kinds
      /\ stored \in [Session -> StoredRow] /\ stored[s] \in StoredRow /\ "save" \notin Kinds
  BY DEF LogTyped, Writer, Kinds
<1>d. /\ stored[s].status = "finalizing" /\ thread[t].text = New(s, stored[s].events)
      /\ IF stored[s].path # Absent THEN thread[t].stem = stored[s].path
         ELSE thread[t].stem = index[s] /\ index[s] # Absent
  BY <1>a, <1>b, <1>c DEF Finalizing
<1>e. PICK n \in Stems : n = thread[t].stem
  BY <1>c, <1>d DEF StoredRow
<1> DEFINE row == [stored[s] EXCEPT !.status = "finalized", !.path = n]
<1>f. /\ row \in StoredRow /\ row.status = "finalized" /\ row.path = n /\ row.events = stored[s].events
      /\ stored' = [stored EXCEPT ![s] = row]
  BY <1>a, <1>b, <1>c, <1>e DEF StoredRow, Status
<1> HIDE DEF row
<1>0. /\ thread' \in [Writer -> LogJob] /\ thread'[t] = Idle
      /\ \A u \in Writer \ {t} : thread'[u] = thread[u]
      /\ stored' \in [Session -> StoredRow] /\ stored'[s] = row
      /\ \A r \in Session \ {s} : stored'[r] = stored[r]
  BY <1>a, <1>c, <1>f, StepFacts
<1>1. Idle.op = "idle" /\ n # Absent
  BY NoStem DEF Idle
<1>2. \/ thread'["main"] = thread["main"]
      \/ thread["main"].op \in {"idle", "finalize"} /\ thread'["main"].op \in {"idle", "finalize"}
  BY <1>a, <1>c, <1>0, <1>1
<1>3. ~Dying(s) /\ ~Unindexed(s)
  BY <1>a, <1>b, <1>c DEF Dying, Unindexed, JobsShaped, Writer
<1>4. \A u \in Writer \ {t} : thread[u].op \in {"finalize", "delete"} => thread[u].session \in Session \ {s}
  BY <1>a, <1>b, <1>c DEF JobsShaped, Writer
<1>5. LogTyped'
  BY <1>a, <1>0 DEF LogTyped, Calm
<1>g. Calm /\ index' = index
  BY <1>a
<1>6. JobsShaped'
  <2>1. ASSUME NEW u \in Writer \ {t}
        PROVE  /\ thread'[u].op = "idle" => thread'[u] = Idle
               /\ thread'[u].op # "idle" => thread'[u].session \in Session
               /\ thread'[u].op = "finalize" => Finalizing(u)'
               /\ thread'[u].op = "append" => Appending(u)'
               /\ thread'[u].op = "delete" => Erasing(u)'
    <3>1. thread'[u] = thread[u]
      BY <1>0
    <3>2. thread[u].op \in {"finalize", "delete"} => stored'[thread[u].session] = stored[thread[u].session]
      BY <1>0, <1>4
    <3>3. /\ thread[u].op = "idle" => thread[u] = Idle
          /\ thread[u].op # "idle" => thread[u].session \in Session
      BY DEF JobsShaped
    <3>4. thread[u].op = "finalize" => Finalizing(u)'
      BY <1>g, <3>1, <3>2 DEF JobsShaped, Finalizing
    <3>5. thread[u].op = "append" => Appending(u)'
      BY <1>g, <3>1 DEF JobsShaped, Appending, Calm
    <3>6. thread[u].op = "delete" => Erasing(u)'
      BY <1>g, <3>1, <3>2 DEF JobsShaped, Erasing
    <3> QED
      BY <3>1, <3>3, <3>4, <3>5, <3>6
  <2>2. /\ thread'["worker"].op \in {"idle", "finalize"}
        /\ thread'["worker"].op = "finalize" /\ thread'["main"].op \in {"finalize", "delete"}
             => thread'["worker"].session # thread'["main"].session
    BY <1>c, <1>0, <1>1 DEF JobsShaped
  <2> QED
    BY <1>0, <1>1, <2>1, <2>2 DEF JobsShaped
<1>7. IndexApart' /\ StatusPath'
  <2>1. IndexApart'
    BY <1>a DEF IndexApart
  <2>2. ASSUME NEW r \in Session
        PROVE  /\ stored'[r].status \in {"none", "deleted"} => stored'[r].path = Absent
               /\ stored'[r].status = "finalized" => stored'[r].path # Absent
    BY <1>f, <1>0, <1>1 DEF StatusPath
  <2> QED
    BY <2>1, <2>2 DEF StatusPath
<1>8. Trusted(s) => n = index[s]
  BY <1>d, <1>e, <1>3 DEF PathsKept
<1>9. PathsKept'
  <2> SUFFICES ASSUME NEW r \in Session, Trusted(r), stored'[r].path # Absent
               PROVE  index[r] = IF Unindexed(r)' THEN Absent ELSE stored'[r].path
    BY <1>g, CalmFacts DEF PathsKept
  <2>1. Unindexed(r)' <=> Unindexed(r)
    BY <1>2, MainStays
  <2>2. CASE r = s
    BY <1>f, <1>0, <1>3, <1>8, <2>1, <2>2
  <2>3. CASE r # s
    BY <1>0, <2>1, <2>3 DEF PathsKept
  <2> QED
    BY <2>2, <2>3
<1>10. PathsApart'
  <2>1. \A q \in Session \ {s} : Trusted(s) => index[q] # n
    BY <1>1, <1>8 DEF IndexApart
  <2> SUFFICES ASSUME NEW r \in Session, NEW q \in Session, r # q, Trusted(r), stored'[r].path # Absent
               PROVE  index[q] # stored'[r].path
    BY <1>a, CalmFacts DEF PathsApart
  <2>2. CASE r = s
    BY <1>f, <1>0, <2>1, <2>2
  <2>3. CASE r # s
    BY <1>0, <2>3 DEF PathsApart
  <2> QED
    BY <2>2, <2>3
<1>11. EventsAtHome'
  BY <1>a, <1>2, MainStays, CalmFacts DEF EventsAtHome, AtHome, Text
<1>12. OwnText'
  BY <1>a, <1>2, MainStays, CalmFacts DEF OwnText
<1>13. IndexMeansLog'
  <2>1. \A r \in Session \ {s} : Writing(r) => Writing(r)'
    BY <1>b, <1>0 DEF Writing
  <2> QED
    BY <1>a, <1>f, <1>0, <1>1, <2>1, CalmFacts DEF IndexMeansLog
<1>14. PathMeansSaved'
  BY <1>f, <1>0, CalmFacts, <1>a DEF PathMeansSaved
<1>15. Whole'
  <2>1. ASSUME Plain(s), NEW k \in Kinds
        PROVE  file[k][n] = New(s, stored[s].events)
    BY <1>a, <1>b, <1>c, <1>d, <1>e, <2>1 DEF PartWritten
  <2> SUFFICES ASSUME NEW r \in Session, Plain(r), stored'[r].status = "finalized", ~Unindexed(r), NEW k \in Kinds
               PROVE  file[k][stored'[r].path] = New(r, stored'[r].events)
    BY <1>a, <1>2, MainStays, CalmFacts DEF Whole
  <2>2. CASE r = s
    BY <1>f, <1>0, <2>1, <2>2
  <2>3. CASE r # s
    BY <1>0, <2>3 DEF Whole
  <2> QED
    BY <2>2, <2>3
<1>16. PartWritten'
  <2>1. \A u \in Writer : thread'[u].op = "finalize" => thread'[u] = thread[u]
    BY <1>0, <1>1
  <2> QED
    BY <1>a, <2>1, CalmFacts DEF PartWritten
<1>17. SentIsKept'
  BY <1>a, <1>d, <1>f, <1>0, <1>2, MainStays, CalmFacts DEF SentIsKept, Before, Text, Calm
<1> QED
  BY <1>5, <1>6, <1>7, <1>9, <1>10, <1>11, <1>12, <1>13, <1>14, <1>15, <1>16, <1>17

\* The older page's event gets into a file.
LEMMA AppendToKeeps ==
  ASSUME LogIInv, NEW k \in Kinds, AppendTo(k)
  PROVE  LogIInv'
<1> USE DEF LogIInv
<1>a. /\ "main" \in Writer /\ "worker" \in Writer /\ "main" # "worker"
      /\ thread \in [Writer -> LogJob] /\ thread["main"] \in LogJob
      /\ index \in [Session -> Stems \union {Absent}] /\ appended \in [Session -> Nat]
  BY DEF LogTyped, Writer
<1>b. /\ Calm /\ stored' = stored /\ index' = index /\ Step("main", k)
      /\ Put(k, thread["main"].stem, IF k = "raw" THEN Append(Text(k, thread["main"].stem), Sent(thread["main"].session))
                                     ELSE thread["main"].text)
      /\ thread["main"].op = "append" /\ k \in thread["main"].todo /\ "reserve" \notin thread["main"].todo
      /\ Appending("main") /\ thread["main"].session \in Session
  BY <1>a, StepOrder DEF AppendTo, At, Calm, JobsShaped
<1>c. PICK s \in Session : s = thread["main"].session
  BY <1>b
<1>d. PICK n \in Stems : n = thread["main"].stem /\ n = index[s]
  BY <1>a, <1>b, <1>c DEF Appending
<1>e. /\ Sent(s) \in Event /\ Sent(s)[1] = s /\ appended[s] > 0
      /\ Text(k, n) \in Seq(Event) /\ thread["main"].text \in Texts
  BY <1>a, <1>b, <1>c, TextFacts DEF Sent, Event, Appending, LogJob, Texts
<1>f. PICK text \in Texts : text = IF k = "raw" THEN Append(Text(k, n), Sent(s)) ELSE thread["main"].text
  <2>1. Append(Text(k, n), Sent(s)) \in Texts
    BY <1>e DEF Texts
  <2> QED
    BY <1>e, <2>1
<1>0. /\ thread' \in [Writer -> LogJob] /\ thread'["worker"] = thread["worker"]
      /\ thread["main"].todo = {k} => thread'["main"] = Idle
      /\ thread["main"].todo # {k} =>
           /\ thread'["main"].op = "append" /\ thread'["main"].session = s
           /\ thread'["main"].stem = n /\ thread'["main"].text = thread["main"].text
           /\ thread'["main"].todo = thread["main"].todo \ {k}
      /\ Idle.op = "idle"
  <2>1. Step("main", k)
    BY <1>b
  <2>2. /\ thread' \in [Writer -> LogJob] /\ \A u \in Writer \ {"main"} : thread'[u] = thread[u]
        /\ thread["main"].todo = {k} => thread'["main"] = Idle
        /\ thread["main"].todo # {k} =>
             /\ thread'["main"].op = thread["main"].op /\ thread'["main"].session = thread["main"].session
             /\ thread'["main"].stem = thread["main"].stem /\ thread'["main"].text = thread["main"].text
             /\ thread'["main"].todo = thread["main"].todo \ {k}
    BY <1>a, <2>1, StepFacts
  <2> QED
    BY <1>a, <1>b, <1>c, <1>d, <2>2 DEF Idle
<1>1. /\ file' \in [Kinds -> [Stems -> {Absent} \union Texts]]
      /\ file'[k][n] = text /\ Text(k, n)' = text
      /\ \A l \in Kinds, m \in Stems : l # k \/ m # n => file'[l][m] = file[l][m] /\ Text(l, m)' = Text(l, m)
  <2>1. Put(k, n, text) /\ text # Absent
    BY <1>b, <1>c, <1>d, <1>f DEF Texts
  <2> QED
    BY <2>1, PutFacts
<1>2. \A r \in Session \ {s} : index[r] # n
  BY <1>d, NoStem DEF IndexApart
<1>3. \A r : ~Dying(r) /\ ~Dying(r)' /\ ~Unindexed(r) /\ ~Unindexed(r)'
  BY <1>b, <1>0 DEF Dying, Unindexed
<1>4. LogTyped'
  BY <1>b, <1>0, <1>1 DEF LogTyped, Calm
<1>5. JobsShaped'
  <2>1. thread["main"].todo # {k} => Appending("main")'
    BY <1>b, <1>c, <1>d, <1>0, NoStem DEF Appending, Calm
  <2>2. thread["worker"].op = "finalize" => Finalizing("worker")'
    BY <1>a, <1>b, <1>0 DEF JobsShaped, Finalizing
  <2> QED
    BY <1>a, <1>0, <2>1, <2>2 DEF JobsShaped, Writer
<1>6. IndexApart' /\ StatusPath'
  BY <1>b DEF IndexApart, StatusPath
<1>7. PathsKept' /\ PathsApart'
  BY <1>b, <1>3, CalmFacts DEF PathsKept, PathsApart
<1>8. EventsAtHome'
  <2> SUFFICES ASSUME NEW r \in Session, NEW l \in Kinds, NEW m \in Stems, Trusted(r),
                      NEW i \in DOMAIN Text(l, m)', Text(l, m)'[i][1] = r
               PROVE  m = index[r]
    BY <1>b, <1>3, CalmFacts DEF EventsAtHome, AtHome
  <2>1. CASE l = k /\ m = n
    <3>1. CASE k # "raw"
      <4>1. text = thread["main"].text
        BY <1>f, <3>1
      <4>2. r = s
        BY <1>b, <1>c, <1>1, <2>1, <4>1 DEF OwnText
      <4> QED
        BY <1>d, <2>1, <4>2
    <3>2. CASE k = "raw"
      <4> DEFINE a == Text(k, n)
      <4>1. text = Append(a, Sent(s)) /\ a \in Seq(Event)
        BY <1>e, <1>f, <3>2
      <4>2. \A j \in DOMAIN a : a[j][1] = r => n = index[r]
        BY <1>3 DEF EventsAtHome, AtHome
      <4> HIDE DEF a
      <4>3. text[i] = Sent(s) \/ (i \in DOMAIN a /\ text[i] = a[i])
        BY <1>e, <1>1, <2>1, <4>1
      <4> QED
        BY <1>d, <1>e, <1>1, <2>1, <4>2, <4>3
    <3> QED
      BY <3>1, <3>2
  <2>2. CASE l # k \/ m # n
    BY <1>1, <1>3, <2>2 DEF EventsAtHome, AtHome
  <2> QED
    BY <2>1, <2>2
<1>9. OwnText'
  BY <1>b, <1>c, <1>0, CalmFacts DEF OwnText
<1>10. IndexMeansLog'
  <2>1. \A r \in Session : Writing(r) => Writing(r)'
    BY <1>b, <1>0 DEF Writing, Writer
  <2> QED
    BY <1>b, <2>1, CalmFacts DEF IndexMeansLog
<1>11. PathMeansSaved'
  BY <1>b, CalmFacts DEF PathMeansSaved
<1>12. \A r \in Session : Plain(r) => r # s
  BY <1>e DEF Plain, Touched
<1>13. Whole'
  <2> SUFFICES ASSUME NEW r \in Session, Plain(r), stored[r].status = "finalized", NEW l \in Kinds
               PROVE  file'[l][stored[r].path] = New(r, stored[r].events)
    BY <1>b, <1>3, CalmFacts DEF Whole
  <2>1. stored[r].path # Absent /\ stored[r].path \in Stems /\ r # s
    BY <1>12 DEF StatusPath, LogTyped, StoredRow
  <2>2. stored[r].path # n
    BY <1>2, <1>3, <2>1 DEF PathsKept, Trusted, Plain
  <2> QED
    BY <1>1, <1>3, <2>1, <2>2 DEF Whole
<1>14. PartWritten'
  <2> SUFFICES ASSUME thread["worker"].op = "finalize", "reserve" \notin thread["worker"].todo,
                      Plain(thread["worker"].session), NEW l \in Kinds \ thread["worker"].todo
               PROVE  file'[l][thread["worker"].stem] = thread["worker"].text
    BY <1>b, <1>0, CalmFacts DEF PartWritten, Writer
  <2>1. thread["worker"].session \in Session \ {s} /\ Finalizing("worker")
    BY <1>a, <1>12 DEF JobsShaped
  <2>2. stored[thread["worker"].session].path = Absent
    BY <2>1 DEF Finalizing, PathMeansSaved, Plain
  <2>3. thread["worker"].stem = index[thread["worker"].session] /\ index[thread["worker"].session] \in Stems \ {n}
    BY <1>a, <1>2, <2>1, <2>2 DEF Finalizing
  <2> QED
    BY <1>a, <1>1, <2>3 DEF PartWritten
<1>15. SentIsKept'
  <2> SUFFICES ASSUME NEW r \in Session, stored[r].status = "none", ~DeletionCut, ~CutIn(r),
                      NEW m \in Stems \union {Absent}, m = index[r]
               PROVE  IF AppendedTo(r)'
                      THEN IF "reserve" \in thread'["main"].todo
                           THEN IF m = Absent THEN appended[r] = 1
                                ELSE \A l \in Kinds : Text(l, m)' = Before(r)
                           ELSE /\ thread'["main"].text = Old(r, appended[r])
                                /\ \A l \in Kinds : Text(l, m)' =
                                     IF l \in thread'["main"].todo THEN Before(r) ELSE Old(r, appended[r])
                      ELSE IF m = Absent THEN appended[r] = 0
                           ELSE \A l \in Kinds : Text(l, m)' = Old(r, appended[r])
    BY <1>a, <1>b, CalmFacts DEF SentIsKept, Before, Text, Calm
  <2>1. CASE r = s
    <3>1. /\ thread["main"].text = Old(s, appended[s]) /\ m = n /\ m # Absent
          /\ \A l \in Kinds : Text(l, n) = IF l \in thread["main"].todo THEN Before(s) ELSE Old(s, appended[s])
      BY <1>b, <1>c, <1>d, <2>1, NoStem DEF SentIsKept, AppendedTo
    <3>2. text = Old(s, appended[s])
      <4>1. Append(Before(s), Sent(s)) = Old(s, appended[s])
        BY <1>a, <1>e, OneMore DEF Before, Sent
      <4> QED
        BY <1>b, <1>f, <3>1, <4>1
    <3>3. \A l \in Kinds : Text(l, n)' = IF l \in thread["main"].todo \ {k} THEN Before(s) ELSE Old(s, appended[s])
      BY <1>1, <1>d, <3>1, <3>2
    <3>4. CASE thread["main"].todo = {k}
      BY <1>0, <2>1, <3>1, <3>3, <3>4 DEF AppendedTo
    <3>5. CASE thread["main"].todo # {k}
      BY <1>b, <1>0, <2>1, <3>1, <3>3, <3>5 DEF AppendedTo
    <3> QED
      BY <3>4, <3>5
  <2>2. CASE r # s
    <3>1. ~AppendedTo(r) /\ ~AppendedTo(r)'
      BY <1>c, <1>0, <2>2 DEF AppendedTo
    <3>2. m # Absent => \A l \in Kinds : Text(l, m)' = Text(l, m)
      BY <1>1, <1>2, <2>2
    <3> QED
      BY <3>1, <3>2 DEF SentIsKept
  <2> QED
    BY <2>1, <2>2
<1> QED
  BY <1>4, <1>5, <1>6, <1>7, <1>8, <1>9, <1>10, <1>11, <1>13, <1>14, <1>15

\* A deletion takes the session out of the index.
LEMMA UnindexKeeps ==
  ASSUME LogIInv, Unindex
  PROVE  LogIInv'
<1> USE DEF LogIInv
<1>a. /\ "main" \in Writer /\ "worker" \in Writer /\ "main" # "worker"
      /\ thread \in [Writer -> LogJob] /\ thread["main"] \in LogJob
      /\ index \in [Session -> Stems \union {Absent}] /\ stored \in [Session -> StoredRow]
      /\ "index" # "session" /\ "index" \notin Kinds
  BY DEF LogTyped, Writer, Kinds
<1>b. /\ Calm /\ stored' = stored /\ file' = file /\ Step("main", "index")
      /\ thread["main"].op = "delete" /\ "index" \in thread["main"].todo
      /\ Erasing("main") /\ thread["main"].session \in Session
      /\ index' = IF thread["main"].stem = Absent THEN index
                  ELSE [index EXCEPT ![thread["main"].session] = Absent]
  BY <1>a DEF Unindex, At, Calm, JobsShaped
<1>c. PICK s \in Session : s = thread["main"].session
  BY <1>b
<1>d. PICK n \in Stems \union {Absent} : n = thread["main"].stem
  BY <1>a DEF LogJob
<1>e. /\ stored[s].status \notin {"none", "deleted"} /\ "session" \in thread["main"].todo
      /\ n = stored[s].path /\ thread["main"].todo # {"index"}
  BY <1>a, <1>b, <1>c, <1>d DEF Erasing
<1>0. /\ thread' \in [Writer -> LogJob] /\ thread'["worker"] = thread["worker"]
      /\ thread'["main"].op = "delete" /\ thread'["main"].session = s /\ thread'["main"].stem = n
      /\ thread'["main"].todo = thread["main"].todo \ {"index"}
  <2>1. Step("main", "index")
    BY <1>b
  <2>2. /\ thread' \in [Writer -> LogJob] /\ \A u \in Writer \ {"main"} : thread'[u] = thread[u]
        /\ thread'["main"].op = thread["main"].op /\ thread'["main"].session = thread["main"].session
        /\ thread'["main"].stem = thread["main"].stem
        /\ thread'["main"].todo = thread["main"].todo \ {"index"}
    BY <1>a, <1>e, <2>1, StepFacts
  <2> QED
    BY <1>a, <1>b, <1>c, <1>d, <2>2
<1>1. /\ index' \in [Session -> Stems \union {Absent}]
      /\ \A r \in Session : r # s \/ n = Absent => index'[r] = index[r]
      /\ n # Absent => index'[s] = Absent
  BY <1>a, <1>b, <1>c, <1>d
<1>2. /\ \A r : Dying(r)' <=> Dying(r)
      /\ \A r : Dying(r) <=> r = s /\ n # Absent
      /\ \A r : Unindexed(r)' <=> Dying(r)
      /\ \A r : ~Unindexed(r) /\ ~AppendedTo(r) /\ ~AppendedTo(r)'
  BY <1>b, <1>c, <1>d, <1>0 DEF Dying, Unindexed, AppendedTo
<1>3. LogTyped'
  BY <1>b, <1>0, <1>1 DEF LogTyped, Calm
<1>4. JobsShaped'
  <2>1. Erasing("main")'
    BY <1>a, <1>b, <1>c, <1>d, <1>e, <1>0, <1>1 DEF Erasing
  <2>2. ASSUME thread["worker"].op = "finalize"
        PROVE  Finalizing("worker")' /\ thread["worker"].session # s
    <3>1. thread["worker"].session \in Session \ {s}
      BY <1>a, <1>b, <1>c, <2>2 DEF JobsShaped
    <3> QED
      BY <1>a, <1>b, <1>0, <1>1, <2>2, <3>1 DEF JobsShaped, Finalizing
  <2>3. thread["worker"].op # "finalize" => thread["worker"] = Idle
    BY <1>a DEF JobsShaped
  <2>4. /\ thread["worker"].op \in {"idle", "finalize"}
        /\ thread["worker"].op = "finalize" => thread["worker"].session \in Session
    BY <1>a DEF JobsShaped
  <2> QED
    BY <1>0, <2>1, <2>2, <2>3, <2>4 DEF JobsShaped, Writer
<1>5. IndexApart' /\ StatusPath'
  <2>1. \A r \in Session : index'[r] \in {index[r], Absent}
    BY <1>1
  <2> QED
    BY <1>b, <2>1 DEF IndexApart, StatusPath
<1>6. PathsKept'
  <2> SUFFICES ASSUME NEW r \in Session, Trusted(r), stored[r].path # Absent
               PROVE  index'[r] = IF Unindexed(r)' THEN Absent ELSE stored[r].path
    BY <1>b, CalmFacts DEF PathsKept
  <2>1. CASE r = s
    BY <1>e, <1>1, <1>2, <2>1
  <2>2. CASE r # s
    BY <1>1, <1>2, <2>2 DEF PathsKept
  <2> QED
    BY <2>1, <2>2
<1>7. PathsApart'
  <2>1. \A r \in Session : index'[r] \in {index[r], Absent}
    BY <1>1
  <2> QED
    BY <1>b, <2>1, CalmFacts DEF PathsApart
<1>8. EventsAtHome'
  <2> SUFFICES ASSUME NEW r \in Session, NEW l \in Kinds, NEW m \in Stems, Trusted(r),
                      NEW i \in DOMAIN Text(l, m), Text(l, m)[i][1] = r
               PROVE  AtHome(l, m, r)'
    BY <1>b, CalmFacts DEF EventsAtHome, Text
  <2>1. AtHome(l, m, r)
    BY DEF EventsAtHome
  <2>2. CASE Dying(r)
    BY <1>a, <1>b, <1>d, <1>0, <1>2, <2>1, <2>2 DEF AtHome
  <2>3. CASE ~Dying(r)
    BY <1>1, <1>2, <2>1, <2>3 DEF AtHome
  <2> QED
    BY <2>2, <2>3
<1>9. OwnText'
  BY <1>0 DEF OwnText
<1>10. IndexMeansLog'
  <2>1. \A r \in Session : Writing(r) => Writing(r)'
    BY <1>b, <1>0 DEF Writing, Writer
  <2>2. \A r \in Session : index'[r] \in {index[r], Absent}
    BY <1>1
  <2> QED
    BY <1>b, <2>1, <2>2, CalmFacts DEF IndexMeansLog
<1>11. PathMeansSaved'
  BY <1>b, CalmFacts DEF PathMeansSaved
<1>12. Whole'
  BY <1>b, <1>2, CalmFacts DEF Whole
<1>13. PartWritten'
  BY <1>b, <1>0, CalmFacts DEF PartWritten, Writer
<1>14. SentIsKept'
  BY <1>b, <1>c, <1>e, <1>1, <1>2, CalmFacts DEF SentIsKept, Text, Calm
<1> QED
  BY <1>3, <1>4, <1>5, <1>6, <1>7, <1>8, <1>9, <1>10, <1>11, <1>12, <1>13, <1>14

\* A deletion removes a file of the log.
LEMMA UnlinkKeeps ==
  ASSUME LogIInv, NEW k \in Kinds, Unlink(k)
  PROVE  LogIInv'
<1> USE DEF LogIInv
<1>a. /\ "main" \in Writer /\ "worker" \in Writer /\ "main" # "worker"
      /\ thread \in [Writer -> LogJob] /\ thread["main"] \in LogJob
      /\ index \in [Session -> Stems \union {Absent}] /\ stored \in [Session -> StoredRow]
      /\ k \notin {"session", "index"}
  BY DEF LogTyped, Writer, Kinds
<1>b. /\ Calm /\ stored' = stored /\ index' = index /\ Step("main", k)
      /\ Put(k, thread["main"].stem, Absent)
      /\ thread["main"].op = "delete" /\ k \in thread["main"].todo /\ "index" \notin thread["main"].todo
      /\ Erasing("main") /\ thread["main"].session \in Session
  BY <1>a, StepOrder DEF Unlink, At, Calm, JobsShaped
<1>c. PICK s \in Session : s = thread["main"].session
  BY <1>b
<1>d. PICK n \in Stems : n = thread["main"].stem
  BY <1>a, <1>b DEF LogJob, Erasing
<1>e. /\ stored[s].status \notin {"none", "deleted"} /\ "session" \in thread["main"].todo
      /\ n = stored[s].path /\ thread["main"].todo # {k} /\ n # Absent /\ index[s] = Absent
  BY <1>a, <1>b, <1>c, <1>d, NoStem DEF Erasing
<1>0. /\ thread' \in [Writer -> LogJob] /\ thread'["worker"] = thread["worker"]
      /\ thread'["main"].op = "delete" /\ thread'["main"].session = s /\ thread'["main"].stem = n
      /\ thread'["main"].todo = thread["main"].todo \ {k}
  <2>1. Step("main", k)
    BY <1>b
  <2>2. /\ thread' \in [Writer -> LogJob] /\ \A u \in Writer \ {"main"} : thread'[u] = thread[u]
        /\ thread'["main"].op = thread["main"].op /\ thread'["main"].session = thread["main"].session
        /\ thread'["main"].stem = thread["main"].stem
        /\ thread'["main"].todo = thread["main"].todo \ {k}
    BY <1>a, <1>e, <2>1, StepFacts
  <2> QED
    BY <1>a, <1>b, <1>c, <1>d, <2>2
<1>1. /\ file' \in [Kinds -> [Stems -> {Absent} \union Texts]]
      /\ Text(k, n)' = <<>>
      /\ \A l \in Kinds, m \in Stems : l # k \/ m # n => file'[l][m] = file[l][m] /\ Text(l, m)' = Text(l, m)
  BY <1>b, <1>d, PutFacts
<1>2. /\ \A r : Dying(r)' <=> r = s
      /\ \A r : Dying(r) <=> r = s
      /\ \A r : Unindexed(r)' <=> r = s
      /\ \A r : Unindexed(r) <=> r = s
      /\ \A r : ~AppendedTo(r) /\ ~AppendedTo(r)'
  BY <1>a, <1>b, <1>c, <1>d, <1>e, <1>0 DEF Dying, Unindexed, AppendedTo
<1>3. LogTyped'
  BY <1>b, <1>0, <1>1 DEF LogTyped, Calm
<1>4. JobsShaped'
  <2>1. Erasing("main")'
    BY <1>a, <1>b, <1>c, <1>d, <1>e, <1>0 DEF Erasing
  <2>2. thread["worker"].op = "finalize" => Finalizing("worker")'
    BY <1>a, <1>b, <1>0 DEF JobsShaped, Finalizing
  <2>3. /\ thread["worker"].op = "finalize" => thread["worker"].session \in Session \ {s}
        /\ thread["worker"].op \in {"idle", "finalize"}
        /\ thread["worker"].op = "idle" => thread["worker"] = Idle
    BY <1>a, <1>b, <1>c DEF JobsShaped
  <2> QED
    BY <1>0, <2>1, <2>2, <2>3 DEF JobsShaped, Writer
<1>5. IndexApart' /\ StatusPath'
  BY <1>b DEF IndexApart, StatusPath
<1>6. PathsKept' /\ PathsApart'
  BY <1>b, <1>2, CalmFacts DEF PathsKept, PathsApart
<1>7. EventsAtHome'
  <2> SUFFICES ASSUME NEW r \in Session, NEW l \in Kinds, NEW m \in Stems, Trusted(r),
                      NEW i \in DOMAIN Text(l, m)', Text(l, m)'[i][1] = r
               PROVE  AtHome(l, m, r)'
    BY <1>b, CalmFacts DEF EventsAtHome
  <2>1. l # k \/ m # n
    BY <1>1
  <2>2. AtHome(l, m, r)
    BY <1>1, <2>1 DEF EventsAtHome
  <2>3. CASE r = s
    BY <1>d, <1>0, <1>2, <2>1, <2>2, <2>3 DEF AtHome
  <2>4. CASE r # s
    BY <1>b, <1>2, <2>2, <2>4 DEF AtHome
  <2> QED
    BY <2>3, <2>4
<1>8. OwnText'
  BY <1>0 DEF OwnText
<1>9. IndexMeansLog'
  <2>1. \A r \in Session : Writing(r) => Writing(r)'
    BY <1>b, <1>0 DEF Writing, Writer
  <2> QED
    BY <1>b, <2>1, CalmFacts DEF IndexMeansLog
<1>10. PathMeansSaved'
  BY <1>b, CalmFacts DEF PathMeansSaved
<1>11. ~DeletionCut => \A r \in Session \ {s} : index[r] # n
  BY <1>e DEF PathsApart, Trusted
<1>12. Whole'
  <2> SUFFICES ASSUME NEW r \in Session, Plain(r), stored[r].status = "finalized", ~Unindexed(r), NEW l \in Kinds
               PROVE  file'[l][stored[r].path] = New(r, stored[r].events)
    BY <1>b, <1>2, CalmFacts DEF Whole
  <2>1. stored[r].path # Absent /\ stored[r].path \in Stems /\ r # s
    BY <1>a, <1>2 DEF StatusPath, StoredRow
  <2>2. stored[r].path # n
    BY <1>11, <2>1 DEF PathsKept, Trusted, Plain
  <2> QED
    BY <1>1, <2>1, <2>2 DEF Whole
<1>13. PartWritten'
  <2> SUFFICES ASSUME thread["worker"].op = "finalize", "reserve" \notin thread["worker"].todo,
                      Plain(thread["worker"].session), NEW l \in Kinds \ thread["worker"].todo
               PROVE  file'[l][thread["worker"].stem] = thread["worker"].text
    BY <1>b, <1>0, CalmFacts DEF PartWritten, Writer
  <2>1. thread["worker"].session \in Session \ {s} /\ Finalizing("worker")
    BY <1>a, <1>b, <1>c DEF JobsShaped
  <2>2. stored[thread["worker"].session].path = Absent
    BY <2>1 DEF Finalizing, PathMeansSaved, Plain
  <2>3. thread["worker"].stem = index[thread["worker"].session] /\ index[thread["worker"].session] \in Stems \ {n}
    BY <1>a, <1>11, <2>1, <2>2 DEF Finalizing, Plain
  <2> QED
    BY <1>a, <1>1, <2>3 DEF PartWritten
<1>14. SentIsKept'
  <2> SUFFICES ASSUME NEW r \in Session, stored[r].status = "none", ~DeletionCut, ~CutIn(r),
                      NEW m \in Stems \union {Absent}, m = index[r]
               PROVE  IF m = Absent THEN appended[r] = 0
                      ELSE \A l \in Kinds : Text(l, m)' = Old(r, appended[r])
    BY <1>a, <1>b, <1>2, CalmFacts DEF SentIsKept, Text, Calm
  <2>1. r # s /\ (m # Absent => m # n)
    BY <1>e, <1>11
  <2>2. m # Absent => \A l \in Kinds : Text(l, m)' = Text(l, m)
    BY <1>1, <2>1
  <2> QED
    BY <1>2, <2>2 DEF SentIsKept
<1> QED
  BY <1>3, <1>4, <1>5, <1>6, <1>7, <1>8, <1>9, <1>10, <1>12, <1>13, <1>14

\* A deletion ends with the session.
LEMMA DropSessionKeeps ==
  ASSUME LogIInv, DropSession
  PROVE  LogIInv'
<1> USE DEF LogIInv
<1>a. /\ "main" \in Writer /\ "worker" \in Writer /\ "main" # "worker"
      /\ thread \in [Writer -> LogJob] /\ thread["main"] \in LogJob
      /\ index \in [Session -> Stems \union {Absent}] /\ stored \in [Session -> StoredRow]
      /\ "session" \notin Kinds /\ "session" # "index"
  BY DEF LogTyped, Writer, Kinds
<1>b. /\ Calm /\ index' = index /\ file' = file /\ Step("main", "session")
      /\ thread["main"].op = "delete" /\ thread["main"].todo = {"session"}
      /\ Erasing("main") /\ thread["main"].session \in Session
      /\ stored' = [stored EXCEPT ![thread["main"].session] =
                       [status |-> "deleted", events |-> 0, path |-> Absent]]
  BY <1>a, StepOrder DEF DropSession, At, Calm, JobsShaped, Erasing
<1>c. PICK s \in Session : s = thread["main"].session
  BY <1>b
<1>d. stored[s].path # Absent => index[s] = Absent
  BY <1>a, <1>b, <1>c DEF Erasing
<1>0. /\ thread' \in [Writer -> LogJob] /\ thread'["worker"] = thread["worker"]
      /\ thread'["main"] = Idle /\ Idle.op = "idle"
  <2>1. Step("main", "session") /\ thread["main"].todo = {"session"}
    BY <1>b
  <2>2. /\ thread' \in [Writer -> LogJob] /\ \A u \in Writer \ {"main"} : thread'[u] = thread[u]
        /\ thread'["main"] = Idle
    BY <1>a, <2>1, StepFacts
  <2> QED
    BY <1>a, <2>2 DEF Idle
<1>1. /\ stored' \in [Session -> StoredRow]
      /\ stored'[s].status = "deleted" /\ stored'[s].path = Absent
      /\ \A r \in Session \ {s} : stored'[r] = stored[r]
  BY <1>a, <1>b, <1>c DEF StoredRow, Status
<1>2. /\ \A r : ~Dying(r)' /\ ~Unindexed(r)' /\ ~AppendedTo(r) /\ ~AppendedTo(r)'
      /\ \A r : r # s => ~Dying(r) /\ ~Unindexed(r)
      /\ thread["worker"].op = "finalize" => thread["worker"].session \in Session \ {s}
  BY <1>a, <1>b, <1>c, <1>0 DEF Dying, Unindexed, AppendedTo, JobsShaped
<1>3. LogTyped'
  BY <1>b, <1>0, <1>1 DEF LogTyped, Calm
<1>4. JobsShaped'
  <2>1. thread["worker"].op = "finalize" => Finalizing("worker")'
    BY <1>a, <1>b, <1>0, <1>1, <1>2 DEF JobsShaped, Finalizing
  <2>2. /\ thread["worker"].op \in {"idle", "finalize"}
        /\ thread["worker"].op = "idle" => thread["worker"] = Idle
    BY <1>a DEF JobsShaped
  <2> QED
    BY <1>0, <1>2, <2>1, <2>2 DEF JobsShaped, Writer
<1>5. IndexApart'
  BY <1>b DEF IndexApart
<1>6. StatusPath' /\ PathMeansSaved'
  <2> SUFFICES ASSUME NEW r \in Session
               PROVE  /\ stored'[r].status \in {"none", "deleted"} => stored'[r].path = Absent
                      /\ stored'[r].status = "finalized" => stored'[r].path # Absent
                      /\ stored'[r].path # Absent /\ stored'[r].status \in {"collecting", "finalizing"} => SaveCut(r)
    BY <1>b, CalmFacts DEF StatusPath, PathMeansSaved
  <2>1. CASE r = s
    BY <1>1, <2>1
  <2>2. CASE r # s
    BY <1>1, <2>2 DEF StatusPath, PathMeansSaved
  <2> QED
    BY <2>1, <2>2
<1>7. PathsKept'
  <2> SUFFICES ASSUME NEW r \in Session, Trusted(r), stored'[r].path # Absent
               PROVE  index[r] = stored'[r].path
    BY <1>b, <1>2, CalmFacts DEF PathsKept
  <2> QED
    BY <1>1, <1>2 DEF PathsKept
<1>8. PathsApart'
  <2> SUFFICES ASSUME NEW r \in Session, NEW q \in Session, r # q, Trusted(r), stored'[r].path # Absent
               PROVE  index[q] # stored'[r].path
    BY <1>b, CalmFacts DEF PathsApart
  <2> QED
    BY <1>1 DEF PathsApart
<1>9. EventsAtHome'
  <2> SUFFICES ASSUME NEW r \in Session, NEW l \in Kinds, NEW m \in Stems, Trusted(r),
                      NEW i \in DOMAIN Text(l, m), Text(l, m)[i][1] = r
               PROVE  m = index[r]
    BY <1>b, <1>2, CalmFacts DEF EventsAtHome, AtHome, Text
  <2>1. AtHome(l, m, r)
    BY DEF EventsAtHome
  <2> QED
    BY <1>a, <1>b, <1>2, <2>1 DEF AtHome
<1>10. OwnText'
  BY <1>0 DEF OwnText
<1>11. IndexMeansLog'
  <2>1. \A r \in Session : Writing(r) => Writing(r)' /\ r # s
    BY <1>b, <1>0, <1>2 DEF Writing, Writer
  <2> SUFFICES ASSUME NEW r \in Session, ~Touched(r), ~CutIn(r), index[r] # Absent
               PROVE  stored'[r].path # Absent \/ Writing(r)'
    BY <1>b, CalmFacts DEF IndexMeansLog
  <2>2. stored[r].path # Absent \/ Writing(r)
    BY DEF IndexMeansLog
  <2> QED
    BY <1>d, <1>1, <2>1, <2>2
<1>12. Whole'
  <2> SUFFICES ASSUME NEW r \in Session, Plain(r), stored'[r].status = "finalized", NEW l \in Kinds
               PROVE  file[l][stored'[r].path] = New(r, stored'[r].events)
    BY <1>b, CalmFacts DEF Whole
  <2> QED
    BY <1>1, <1>2 DEF Whole
<1>13. PartWritten'
  <2> SUFFICES ASSUME thread["worker"].op = "finalize", "reserve" \notin thread["worker"].todo,
                      Plain(thread["worker"].session), NEW l \in Kinds \ thread["worker"].todo
               PROVE  file[l][thread["worker"].stem] = thread["worker"].text
    BY <1>b, <1>0, CalmFacts DEF PartWritten, Writer
  <2> QED
    BY <1>a DEF PartWritten
<1>14. SentIsKept'
  <2> SUFFICES ASSUME NEW r \in Session, stored'[r].status = "none", ~DeletionCut, ~CutIn(r)
               PROVE  IF index[r] = Absent THEN appended[r] = 0
                      ELSE \A l \in Kinds : Text(l, index[r]) = Old(r, appended[r])
    BY <1>b, <1>2, CalmFacts DEF SentIsKept, Text, Calm
  <2> QED
    BY <1>1, <1>2 DEF SentIsKept
<1> QED
  BY <1>3, <1>4, <1>5, <1>6, <1>7, <1>8, <1>9, <1>10, <1>11, <1>12, <1>13, <1>14

\* What is remembered of an operation that stops half way.
LEMMA CutFacts ==
  ASSUME LogIInv, NEW t \in Writer, CutOf(t) \subseteq cut', NEW s, s = thread[t].session
  PROVE  /\ thread[t].op = "finalize" /\ "reserve" \notin thread[t].todo => CutIn(s)'
         /\ At(t, "finalize", "save") => SaveCut(s)'
         /\ thread[t].op = "append" => CutIn(s)'
         /\ thread[t].op = "delete" /\ "index" \notin thread[t].todo => CutIn(s)' /\ DeletionCut'
<1>1. ASSUME thread[t].op # "idle", ~At(t, "finalize", "reserve"), ~At(t, "delete", "index")
      PROVE  /\ CutIn(s)' /\ (thread[t].op = "delete" => DeletionCut')
             /\ At(t, "finalize", "save") => SaveCut(s)'
  <2> DEFINE c == [op |-> IF At(t, "finalize", "save") THEN "save" ELSE thread[t].op, session |-> s]
  <2>1. c \in cut'
    BY <1>1 DEF CutOf, Rests, Idle
  <2>2. /\ c.session = s /\ (thread[t].op = "delete" => c.op = "delete")
        /\ At(t, "finalize", "save") => c.op = "save"
    BY DEF At
  <2> HIDE DEF c
  <2> QED
    BY <2>1, <2>2 DEF CutIn, SaveCut, DeletionCut
<1>2. At(t, "finalize", "reserve") => thread[t].op = "finalize" /\ "reserve" \in thread[t].todo
  BY DEF At
<1>3. At(t, "delete", "index") => thread[t].op = "delete" /\ "index" \in thread[t].todo
  BY DEF At
<1>4. At(t, "finalize", "save") => thread[t].op = "finalize" /\ "reserve" \notin thread[t].todo
  BY StepOrder DEF LogIInv, JobsShaped, Finalizing, At
<1> QED
  BY <1>1, <1>2, <1>3, <1>4

\* What is left of the threads, the files and the sessions when the threads
\* in T stop.
Stopped(T) ==
  /\ index' = index /\ appended' = appended /\ cut \subseteq cut'
  /\ \A t \in T : CutOf(t) \subseteq cut'
  /\ thread' = [t \in Writer |-> IF t \in T THEN Idle ELSE thread[t]]
  /\ file' = file \/ ("main" \in T /\ Emptied("main"))
  /\ stored' \in [Session -> StoredRow]
  /\ \A s \in Session : stored'[s] = stored[s] \/
       \E t \in T : /\ thread[t].op = "finalize" /\ thread[t].session = s
                    /\ stored'[s].status = "collecting"
                    /\ stored'[s].path = IF At(t, "finalize", "save") THEN thread[t].stem ELSE stored[s].path

\* A failure and a death of the process keep the invariant.
LEMMA StoppedKeeps ==
  ASSUME LogIInv, NEW T, T \subseteq Writer, Stopped(T)
  PROVE  LogIInv'
<1> USE DEF LogIInv
<1>a. /\ "main" \in Writer /\ "worker" \in Writer /\ "main" # "worker" /\ Writer = {"main", "worker"}
      /\ thread \in [Writer -> LogJob] /\ Idle \in LogJob /\ Idle.op = "idle"
      /\ index \in [Session -> Stems \union {Absent}] /\ stored \in [Session -> StoredRow]
      /\ appended \in [Session -> Nat]
  BY DEF LogTyped, Writer, Idle, LogJob, Texts
<1>b. /\ index' = index /\ appended' = appended /\ cut \subseteq cut' /\ stored' \in [Session -> StoredRow]
      /\ \A t \in T : CutOf(t) \subseteq cut'
  BY DEF Stopped
<1>0. /\ thread' \in [Writer -> LogJob]
      /\ \A t \in T : thread'[t] = Idle
      /\ \A u \in Writer \ T : thread'[u] = thread[u]
  BY <1>a DEF Stopped
<1>1. \A s \in Session :
        /\ Trusted(s)' => Trusted(s)
        /\ Plain(s)' => Plain(s)
        /\ DeletionCut => DeletionCut'
        /\ CutIn(s) => CutIn(s)'
        /\ SaveCut(s) => SaveCut(s)'
        /\ Touched(s)' <=> Touched(s)
  <2> SUFFICES ASSUME NEW s \in Session
               PROVE  /\ Trusted(s)' => Trusted(s)
                      /\ Plain(s)' => Plain(s)
                      /\ DeletionCut => DeletionCut'
                      /\ CutIn(s) => CutIn(s)'
                      /\ SaveCut(s) => SaveCut(s)'
                      /\ Touched(s)' <=> Touched(s)
    OBVIOUS
  <2>1. appended[s] \in Nat /\ appended'[s] \in Nat /\ appended[s] <= appended'[s]
    BY <1>a, <1>b
  <2> QED
    <3>1. /\ Trusted(s)' => Trusted(s)
          /\ Plain(s)' => Plain(s)
          /\ DeletionCut => DeletionCut'
          /\ CutIn(s) => CutIn(s)'
          /\ SaveCut(s) => SaveCut(s)'
      BY <1>b, <2>1, TrustShrinks
    <3>2. Touched(s)' <=> Touched(s)
      BY <1>b DEF Touched
    <3> QED
      BY <3>1, <3>2
\* What has been cut, and how that is remembered.
<1>2. \A t \in T, s \in Session : thread[t].session = s =>
        /\ thread[t].op = "finalize" /\ "reserve" \notin thread[t].todo => CutIn(s)'
        /\ At(t, "finalize", "save") => SaveCut(s)'
        /\ thread[t].op = "append" => CutIn(s)'
        /\ thread[t].op = "delete" /\ "index" \notin thread[t].todo => CutIn(s)' /\ DeletionCut'
  BY <1>b, CutFacts
\* A session is taken back with the log it had, or with that of its index.
<1>3. ASSUME NEW s \in Session, stored'[s] # stored[s]
      PROVE  /\ stored'[s].status = "collecting" /\ stored[s].status = "finalizing" /\ ~Dying(s)
             /\ \E t \in T : thread[t].op = "finalize" /\ thread[t].session = s
             /\ \/ stored'[s].path = stored[s].path
                \/ stored'[s].path = index[s] /\ index[s] # Absent /\ SaveCut(s)'
  <2>1. PICK t \in T : /\ thread[t].op = "finalize" /\ thread[t].session = s
                       /\ stored'[s].status = "collecting"
                       /\ stored'[s].path = IF At(t, "finalize", "save") THEN thread[t].stem ELSE stored[s].path
    BY <1>3 DEF Stopped
  <2>2. Finalizing(t)
    BY <1>a, <2>1 DEF JobsShaped
  <2>3. ~Dying(s)
    BY <1>a, <2>1 DEF Dying, JobsShaped
  <2>4. CASE At(t, "finalize", "save")
    <3>1. SaveCut(s)' /\ stored'[s].path = thread[t].stem
      BY <1>2, <2>1, <2>4
    <3>2. thread[t].todo = {"save"} /\ "reserve" # "save"
      BY <2>2, <2>4, StepOrder DEF Finalizing
    <3>3. thread[t].stem = stored[s].path \/ (thread[t].stem = index[s] /\ index[s] # Absent)
      BY <2>1, <2>2, <3>2 DEF Finalizing
    <3> QED
      BY <2>1, <2>2, <2>3, <3>1, <3>3 DEF Finalizing
  <2>5. CASE ~At(t, "finalize", "save")
    BY <2>1, <2>2, <2>3, <2>5 DEF Finalizing
  <2> QED
    BY <2>4, <2>5
\* Of the texts one may have been emptied, that of an append that is cut.
<1>4. /\ file' \in [Kinds -> [Stems -> {Absent} \union Texts]]
      /\ \/ file' = file
         \/ \E a \in Session, k \in Kinds, n \in Stems :
               /\ n = index[a] /\ CutIn(a)' /\ Touched(a) /\ Text(k, n)' = <<>>
               /\ \A l \in Kinds, m \in Stems : l # k \/ m # n => file'[l][m] = file[l][m] /\ Text(l, m)' = Text(l, m)
  <2>1. CASE file' = file
    BY <2>1 DEF LogTyped
  <2>2. CASE "main" \in T /\ Emptied("main")
    <3>1. PICK k \in {"md", "timeline"} : At("main", "append", k) /\ Put(k, thread["main"].stem, <<>>)
      BY <2>2 DEF Emptied
    <3>2. k \in Kinds /\ <<>> \in {Absent} \union Texts /\ <<>> \in Texts
      BY DEF Kinds, Texts
    <3>3. /\ thread["main"].op = "append" /\ "reserve" \notin thread["main"].todo
          /\ Appending("main") /\ thread["main"].session \in Session
      BY <1>a, <3>1, <3>2, StepOrder DEF At, JobsShaped
    <3>4. PICK a \in Session : a = thread["main"].session
      BY <3>3
    <3>5. PICK n \in Stems : n = thread["main"].stem /\ n = index[a]
      BY <1>a, <3>3, <3>4 DEF Appending
    <3>6. CutIn(a)' /\ Touched(a)
      BY <1>2, <2>2, <3>3, <3>4 DEF Appending, Touched
    <3>7. Put(k, n, <<>>)
      BY <3>1, <3>5
    <3>8. /\ file' \in [Kinds -> [Stems -> {Absent} \union Texts]]
          /\ Text(k, n)' = <<>>
          /\ \A l \in Kinds, m \in Stems : l # k \/ m # n => file'[l][m] = file[l][m] /\ Text(l, m)' = Text(l, m)
      BY <3>2, <3>7, PutFacts
    <3> QED
      BY <3>2, <3>5, <3>6, <3>8
  <2> QED
    BY <2>1, <2>2 DEF Stopped
<1>5. /\ \A s : Dying(s)' => Dying(s) /\ (Unindexed(s)' <=> Unindexed(s)) /\ thread'["main"] = thread["main"]
      /\ \A s : Unindexed(s)' => Unindexed(s)
      /\ \A s : AppendedTo(s)' => AppendedTo(s) /\ thread'["main"] = thread["main"]
      /\ \A s : Dying(s) /\ ~Dying(s)' => "main" \in T
      /\ \A s : AppendedTo(s) /\ ~AppendedTo(s)' => "main" \in T
  BY <1>a, <1>0 DEF Dying, Unindexed, AppendedTo
<1>6. \A s \in Session : Unindexed(s) /\ ~Unindexed(s)' => ~Trusted(s)' /\ DeletionCut'
  <2> SUFFICES ASSUME NEW s \in Session, Unindexed(s), ~Unindexed(s)'
               PROVE  ~Trusted(s)' /\ DeletionCut'
    OBVIOUS
  <2>1. "main" \in T
    BY <1>a, <1>0 DEF Unindexed, Dying
  <2>2. CutIn(s)' /\ DeletionCut'
    BY <1>2, <2>1 DEF Unindexed, Dying
  <2> QED
    BY <2>2 DEF Trusted
<1>7. LogTyped'
  BY <1>a, <1>b, <1>0, <1>4 DEF LogTyped
<1>8. JobsShaped'
  <2>1. ASSUME NEW u \in Writer \ T
        PROVE  /\ thread[u].op = "finalize" => Finalizing(u)'
               /\ thread[u].op = "append" => Appending(u)'
               /\ thread[u].op = "delete" => Erasing(u)'
    <3>1. thread'[u] = thread[u] /\ index' = index /\ appended' = appended
      BY <1>b, <1>0
    <3>2. ASSUME thread[u].op \in {"finalize", "delete"}
          PROVE  stored'[thread[u].session] = stored[thread[u].session]
      BY <1>3, <1>a, <3>2 DEF JobsShaped
    <3>3. thread[u].op = "finalize" => Finalizing(u)'
      BY <3>1, <3>2 DEF JobsShaped, Finalizing
    <3>4. thread[u].op = "append" => Appending(u)'
      BY <3>1 DEF JobsShaped, Appending
    <3>5. thread[u].op = "delete" => Erasing(u)'
      BY <3>1, <3>2 DEF JobsShaped, Erasing
    <3> QED
      BY <3>3, <3>4, <3>5
  <2>2. ASSUME NEW u \in Writer
        PROVE  /\ thread'[u].op = "idle" => thread'[u] = Idle
               /\ thread'[u].op # "idle" => thread'[u].session \in Session /\ u \notin T
    BY <1>a, <1>0 DEF JobsShaped
  <2>3. /\ thread'["worker"].op \in {"idle", "finalize"}
        /\ thread'["worker"].op = "finalize" /\ thread'["main"].op \in {"finalize", "delete"}
             => thread'["worker"].session # thread'["main"].session
    BY <1>a, <1>0 DEF JobsShaped
  <2> QED
    BY <1>0, <2>1, <2>2, <2>3 DEF JobsShaped
<1>9. IndexApart'
  BY <1>b DEF IndexApart
<1>10. StatusPath'
  <2> SUFFICES ASSUME NEW s \in Session
               PROVE  /\ stored'[s].status \in {"none", "deleted"} => stored'[s].path = Absent
                      /\ stored'[s].status = "finalized" => stored'[s].path # Absent
    BY DEF StatusPath
  <2> QED
    BY <1>3 DEF StatusPath
<1>11. PathsKept'
  <2> SUFFICES ASSUME NEW s \in Session, Trusted(s)', stored'[s].path # Absent
               PROVE  index[s] = IF Unindexed(s)' THEN Absent ELSE stored'[s].path
    BY <1>b DEF PathsKept
  <2>1. Unindexed(s)' <=> Unindexed(s)
    BY <1>5, <1>6
  <2>2. Unindexed(s) => Dying(s)
    BY DEF Unindexed
  <2>3. CASE stored'[s].path = stored[s].path
    BY <1>1, <2>1, <2>3 DEF PathsKept
  <2>4. CASE stored'[s].path # stored[s].path
    BY <1>3, <2>1, <2>2, <2>4
  <2> QED
    BY <2>3, <2>4
<1>12. PathsApart'
  <2> SUFFICES ASSUME NEW r \in Session, NEW q \in Session, r # q, Trusted(r)', stored'[r].path # Absent
               PROVE  index[q] # stored'[r].path
    BY <1>b DEF PathsApart
  <2>1. CASE stored'[r].path = stored[r].path
    BY <1>1, <2>1 DEF PathsApart
  <2>2. CASE stored'[r].path # stored[r].path
    BY <1>3, <2>2 DEF IndexApart
  <2> QED
    BY <2>1, <2>2
<1>13. EventsAtHome'
  <2> SUFFICES ASSUME NEW s \in Session, NEW l \in Kinds, NEW m \in Stems, Trusted(s)',
                      NEW i \in DOMAIN Text(l, m)', Text(l, m)'[i][1] = s
               PROVE  AtHome(l, m, s)'
    BY DEF EventsAtHome
  <2>1. Text(l, m)' = Text(l, m)
    <3>1. Text(l, m)' # <<>>
      OBVIOUS
    <3>2. CASE file' = file
      BY <3>2 DEF Text
    <3>3. CASE file' # file
      BY <1>4, <3>1, <3>3
    <3> QED
      BY <3>2, <3>3
  <2>2. AtHome(l, m, s) /\ Trusted(s)
    BY <1>1, <2>1 DEF EventsAtHome
  <2>3. CASE Dying(s)'
    BY <1>5, <2>2, <2>3 DEF AtHome
  <2>4. CASE ~Dying(s)' /\ ~Dying(s)
    BY <1>b, <2>2, <2>4 DEF AtHome
  <2>5. CASE ~Dying(s)' /\ Dying(s)
    <3>1. m = thread["main"].stem /\ ~Unindexed(s)
      BY <1>6, <2>2, <2>5 DEF AtHome, Unindexed
    <3>2. thread["main"].stem = stored[s].path /\ stored[s].path # Absent
      BY <1>a, <2>5 DEF Dying, JobsShaped, Erasing
    <3> QED
      BY <1>b, <2>2, <2>5, <3>1, <3>2 DEF PathsKept, AtHome
  <2> QED
    BY <2>3, <2>4, <2>5
<1>14. OwnText'
  <2>1. CASE "main" \in T
    BY <1>a, <1>0, <2>1 DEF OwnText
  <2>2. CASE "main" \notin T
    <3>1. thread'["main"] = thread["main"]
      BY <1>a, <1>0, <2>2
    <3>2. thread["main"].text \in Seq(Event)
      BY <1>a DEF LogJob, Texts
    <3>3. \A i \in DOMAIN thread["main"].text : thread["main"].text[i][1] \in Session
      BY <3>2 DEF Event
    <3> QED
      BY <1>1, <3>1, <3>3 DEF OwnText
  <2> QED
    BY <2>1, <2>2
<1>15. IndexMeansLog'
  <2> SUFFICES ASSUME NEW s \in Session, ~Touched(s), ~CutIn(s)', index[s] # Absent
               PROVE  stored'[s].path # Absent \/ Writing(s)'
    BY <1>b, <1>1 DEF IndexMeansLog
  <2>1. stored[s].path # Absent \/ Writing(s)
    BY <1>1 DEF IndexMeansLog
  <2>2. stored[s].path # Absent => stored'[s].path # Absent
    BY <1>3
  <2>3. Writing(s) => Writing(s)'
    BY <1>0, <1>2 DEF Writing
  <2> QED
    BY <2>1, <2>2, <2>3
<1>16. PathMeansSaved'
  <2> SUFFICES ASSUME NEW s \in Session, stored'[s].path # Absent, stored'[s].status \in {"collecting", "finalizing"}
               PROVE  SaveCut(s)'
    BY DEF PathMeansSaved
  <2> QED
    BY <1>1, <1>3 DEF PathMeansSaved
\* A log whose session nobody else wrote to is as it was.
<1>17. \A s \in Session, m \in Stems, l \in Kinds :
         index[s] = m /\ (~Touched(s) \/ ~CutIn(s)') => file'[l][m] = file[l][m] /\ Text(l, m)' = Text(l, m)
  <2> SUFFICES ASSUME NEW s \in Session, NEW m \in Stems, NEW l \in Kinds, index[s] = m, ~Touched(s) \/ ~CutIn(s)'
               PROVE  file'[l][m] = file[l][m] /\ Text(l, m)' = Text(l, m)
    OBVIOUS
  <2>1. CASE file' = file
    BY <2>1 DEF Text
  <2>2. CASE file' # file
    <3>1. PICK a \in Session, k \in Kinds, n \in Stems :
               /\ n = index[a] /\ CutIn(a)' /\ Touched(a)
               /\ \A x \in Kinds, y \in Stems : x # k \/ y # n => file'[x][y] = file[x][y] /\ Text(x, y)' = Text(x, y)
      BY <1>4, <2>2
    <3>2. a # s
      BY <3>1
    <3>3. m # n
      BY <3>1, <3>2, NoStem DEF IndexApart
    <3> QED
      BY <3>1, <3>3
  <2> QED
    BY <2>1, <2>2
<1>18. Whole'
  <2> SUFFICES ASSUME NEW s \in Session, Plain(s)', stored'[s].status = "finalized", ~Unindexed(s)', NEW l \in Kinds
               PROVE  file'[l][stored'[s].path] = New(s, stored'[s].events)
    BY DEF Whole
  <2>1. stored'[s] = stored[s] /\ Plain(s)
    BY <1>1, <1>3
  <2>2. ~Unindexed(s)
    BY <1>6 DEF Plain
  <2>3. stored[s].path # Absent /\ stored[s].path \in Stems
    BY <1>a, <2>1 DEF StatusPath, StoredRow
  <2>4. index[s] = stored[s].path
    BY <2>1, <2>2, <2>3 DEF PathsKept, Trusted, Plain
  <2>5. file'[l][stored[s].path] = file[l][stored[s].path]
    BY <1>17, <2>1, <2>3, <2>4 DEF Plain
  <2> QED
    BY <2>1, <2>2, <2>5 DEF Whole
<1>19. PartWritten'
  <2> SUFFICES ASSUME NEW u \in Writer, thread'[u].op = "finalize", "reserve" \notin thread'[u].todo,
                      Plain(thread[u].session)', NEW l \in Kinds \ thread'[u].todo
               PROVE  file'[l][thread'[u].stem] = thread'[u].text
    <3>1. \A u \in Writer : thread'[u].op = "finalize" => thread'[u] = thread[u]
      BY <1>a, <1>0
    <3> QED
      BY <3>1 DEF PartWritten
  <2>1. thread'[u] = thread[u]
    BY <1>a, <1>0
  <2>2. PICK s \in Session : s = thread[u].session /\ Plain(s)'
    BY <2>1 DEF JobsShaped
  <2>3. Plain(s)' /\ Finalizing(u)
    BY <2>1, <2>2 DEF JobsShaped
  <2>4. Plain(s)
    BY <1>1, <2>3
  <2>5. stored[s].path = Absent
    BY <2>2, <2>3, <2>4 DEF Finalizing, PathMeansSaved, Plain
  <2>6. thread[u].stem = index[s] /\ index[s] \in Stems
    BY <1>a, <2>1, <2>2, <2>3, <2>5 DEF Finalizing
  <2>7. file'[l][thread[u].stem] = file[l][thread[u].stem]
    BY <1>17, <2>4, <2>6 DEF Plain
  <2> QED
    BY <2>1, <2>2, <2>4, <2>7 DEF PartWritten
<1>20. SentIsKept'
  <2> SUFFICES ASSUME NEW s \in Session, stored'[s].status = "none", ~DeletionCut', ~CutIn(s)',
                      NEW m \in Stems \union {Absent}, m = index[s]
               PROVE  IF AppendedTo(s)'
                      THEN IF "reserve" \in thread'["main"].todo
                           THEN IF m = Absent THEN appended[s] = 1
                                ELSE \A l \in Kinds : Text(l, m)' = Before(s)
                           ELSE /\ thread'["main"].text = Old(s, appended[s])
                                /\ \A l \in Kinds : Text(l, m)' =
                                     IF l \in thread'["main"].todo THEN Before(s) ELSE Old(s, appended[s])
                      ELSE IF m = Absent THEN appended[s] = 0
                           ELSE \A l \in Kinds : Text(l, m)' = Old(s, appended[s])
    BY <1>a, <1>b DEF SentIsKept, Before, Text
  <2>1. stored[s].status = "none" /\ ~DeletionCut /\ ~CutIn(s)
    BY <1>1, <1>3
  <2>2. m # Absent => \A l \in Kinds : Text(l, m)' = Text(l, m)
    BY <1>17
  <2>3. CASE AppendedTo(s)'
    <3>1. AppendedTo(s) /\ thread'["main"] = thread["main"]
      BY <1>5, <2>3
    <3>2. "reserve" \notin thread["main"].todo => m # Absent
      BY <1>a, <3>1 DEF AppendedTo, JobsShaped, Appending
    <3> QED
      BY <2>1, <2>2, <2>3, <3>1, <3>2 DEF SentIsKept
  <2>4. CASE ~AppendedTo(s)'
    <3>1. ~AppendedTo(s)
      BY <1>2, <1>5, <2>4 DEF AppendedTo
    <3> QED
      BY <2>1, <2>2, <2>4, <3>1 DEF SentIsKept
  <2> QED
    BY <2>3, <2>4
<1> QED
  BY <1>7, <1>8, <1>9, <1>10, <1>11, <1>12, <1>13, <1>14, <1>15, <1>16, <1>18, <1>19, <1>20

\* A failure takes a finalizing session back, or leaves it finalizing.
LEMMA FailKeeps ==
  ASSUME LogIInv, NEW t \in Writer, Fail(t)
  PROVE  LogIInv'
<1>a. /\ stored \in [Session -> StoredRow] /\ thread \in [Writer -> LogJob]
      /\ index \in [Session -> Stems \union {Absent}]
      /\ "main" \in Writer /\ "worker" \in Writer
  BY DEF LogIInv, LogTyped, Writer
<1>1. stored' \in TakeBack(t) /\ (Emptied(t) \/ file' = file)
  BY DEF Fail
<1>2. Emptied(t) => t = "main"
  BY <1>a DEF Emptied, At, LogIInv, JobsShaped, Writer
<1>3. /\ stored' \in [Session -> StoredRow]
      /\ \A s \in Session : stored'[s] = stored[s] \/
           /\ thread[t].op = "finalize" /\ thread[t].session = s
           /\ stored'[s].status = "collecting"
           /\ stored'[s].path = IF At(t, "finalize", "save") THEN thread[t].stem ELSE stored[s].path
  <2>1. CASE stored' = stored
    BY <1>a, <2>1
  <2>2. CASE stored' # stored
    <3>1. thread[t].op = "finalize" /\ thread[t].session \in Session
      BY <1>1, <2>2 DEF TakeBack, LogIInv, JobsShaped
    <3>2. PICK s \in Session : s = thread[t].session
      BY <3>1
    <3> DEFINE n == IF At(t, "finalize", "save") THEN thread[t].stem ELSE stored[s].path
               row == [stored[s] EXCEPT !.status = "collecting", !.path = n]
    <3>3. stored[s] \in StoredRow /\ n \in Stems \union {Absent}
      BY <1>a DEF StoredRow, LogJob
    <3>4. stored' = [stored EXCEPT ![s] = row]
      <4>1. stored' = [stored EXCEPT ![s].status = "collecting",
                                     ![s].path = IF At(t, "finalize", "save") THEN thread[t].stem ELSE @]
        BY <1>1, <2>2, <3>1, <3>2 DEF TakeBack
      <4>2. CASE At(t, "finalize", "save")
        BY <3>3, <4>1, <4>2 DEF StoredRow
      <4>3. CASE ~At(t, "finalize", "save")
        BY <3>3, <4>1, <4>3 DEF StoredRow
      <4> QED
        BY <4>2, <4>3
    <3> HIDE DEF n
    <3>5. row \in StoredRow /\ row.status = "collecting" /\ row.path = n
      BY <3>3 DEF StoredRow, Status
    <3> HIDE DEF row
    <3>6. /\ stored' \in [Session -> StoredRow] /\ stored'[s] = row
          /\ \A r \in Session \ {s} : stored'[r] = stored[r]
      BY <1>a, <3>4, <3>5
    <3> QED
      BY <3>1, <3>2, <3>5, <3>6 DEF n
  <2> QED
    BY <2>1, <2>2
<1>4. thread' = [u \in Writer |-> IF u \in {t} THEN Idle ELSE thread[u]]
  BY <1>a DEF Fail
<1>5. /\ index' = index /\ appended' = appended /\ cut \subseteq cut'
      /\ \A u \in {t} : CutOf(u) \subseteq cut'
  BY DEF Fail
<1>6. Stopped({t})
  BY <1>1, <1>2, <1>3, <1>4, <1>5 DEF Stopped
<1> QED
  BY <1>6, StoppedKeeps

\* The process dies.
LEMMA CrashKeeps ==
  ASSUME LogIInv, Crash
  PROVE  LogIInv'
<1>1. /\ stored' = stored /\ index' = index /\ appended' = appended
      /\ Emptied("main") \/ file' = file
      /\ cut \subseteq cut' /\ \A t \in Writer : CutOf(t) \subseteq cut'
      /\ thread' = [t \in Writer |-> IF t \in Writer THEN Idle ELSE thread[t]]
  BY DEF Crash
<1>2. stored' \in [Session -> StoredRow] /\ "main" \in Writer
  BY <1>1 DEF LogIInv, LogTyped, Writer
<1>3. Stopped(Writer)
  BY <1>1, <1>2 DEF Stopped
<1> QED
  BY <1>3, StoppedKeeps

-----------------------------------------------------------------------------
\* The invariant holds before anything has happened.
LEMMA LogBegins == LogInit => LogIInv
<1> SUFFICES ASSUME LogInit PROVE LogIInv
  OBVIOUS
<1>1. /\ stored \in [Session -> StoredRow]
      /\ \A s \in Session : stored[s].status \in {"none", "collecting"} /\ stored[s].path = Absent
      /\ index = [s \in Session |-> Absent]
      /\ file = [k \in Kinds |-> [n \in Stems |-> Absent]]
      /\ thread = [t \in Writer |-> Idle] /\ appended = [s \in Session |-> 0] /\ cut = {}
  <2>1. stored \in [Session -> [status : {"none", "collecting"}, events : {0}, path : {Absent}]]
    BY DEF LogInit
  <2>2. [status : {"none", "collecting"}, events : {0}, path : {Absent}] \subseteq StoredRow
    BY DEF StoredRow, Status
  <2>3. /\ \A s \in Session : stored[s] \in StoredRow
        /\ \A s \in Session : stored[s].status \in {"none", "collecting"} /\ stored[s].path = Absent
    BY <2>1, <2>2
  <2>4. stored \in [Session -> StoredRow]
    BY <2>1, <2>2
  <2> QED
    BY <2>3, <2>4 DEF LogInit
<1>2. Idle \in LogJob /\ Idle.op = "idle" /\ "main" \in Writer /\ "worker" \in Writer
  BY DEF Idle, LogJob, Texts, Writer
<1>3. \A t \in Writer : thread[t] = Idle
  BY <1>1
<1>4. \A k \in Kinds, n \in Stems : Text(k, n) = <<>>
  BY <1>1 DEF Text
<1>5. LogTyped
  BY <1>1, <1>2 DEF LogTyped
<1>6. JobsShaped
  BY <1>2, <1>3 DEF JobsShaped
<1>7. IndexApart /\ StatusPath /\ PathsKept /\ PathsApart /\ PathMeansSaved /\ Whole
  BY <1>1 DEF IndexApart, StatusPath, PathsKept, PathsApart, PathMeansSaved, Whole
<1>8. EventsAtHome
  BY <1>4 DEF EventsAtHome
<1>9. OwnText /\ PartWritten
  BY <1>2, <1>3 DEF OwnText, PartWritten
<1>10. IndexMeansLog
  BY <1>1 DEF IndexMeansLog
<1>11. SentIsKept
  BY <1>1, <1>2, <1>3 DEF SentIsKept, AppendedTo
<1> QED
  BY <1>5, <1>6, <1>7, <1>8, <1>9, <1>10, <1>11 DEF LogIInv

\* Every step keeps it.
LEMMA LogStep == LogIInv /\ [LogNext]_logVars => LogIInv'
<1> SUFFICES ASSUME LogIInv, [LogNext]_logVars PROVE LogIInv'
  OBVIOUS
<1>1. ASSUME NEW s \in Session, Record(s) PROVE LogIInv'
  BY <1>1, RecordKeeps
<1>2. ASSUME NEW s \in Session, AppendBegin(s) PROVE LogIInv'
  BY <1>2, AppendBeginKeeps
<1>3. ASSUME NEW s \in Session, DeleteBegin(s) PROVE LogIInv'
  BY <1>3, DeleteBeginKeeps
<1>4. ASSUME NEW s \in Session, Recover(s) PROVE LogIInv'
  BY <1>4, RecoverKeeps
<1>5. ASSUME NEW s \in Session, NEW t \in Writer, FinalizeBegin(t, s) PROVE LogIInv'
  BY <1>5, FinalizeBeginKeeps
<1>6. ASSUME NEW t \in Writer, Reserve(t) PROVE LogIInv'
  BY <1>6, ReserveKeeps
<1>7. ASSUME NEW t \in Writer, Save(t) PROVE LogIInv'
  BY <1>7, SaveKeeps
<1>8. ASSUME NEW t \in Writer, NEW k \in Kinds, Project(t, k) PROVE LogIInv'
  BY <1>8, ProjectKeeps
<1>9. ASSUME NEW k \in Kinds, AppendTo(k) PROVE LogIInv'
  BY <1>9, AppendToKeeps
<1>10. ASSUME NEW k \in Kinds, Unlink(k) PROVE LogIInv'
  BY <1>10, UnlinkKeeps
<1>11. CASE Unindex
  BY <1>11, UnindexKeeps
<1>12. CASE DropSession
  BY <1>12, DropSessionKeeps
<1>13. CASE Trouble
  BY <1>13, FailKeeps, CrashKeeps DEF Trouble
<1>14. CASE UNCHANGED logVars
  <2>1. Stopped({})
    BY <1>14 DEF Stopped, logVars, LogIInv, LogTyped
  <2> QED
    BY <2>1, StoppedKeeps
<1> QED
  BY <1>1, <1>2, <1>3, <1>4, <1>5, <1>6, <1>7, <1>8, <1>9, <1>10, <1>11, <1>12, <1>13, <1>14 DEF LogNext

\* What the invariant says of the logs.
LEMMA LogsFollow == LogIInv => LogsAreTrue
<1> SUFFICES ASSUME LogIInv PROVE LogsAreTrue
  OBVIOUS
<1> USE DEF LogIInv
<1>a. /\ stored \in [Session -> StoredRow] /\ index \in [Session -> Stems \union {Absent}]
      /\ "main" \in Writer /\ "worker" \in Writer /\ appended \in [Session -> Nat]
  BY DEF LogTyped, Writer
<1>1. FinalizedHasWholeLog
  <2> SUFFICES ASSUME NEW s \in Session, stored[s].status = "finalized", ~Locked(s), ~Touched(s), ~DeletionCut,
                      ~(\E c \in cut : c.session = s /\ c.op = "save"), NEW k \in Kinds
               PROVE  file[k][stored[s].path] = New(s, stored[s].events)
    BY DEF FinalizedHasWholeLog
  <2>1. Plain(s)
    BY DEF Plain, SaveCut
  <2>2. ~Unindexed(s)
    BY <1>a DEF Unindexed, Dying, Locked
  <2> QED
    BY <2>1, <2>2 DEF Whole
<1>2. LogsStayApart
  <2> SUFFICES ASSUME ~DeletionCut, NEW s \in Named
               PROVE  /\ \A r \in Named \ {s} : index[r] # index[s]
                      /\ \A k \in Kinds : \A i \in DOMAIN Text(k, index[s]) : Text(k, index[s])[i][1] = s
    BY DEF LogsStayApart
  <2>1. s \in Session /\ index[s] # Absent /\ index[s] \in Stems
    BY <1>a DEF Named
  <2>2. \A r \in Named \ {s} : index[r] # index[s]
    BY <2>1 DEF Named, IndexApart
  <2>3. ASSUME NEW k \in Kinds, NEW i \in DOMAIN Text(k, index[s])
        PROVE  Text(k, index[s])[i][1] = s
    <3>1. PICK r \in Session : r = Text(k, index[s])[i][1]
      BY <2>1, <2>3, TextFacts
    <3>2. AtHome(k, index[s], r)
      BY <2>1, <2>3, <3>1 DEF EventsAtHome, Trusted
    <3>3. CASE Dying(r)
      <4>1. index[s] = thread["main"].stem /\ thread["main"].stem = stored[r].path /\ stored[r].path # Absent
        BY <1>a, <3>2, <3>3 DEF AtHome, Dying, JobsShaped, Erasing
      <4> QED
        BY <2>1, <3>1, <4>1 DEF PathsApart, Trusted
    <3>4. CASE ~Dying(r)
      BY <2>1, <3>1, <3>2, <3>4 DEF AtHome, IndexApart
    <3> QED
      BY <3>3, <3>4
  <2> QED
    BY <2>2, <2>3
<1>3. AppendsAreKept
  <2> SUFFICES ASSUME NEW s \in Session, stored[s].status = "none", Touched(s), ~DeletionCut,
                      ~(\E c \in cut : c.session = s), thread["main"].session # s, s \in Named, NEW k \in Kinds
               PROVE  file[k][index[s]] = Old(s, appended[s])
    BY DEF AppendsAreKept
  <2>1. index[s] # Absent /\ appended[s] \in Nat /\ appended[s] > 0
    BY <1>a DEF Named, Touched
  <2>2. Text(k, index[s]) = Old(s, appended[s])
    BY <2>1 DEF SentIsKept, AppendedTo, CutIn
  <2>3. Old(s, appended[s]) # <<>>
    <3>1. Old(s, appended[s]) \in Texts /\ Len(Old(s, appended[s])) = appended[s]
      BY <2>1, NewLog
    <3> QED
      BY <2>1, <3>1
  <2> QED
    BY <2>2, <2>3 DEF Text
<1>4. ErasedIsGone
  <2> SUFFICES ASSUME NEW s \in Session, stored[s].status = "deleted", ~Touched(s), ~(\E c \in cut : c.session = s)
               PROVE  s \notin Named /\ \A n \in Stems : ~Holds(n, s)
    BY DEF ErasedIsGone
  <2>1. ~CutIn(s) /\ Trusted(s) /\ stored[s].path = Absent
    BY DEF CutIn, Trusted, StatusPath
  <2>2. ~Writing(s) /\ ~Dying(s)
    BY <1>a DEF Writing, Dying, JobsShaped, Finalizing, Erasing
  <2>3. index[s] = Absent
    BY <2>1, <2>2 DEF IndexMeansLog
  <2>4. \A n \in Stems : ~Holds(n, s)
    BY <2>1, <2>2, <2>3, NoStem DEF Holds, EventsAtHome, AtHome
  <2> QED
    BY <2>3, <2>4 DEF Named
<1> QED
  BY <1>1, <1>2, <1>3, <1>4 DEF LogsAreTrue

-----------------------------------------------------------------------------
\* The invariant of the logs: events are written to the log of their
\* session only, and every name a session keeps is that of the index.
THEOREM LogInvariant == LogSpec => []LogIInv
<1>1. LogInit => LogIInv
  BY LogBegins
<1>2. LogIInv /\ [LogNext]_logVars => LogIInv'
  BY LogStep
<1> QED
  BY <1>1, <1>2, PTL DEF LogSpec

\* Whatever the threads do in whatever order, and wherever a write fails or
\* the process dies: the logs say what happened.
THEOREM LogsAlwaysTrue == LogSpec => []LogsAreTrue
<1>1. LogIInv => LogsAreTrue
  BY LogsFollow
<1> QED
  BY <1>1, LogInvariant, PTL
=============================================================================
