--------------------------- MODULE SessionAnalysis ---------------------------
(***************************************************************************)
(* One analysis of a finished recording (analyze_session of                *)
(* myextension/dimension_analyzer.py, with the client and the checks of    *)
(* myextension/analysis_worker.py, the transport of llm_transport.py and   *)
(* the validation of analysis_result_validator.py).                        *)
(*                                                                         *)
(* The signals decide which dimensions may be judged.  The model is asked  *)
(* about those, and once more about those its answer left invalid.  Behind *)
(* each of the two requests there are up to Budgets answers cut for length *)
(* and, behind each of these, up to MaxCalls calls of the provider; all of *)
(* them share one deadline.  The provider is external: it may answer       *)
(* anything, in any order, or nothing.                                     *)
(***************************************************************************)
EXTENDS CandidateEvents, ReadableLog

CONSTANTS Dims,         \* the dimensions of the profile
          Minimum,      \* what each requires to be judged
          Levels,       \* the levels each allows
          Criteria,     \* the criteria of each, with their directions
          Recordings,   \* the finished recordings considered
          Responses,    \* what the provider may answer: sequences of rows
          Budgets,      \* the lengths of answer tried
          Total,        \* the time one analysis has
          CallTimeout,  \* the time one call has at most
          Wait,         \* the pause before a call is repeated
          Overrun       \* how late an answer may be: the timeout of a socket
                        \* is not one of the whole answer

(* Why an analysis gets no further: failures that may pass, failures that  *)
(* will not, the end of the time, and answers of no use.                   *)
Transient == {"network", "rate_limited", "unavailable"}
Final ==
    {"unauthorized", "rejected", "invalid", "not_configured", "unclassified"}
Reasons == Transient \union Final
               \union {"deadline", "timeout", "truncated", "incomplete"}

ASSUME TimesAssumption ==
    /\ {Budgets, Total, CallTimeout, Wait} \subseteq Nat \ {0}
    /\ Overrun \in Nat

(* A profile is published with the two levels of the program.              *)
ASSUME ProfileAssumption ==
    \A d \in Dims : Levels[d] \subseteq {"possible", "clear"}

ASSUME RecordingsAssumption ==
    \A r \in Recordings : /\ r \in Seq(ToSet(r))
                          /\ \A i \in DOMAIN r : /\ r[i].lasted \in Nat
                                                 /\ {r[i].from, r[i].to} \subseteq Int

(* What the reasons are published as.                                      *)
ErrorCodes ==
    {"ai_analysis_timeout", "ai_provider_network_error", "ai_provider_rate_limited",
     "ai_provider_auth_failed", "ai_provider_request_rejected",
     "ai_provider_unavailable", "ai_response_truncated", "ai_response_invalid",
     "ai_not_configured", "ai_analysis_failed"}

(* What is missing is no number and none of the words of a result or a run. *)
ASSUME MissingAssumption ==
    /\ Missing \notin Reasons \union ErrorCodes
    /\ Missing \notin {"observed", "not_observed", "sufficient_for_analysis",
                       "insufficient_evidence", "not_computable"}
    /\ Missing \notin Int \union {"success", "failure"}

VARIABLES
    events,     \* the recording, fixed
    coverage,   \* what the signals say of each dimension
    shown,      \* the events the model is shown
    phase,      \* "begin", "initial" and "repair" (asking), "assemble", "done"
    budget,     \* which length of answer is being tried
    call,       \* which call for it
    clock,      \* time since the attempt began
    answers,    \* the answers that were not cut for length
    valid,      \* the rows accepted so far, by dimension
    strangers,  \* the dimensions named that were not asked for
    failure,    \* why the asking ended early, or Missing
    outcome     \* what the worker publishes, or Missing

analysisVars == <<events, coverage, shown, phase, budget, call, clock, answers,
          valid, strangers, failure, outcome>>

MaxCalls == Max({1, (Total + CallTimeout - 1) \div CallTimeout})

AnalysisInit ==
    /\ events \in Recordings
    /\ coverage = [d \in Dims |-> Missing]
    /\ shown = {}
    /\ phase = "begin"
    /\ budget = 1 /\ call = 1 /\ clock = 0
    /\ answers = <<>>
    /\ valid = <<>>
    /\ strangers = {}
    /\ failure = Missing
    /\ outcome = Missing

Analyzable == {d \in Dims : coverage[d] = "sufficient_for_analysis"}
Unsettled == Analyzable \ DOMAIN valid

-----------------------------------------------------------------------------
(* Rows of an answer: [code, status, level, claims, form].  A claim names  *)
(* an event, a criterion and a direction.  form is "unsound" if confidence *)
(* or explanation is not acceptable, and "unusable" if a value is one that *)
(* comparing it raises (a list where a word belongs, a number too large).  *)

Ungrounded(row) == row.status = "observed" /\ row.claims = {}

RowFault(d, row) ==
    \/ row.status \notin {"observed", "not_observed"}
    \/ row.status = "not_observed" /\ row.level # Missing
    \/ row.status = "observed" /\ row.level \notin Levels[d]
    \/ row.form = "unsound"
    \/ Ungrounded(row)
    \/ \E c \in row.claims :
          \/ c.event \notin shown
          \/ c.criterion \notin DOMAIN Criteria[d]
          \/ c.direction # Criteria[d][c.criterion]

RowsOf(response, d) == {i \in DOMAIN response : response[i].code = d}

(* The first row of a dimension is looked at; the value in it that cannot  *)
(* be compared ends the validation of the whole answer.                    *)
Breaks(asked, response) ==
    \E d \in asked :
        /\ RowsOf(response, d) # {}
        /\ response[Min(RowsOf(response, d))].form = "unusable"

(* Each dimension on its own: the one row it has, if there is no fault.    *)
Validated(asked, response) ==
    LET Only(d) == response[CHOOSE i \in RowsOf(response, d) : TRUE]
    IN  [d \in {d \in asked : /\ Cardinality(RowsOf(response, d)) = 1
                              /\ ~RowFault(d, Only(d))} |-> Only(d)]

Updated(rows, found) ==
    [d \in DOMAIN rows \union DOMAIN found |->
        IF d \in DOMAIN found THEN found[d] ELSE rows[d]]

Named(asked, response) == {response[i].code : i \in DOMAIN response} \ asked

-----------------------------------------------------------------------------
(* What is analysed and what is shown follows from the recording alone.    *)
Begin ==
    /\ phase = "begin"
    /\ coverage' = [d \in Dims |-> Coverage(Minimum[d], Signals(events))]
    /\ shown' = Candidates(events)
    /\ phase' = IF \E d \in Dims : coverage'[d] = "sufficient_for_analysis"
                THEN "initial" ELSE "assemble"
    /\ UNCHANGED <<events, budget, call, clock, answers, valid,
                   strangers, failure, outcome>>

Asking == phase \in {"initial", "repair"}

(* The slip: a call is given its full time whatever is left.               *)
Allowed_Slip == CallTimeout

(* Time left when a call begins; the call may take it, and Overrun more.   *)
Allowed == Min({CallTimeout, Total - clock})
CallMay(t) == Asking /\ clock < Total /\ t \in 0 .. (Allowed + Overrun)

GiveUp(why) ==
    /\ failure' = why
    /\ phase' = "assemble"
    /\ UNCHANGED <<budget, call>>

(* What the answer left open is asked for once more.                       *)
(* The slip: what it leaves open even then is taken for complete.          *)
AskAgain ==
    /\ phase' = "repair"
    /\ budget' = 1 /\ call' = 1
    /\ UNCHANGED failure

Finish == phase' = "assemble" /\ UNCHANGED <<budget, call, failure>>

Conclude_Slip(open) ==
    IF open # {} /\ phase = "initial" THEN AskAgain ELSE Finish

Conclude(open) ==
    CASE open = {}                        -> Finish
      [] open # {} /\ phase = "initial"   -> AskAgain
      [] open # {} /\ phase # "initial"   -> GiveUp("incomplete")

(* The provider answers with an object that holds rows.                    *)
Answered(response, t) ==
    /\ CallMay(t)
    /\ clock' = clock + t
    /\ answers' = Append(answers, response)
    /\ LET asked == Unsettled
       IN  IF Breaks(asked, response)
           THEN GiveUp("unclassified") /\ UNCHANGED <<valid, strangers>>
           ELSE /\ valid' = Updated(valid, Validated(asked, response))
                /\ strangers' = strangers \union Named(asked, response)
                /\ Conclude(asked \ DOMAIN valid')
    /\ UNCHANGED <<events, coverage, shown, outcome>>

(* The answer was cut for length: ask for a longer one.                    *)
Truncated(t) ==
    /\ CallMay(t)
    /\ clock' = clock + t
    /\ IF budget < Budgets
       THEN budget' = budget + 1 /\ call' = 1 /\ UNCHANGED <<phase, failure>>
       ELSE GiveUp("truncated")
    /\ UNCHANGED <<events, coverage, shown, answers, valid, strangers, outcome>>

(* A failure that may pass: call again after a pause, if there is time.    *)
Unanswered(why, t) ==
    /\ CallMay(t)
    /\ IF call < MaxCalls /\ Total - (clock + t) > Wait
       THEN /\ call' = call + 1
            /\ clock' = clock + t + Wait
            /\ UNCHANGED <<phase, budget, failure>>
       ELSE /\ clock' = clock + t
            /\ GiveUp(IF call < MaxCalls THEN "deadline" ELSE why)
    /\ UNCHANGED <<events, coverage, shown, answers, valid, strangers, outcome>>

(* No answer in the time the call was given: call again at once.           *)
TimedOut(t) ==
    /\ CallMay(t) /\ t >= Allowed
    /\ clock' = clock + t
    /\ IF call < MaxCalls /\ clock' < Total
       THEN call' = call + 1 /\ UNCHANGED <<phase, budget, failure>>
       ELSE GiveUp(IF call < MaxCalls THEN "deadline" ELSE "timeout")
    /\ UNCHANGED <<events, coverage, shown, answers, valid, strangers, outcome>>

(* A failure that will not pass.                                           *)
Refused(why, t) ==
    /\ CallMay(t)
    /\ clock' = clock + t
    /\ GiveUp(why)
    /\ UNCHANGED <<events, coverage, shown, answers, valid, strangers, outcome>>

(* A call is due and no time is left for it.                               *)
OutOfTime ==
    /\ Asking /\ clock >= Total
    /\ GiveUp("deadline")
    /\ UNCHANGED <<events, coverage, shown, clock, answers, valid, strangers,
                   outcome>>

-----------------------------------------------------------------------------
(* The result of each dimension.                                           *)
Verdict(d) ==
    CASE coverage[d] # "sufficient_for_analysis" ->
             [status |-> "resolved", evidence |-> coverage[d], level |-> Missing,
              source |-> "coverage", claims |-> {}]
      [] d \in DOMAIN valid ->
             [status |-> "resolved", evidence |-> valid[d].status,
              level |-> valid[d].level, source |-> "llm_evidence",
              claims |-> valid[d].claims]
      [] OTHER ->
             [status |-> "partial", evidence |-> Missing, level |-> Missing,
              source |-> "llm_evidence", claims |-> {}]

(* The code a failure is published under.                                  *)
ErrorCode(why) ==
    CASE why \in {"deadline", "timeout"} -> "ai_analysis_timeout"
      [] why = "network"        -> "ai_provider_network_error"
      [] why = "rate_limited"   -> "ai_provider_rate_limited"
      [] why = "unauthorized"   -> "ai_provider_auth_failed"
      [] why = "rejected"       -> "ai_provider_request_rejected"
      [] why = "unavailable"    -> "ai_provider_unavailable"
      [] why = "truncated"      -> "ai_response_truncated"
      [] why \in {"invalid", "incomplete"} -> "ai_response_invalid"
      [] why = "not_configured" -> "ai_not_configured"
      [] why = "unclassified"   -> "ai_analysis_failed"
      [] why = Missing          -> Missing

(* What the worker accepts of a result before it publishes it: the schema  *)
(* of a dimension's result, which is older than the validation above.      *)
Publishable(verdicts) ==
    \A d \in DOMAIN verdicts :
        LET v == verdicts[d]
        IN  /\ v.status = "resolved" =>
                  v.evidence \in {"observed", "not_observed",
                                  "insufficient_evidence", "not_computable"}
            /\ v.status = "partial" => v.evidence = Missing /\ v.level = Missing
            /\ v.evidence = "observed" =>
                  v.claims # {} /\ v.level \in {"possible", "clear"}
            /\ v.evidence # "observed" => v.level = Missing

Assemble ==
    /\ phase = "assemble"
    /\ phase' = "done"
    /\ LET verdicts == [d \in Dims |-> Verdict(d)]
           whole == /\ \A d \in Dims : verdicts[d].status = "resolved"
                    /\ strangers = {}
                    /\ failure = Missing
       IN  outcome' =
              IF Publishable(verdicts)
              THEN [status |-> IF whole THEN "ready" ELSE "partial",
                    error |-> ErrorCode(failure), verdicts |-> verdicts]
              ELSE [status |-> "error", error |-> "analysis_output_invalid",
                    verdicts |-> <<>>]
    /\ UNCHANGED <<events, coverage, shown, budget, call, clock, answers,
                   valid, strangers, failure>>

ProviderStep ==
    \E t \in 0 .. (CallTimeout + Overrun) :
        \/ \E response \in Responses : Answered(response, t)
        \/ Truncated(t)
        \/ \E why \in Transient : Unanswered(why, t)
        \/ TimedOut(t)
        \/ \E why \in Final : Refused(why, t)

Done == phase = "done" /\ UNCHANGED analysisVars

AnalysisNext == Begin \/ ProviderStep \/ OutOfTime \/ Assemble \/ Done

AnalysisSpec == AnalysisInit /\ [][AnalysisNext]_analysisVars

-----------------------------------------------------------------------------
(* A verdict of the model that is published rests on what was recorded:    *)
(* the signals allowed the dimension to be judged, and every claim names   *)
(* an event that was shown and a criterion of the teacher's, in its own    *)
(* direction.  Nothing is published of an analysis whose result the worker *)
(* would refuse: whatever the validation lets through, the older schema of *)
(* results does too.                                                       *)
VerdictsAreGrounded ==
    outcome # Missing =>
        /\ outcome.status # "error"
        /\ \A d \in Dims :
              LET v == outcome.verdicts[d]
              IN  v.source = "llm_evidence" /\ v.status = "resolved" =>
                      /\ \A s \in DOMAIN Minimum[d] :
                            /\ Signals(events)[s] # Missing
                            /\ Signals(events)[s] >= Minimum[d][s]
                      /\ \A c \in v.claims :
                            /\ c.event \in DOMAIN events
                            /\ c.event \in Candidates(events)
                            /\ <<c.criterion, c.direction>> \in
                                  {<<k, Criteria[d][k]>> : k \in DOMAIN Criteria[d]}

(* A partial result says why, and a ready one leaves nothing open: the job *)
(* is retried on the strength of its error code, and a result that is      *)
(* partial for no stated reason, or ready with a gap, reaches the teacher. *)
PartialSaysWhy ==
    outcome # Missing =>
        /\ outcome.status = "ready" =>
              /\ outcome.error = Missing
              /\ \A d \in Dims : outcome.verdicts[d].status = "resolved"
        /\ outcome.status = "partial" => outcome.error # Missing \/ strangers # {}
        /\ (\E d \in Dims : outcome.verdicts[d].status = "partial") =>
              outcome.error # Missing

(* However many retries, longer answers and repairs there are, they share  *)
(* one budget of time, which only the last answer may exceed, by Overrun.  *)
EndsInTime == clock <= Total + Overrun

(* What the model is shown tells of every early failure.                   *)
ModelSeesFailures == phase # "begin" => FailuresAreShown(events)

(* What is counted is what happened, and what people read of the recording *)
(* agrees with it.                                                         *)
SignalsAreTrue ==
    phase # "begin" =>
        /\ CountsAreReal(events)
        /\ TimesAreMeasured(events)
        /\ LogAgreesWithSignals(events)

(* What is published of an analysis is grounded and says what is missing.  *)
ResultsAreHonest == VerdictsAreGrounded /\ PartialSaysWhy

(* The validation takes each dimension on its own: a dimension about which *)
(* the first answer has one row, without fault, is resolved by it whatever *)
(* the answer says of the others.                                          *)
ValidRowsSurvive ==
    outcome # Missing /\ answers # <<>> =>
        \A d \in Analyzable :
            LET rows == RowsOf(answers[1], d)
            IN  /\ Cardinality(rows) = 1
                /\ \A i \in rows : /\ answers[1][i].form = "sound"
                                   /\ ~RowFault(d, answers[1][i])
                => /\ outcome.status # "error"
                   /\ outcome.verdicts[d].status = "resolved"
=============================================================================
