---------------------------- MODULE ReadableLog ----------------------------
(***************************************************************************)
(* What the Markdown log of a session says was done (_MetaStore and the    *)
(* _render functions of myextension/behavior_log_store.py).  The log is    *)
(* read by people beside the signals the analysis is given; the two are    *)
(* computed by separate code from the same events.  Wording, layout and    *)
(* the source text that is quoted are left out.                            *)
(***************************************************************************)
EXTENDS EvidenceSignals

(* The cell or file a run is counted under; Missing stands for "unknown".  *)
ExecutionKey(p) == IF p.file # Missing THEN p.file ELSE p.cell

RunsUnder(evs, key) == {i \in Runs(evs) : ExecutionKey(evs[i].place) = key}
Succeeded(evs, runs) == {i \in runs : evs[i].result = "success"}

(* The summary: time in all and by kind, runs that failed and succeeded,   *)
(* and for each cell or file with failures whether it succeeded at all.    *)
TotalDuration(evs) ==
    IF evs = <<>> THEN 0 ELSE Max({0, Last(evs).to - evs[1].from})

TypeStats(evs) ==
    [kind \in {evs[i].kind : i \in DOMAIN evs} |->
        MapThenSumSet(LAMBDA i : evs[i].lasted, Of(evs, {kind}))]

TotalExecutions(evs) ==
    [failures  |-> Cardinality(Runs(evs) \ Succeeded(evs, Runs(evs))),
     successes |-> Cardinality(Succeeded(evs, Runs(evs)))]

ExecutionStats(evs) ==
    [key \in {ExecutionKey(evs[i].place) : i \in Runs(evs)} |->
        LET runs == RunsUnder(evs, key)
        IN  [failures |-> Cardinality(runs \ Succeeded(evs, runs)),
             success  |-> Succeeded(evs, runs) # {}]]

Summary(evs) ==
    LET stats == ExecutionStats(evs)
    IN  [total   |-> TotalDuration(evs),
         spent   |-> TypeStats(evs),
         counted |-> TotalExecutions(evs),
         detail  |-> Restrict(stats,
                              {key \in DOMAIN stats : stats[key].failures > 0})]

(* The timeline: a row for each event, with the outcome of a run.          *)
Timeline(evs) ==
    [i \in DOMAIN evs |->
        [offset  |-> evs[i].from - evs[1].from,
         lasted  |-> evs[i].lasted,
         kind    |-> evs[i].kind,
         outcome |-> IF i \in Runs(evs)
                     THEN IF evs[i].result = "success" THEN "success" ELSE "failure"
                     ELSE Missing]]

(* The section of a success says how many failures it followed.            *)
FailuresBefore(evs, i) ==
    LET key == ExecutionKey(evs[i].place)
        before == {j \in RunsUnder(evs, key) : j < i}
    IN  IF key = Missing THEN 0
        ELSE Cardinality(before \ Succeeded(evs, before))

Section(evs, i) ==
    [kind  |-> evs[i].kind,
     prior |-> IF i \in Succeeded(evs, Runs(evs))
               THEN FailuresBefore(evs, i) ELSE Missing]

-----------------------------------------------------------------------------
(* The log and the signals tell one story, if the outcome of every run is  *)
(* known: the log takes any other outcome for a failure, the signals are   *)
(* missing then.  Summary, details of the summary and timeline have the    *)
(* failures and runs the signals have; and when every edit and run knows   *)
(* its cell or file, each recovery counted is a success whose section says *)
(* that failures came before it, in a cell or file of which the summary    *)
(* says that it failed and succeeded.                                      *)
LogAgreesWithSignals(evs) ==
    LET s == Signals(evs)
        summary == Summary(evs)
        line == Timeline(evs)
        Rows(outcome) == {i \in DOMAIN line : line[i].outcome = outcome}
        own == Of(evs, Edits \union {"code_execution"})
        after == {i \in DOMAIN evs :
                     Section(evs, i).prior \notin {Missing, 0}}
    IN  s.failures # Missing =>
        /\ summary.counted = [failures  |-> s.failures,
                              successes |-> s.runs - s.failures]
        /\ MapThenSumSet(LAMBDA key : summary.detail[key].failures,
                         DOMAIN summary.detail) = s.failures
        /\ Cardinality(Rows("failure")) = s.failures
        /\ Cardinality(Rows("success")) = s.runs - s.failures
        /\ s.recoveries # Missing
               /\ (\A i \in own : ExecutionKey(evs[i].place) # Missing) =>
           /\ s.recoveries <= Cardinality(after)
           /\ \A i \in after : summary.detail[ExecutionKey(evs[i].place)].success
=============================================================================
