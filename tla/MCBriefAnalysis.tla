----------------------------- MODULE MCBriefAnalysis -----------------------------
(* An instance of BriefAnalysis, what the service asks a model about a brief, *)
(* and two of SessionAnalysis, what the notebook asks about a recording: many *)
(* recordings and nothing asked, for the signals and the choice of events;    *)
(* few recordings and every kind of answer, for the asking.  They share       *)
(* nothing: a behaviour is of one of the three.                               *)
EXTENDS BriefAnalysis, SessionAnalysis, TLC

CONSTANTS MaxOrder,     \* the length of the recordings about order
          MaxTimes      \* the length of the recordings about time

VARIABLE part

\* Workers are interchangeable.
Symmetry == Permutations(Worker)

\* Each process with an id of its own, and replicas with one id.
OwnNames == [w \in Worker |-> w]
OneName == [w \in Worker |-> "classroom-worker"]

\* The second retry waits longer than the first.
Delays == [n \in 1..MaxAttempts |-> n]

-----------------------------------------------------------------------------
(* Recordings.                                                             *)
Place(path, cell, index) ==
  [file |-> Missing, notebook |-> Missing, path |-> path, cell |-> cell, index |-> index]
File == [Place(Missing, Missing, Missing) EXCEPT !.file = "a.py"]

Event(kind, place, result, from, to) ==
  [kind |-> kind, place |-> place, result |-> result,
   error |-> IF result = "failure" THEN kind ELSE Missing,
   from |-> from, to |-> to, lasted |-> to - from, pasted |-> FALSE]

\* Order: edits and runs at places that know the cell, its index, or both.
Places == {Place("n", "c", Missing), Place("n", Missing, 1), Place("n", "c", 1), File}

OrderEvents ==
  {Event("code_writing", p, Missing, 0, 1) : p \in Places}
    \cup {Event("code_execution", p, r, 0, 1) : p \in Places, r \in {"failure", "success"}}
    \cup {Event("code_execution", File, Missing, 0, 1)}

\* Time: what covers the same instants, in every overlap, as it began.
TimeEvents ==
  {e \in {Event(k, File, Missing, t, u) :
            k \in {"code_writing", "idle", "page_away"}, t \in 0..2, u \in 1..4} :
     e.from < e.to}

\* Length: more than the model is shown, at two places, with pauses.
LongEvents ==
  {e \in OrderEvents : \/ e.place = Place("n", "c", Missing)
                       \/ (e.place = File /\ (e.kind = "code_execution" => e.result = "failure"))}
    \cup {Event("idle", File, Missing, 0, n) : n \in {2, 3}}

ManyRecordings ==
  BoundedSeq(OrderEvents, MaxOrder)
    \cup [1..MaxOrder + 1 -> LongEvents]
    \cup {r \in BoundedSeq(TimeEvents, MaxTimes) :
            \A i, k \in DOMAIN r : i < k => r[i].from <= r[k].from}

FewRecordings ==
  LET edit == Event("code_writing", File, Missing, 0, 1)
      run == Event("code_execution", File, "failure", 1, 2)
  IN {<<>>, <<edit>>, <<edit, run>>}

-----------------------------------------------------------------------------
(* Two dimensions, one of which needs a run, and what may be answered.     *)
Row(d, status, level, claims, form) ==
  [code |-> d, status |-> status, level |-> level,
   claims |-> {[event |-> c[1], criterion |-> c[2], direction |-> c[3]] : c \in claims},
   form |-> form]

Rows ==
  {Row("A", "observed", "clear", {<<1, "k", "support">>}, "sound"),
   Row("A", "observed", "clear", {}, "sound"),
   Row("A", "observed", "clear", {<<1, "k", "support">>}, "unusable"),
   Row("B", "not_observed", Missing, {<<1, "x", "exclude">>}, "sound"),
   Row("B", "observed", "possible", {<<3, "k", "support">>}, "sound"),
   Row("C", "not_observed", Missing, {}, "sound")}

AllRecordings == ManyRecordings \cup FewRecordings
ShortAnswers == BoundedSeq(Rows, 2)

Required == [d \in Dims |->
               IF d = "A" THEN [edits |-> 1] ELSE [edits |-> 1, runs |-> 1]]
TwoLevels == [d \in Dims |-> {"possible", "clear"}]
TwoCriteria == [d \in Dims |-> [k |-> "support", x |-> "exclude"]]

-----------------------------------------------------------------------------
\* The events have been counted; in this part nothing is asked.
Counted == part = "signals" /\ phase # "begin"

MCInit ==
  /\ part \in {"brief", "signals", "asking"}
  /\ Init
  /\ AnalysisInit
  /\ part # "signals" => events \in FewRecordings
  /\ part = "brief" => events = <<>>

MCNext ==
  \/ part = "brief" /\ Next /\ UNCHANGED <<part, analysisVars>>
  \/ part = "signals" /\ (Begin \/ (Counted /\ UNCHANGED analysisVars))
       /\ UNCHANGED <<part, vars>>
  \/ part = "asking" /\ AnalysisNext /\ UNCHANGED <<part, vars>>

MCSpec ==
  /\ MCInit /\ [][MCNext]_<<part, vars, analysisVars>>
  /\ WF_vars(Tick) /\ \A w \in Worker : WF_vars(WorkerStep(w))
=============================================================================
