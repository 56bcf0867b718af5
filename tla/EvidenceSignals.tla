--------------------------- MODULE EvidenceSignals ---------------------------
(***************************************************************************)
(* What is counted in a finished recording before any model is asked       *)
(* (myextension/feature_extractor.py), and whether that is enough to ask   *)
(* about a dimension (myextension/evidence_coverage.py).                   *)
(*                                                                         *)
(* A recording is a sequence of events in the order of their session       *)
(* numbers.  An event is a record                                          *)
(*   kind       what happened                                              *)
(*   place      where: [file, notebook, path, cell, index], each possibly  *)
(*              Missing, as the browser knew it                            *)
(*   result     of a run, error the type of the error of a failed one      *)
(*   from, to   its first and last instant, lasted its own measurement     *)
(*   pasted     whether a piece of writing held a paste                    *)
(* Instants stand for microseconds.  The dictionary of signals is the one  *)
(* shipped with the program, so its own check is left out.                 *)
(***************************************************************************)
EXTENDS Integers, Sequences, FiniteSets, SequencesExt, FiniteSetsExt

CONSTANTS Missing,          \* what a signal is when it cannot be computed
          IdleThreshold,    \* the shortest pause that counts
          Tolerance         \* how far a duration may be from to - from

ASSUME SignalsAssumption == IdleThreshold \in Nat \ {0} /\ Tolerance \in Nat

Edits == {"code_writing", "code_deletion", "code_paste"}
Observed == Edits \union {"idle"}
Excluded == {"page_away", "code_execution"}

Of(evs, kinds) == {i \in DOMAIN evs : evs[i].kind \in kinds}

-----------------------------------------------------------------------------
(* Places.  Two events are at the same place when what both of them know   *)
(* agrees; the relation is not transitive.                                 *)

BothKnow(x, y) == x # Missing /\ y # Missing
Agree(x, y) == BothKnow(x, y) /\ x = y

Located(p) ==
    /\ \E field \in {"file", "notebook", "path"} : p[field] # Missing
    /\ p.file # Missing => p.notebook = Missing /\ p.path = Missing
    /\ \E field \in {"file", "cell", "index"} : p[field] # Missing

SameDocument(p, q) ==
    IF p.file # Missing \/ q.file # Missing
    THEN Agree(p.file, q.file)
    ELSE IF BothKnow(p.notebook, q.notebook)
         THEN /\ p.notebook = q.notebook
              /\ BothKnow(p.path, q.path) => p.path = q.path
         ELSE Agree(p.path, q.path)

SamePlace(p, q) ==
    /\ SameDocument(p, q)
    /\ \/ /\ p.file # Missing
          /\ {p.cell, q.cell, p.index, q.index} = {Missing}
       \/ /\ Agree(p.cell, q.cell)
          /\ BothKnow(p.index, q.index) => p.index = q.index
       \/ ~BothKnow(p.cell, q.cell) /\ Agree(p.index, q.index)

-----------------------------------------------------------------------------
(* Intervals: pairs of instants.                                           *)

Earlier(v, w) == v[1] < w[1] \/ (v[1] = w[1] /\ v[2] < w[2])

Sorted(intervals) ==
    CHOOSE s \in [1 .. Cardinality(intervals) -> intervals] :
        \A i, j \in DOMAIN s : i < j => Earlier(s[i], s[j])

(* A disjoint, ordered sequence that covers the same instants.             *)
Joined(merged, v) ==
    IF merged = <<>> \/ v[1] > Last(merged)[2] THEN Append(merged, v)
    ELSE [merged EXCEPT ![Len(merged)] = <<@[1], Max({@[2], v[2]})>>]

Merged(intervals) ==
    LET sorted == Sorted({v \in intervals : v[1] < v[2]})
        merged[n \in 0 .. Len(sorted)] ==
            IF n = 0 THEN <<>> ELSE Joined(merged[n - 1], sorted[n])
    IN  merged[Len(sorted)]

(* What the ordered exclusions leave of one interval: cursor is the first  *)
(* instant not yet decided.                                                *)
Cut(st, v, x) ==
    IF x[2] <= st.cursor \/ x[1] >= v[2] THEN st
    ELSE [cursor |-> Max({st.cursor, x[2]}),
          kept |-> IF x[1] > st.cursor
                   THEN st.kept \union {<<st.cursor, x[1]>>} ELSE st.kept]

LeftOf(v, exclusions) ==
    LET left[n \in 0 .. Len(exclusions)] ==
            IF n = 0 THEN [cursor |-> v[1], kept |-> {}]
            ELSE Cut(left[n - 1], v, exclusions[n])
        end == left[Len(exclusions)]
    IN  IF end.cursor < v[2] THEN end.kept \union {<<end.cursor, v[2]>>}
        ELSE end.kept

Subtracted(included, excluded) ==
    LET exclusions == Merged(excluded)
    IN  UNION {LeftOf(v, exclusions) : v \in ToSet(Merged(included))}

Duration(intervals) == MapThenSumSet(LAMBDA v : v[2] - v[1], intervals)

(* The intervals are trusted only if every event's own measurement of its  *)
(* duration agrees with them.                                              *)
Timed(evs) ==
    \A i \in DOMAIN evs :
        LET spent == evs[i].to - evs[i].from - evs[i].lasted
        IN  evs[i].from <= evs[i].to /\ spent \in -Tolerance .. Tolerance

IntervalsOf(evs, kinds) ==
    {<<evs[i].from, evs[i].to>> : i \in Of(evs, kinds)}

-----------------------------------------------------------------------------
(* Signals over the order of events.                                       *)

Runs(evs) == Of(evs, {"code_execution"})
OutcomesKnown(evs) == \A i \in Runs(evs) : evs[i].result \in {"failure", "success"}

(* Of the events numbered in S, those at the place of event i.             *)
Here(evs, S, i) == {f \in S : SamePlace(evs[f].place, evs[i].place)}

(* The slip: a run that fails again does not end the chain before it.      *)
Opened_Slip(others, here, i) == others \union (IF here # {} THEN here ELSE {i})
Opened(others, here, i) == others \union {i}

(* A failure, an edit at its place, a success there: one recovery.  Another *)
(* run at the place ends the chain.  pending are the failures whose chain   *)
(* is open, edited those that were followed by an edit.                     *)
Follow(evs, st, i) ==
    LET here == Here(evs, st.pending, i)
        others == st.pending \ here
    IN  CASE evs[i].kind \in Edits ->
                 [st EXCEPT !.edited = @ \union here]
          [] evs[i].kind = "code_execution" /\ evs[i].result = "failure" ->
                 [st EXCEPT !.pending = Opened(others, here, i)]
          [] evs[i].kind = "code_execution" /\ evs[i].result = "success" ->
                 [st EXCEPT !.pending = others,
                            !.count = @ + IF here # {} /\ Max(here) \in st.edited
                                          THEN 1 ELSE 0]
          [] OTHER -> st

RecoveryChains(evs) ==
    LET followed[n \in 0 .. Len(evs)] ==
            IF n = 0 THEN [pending |-> {}, edited |-> {}, count |-> 0]
            ELSE Follow(evs, followed[n - 1], n)
    IN  IF /\ \A i \in Of(evs, Edits) \union Runs(evs) : Located(evs[i].place)
           /\ OutcomesKnown(evs)
        THEN followed[Len(evs)].count
        ELSE Missing

(* Two failures in a row at one place, of different types: last are the    *)
(* failures no run at their place has followed.                            *)
Compare(evs, st, i) ==
    LET here == Here(evs, st.last, i)
        others == st.last \ here
    IN  CASE evs[i].kind = "code_execution" /\ evs[i].result = "success" ->
                 [st EXCEPT !.last = others]
          [] evs[i].kind = "code_execution" /\ evs[i].result = "failure" ->
                 [last |-> others \union {i},
                  count |-> st.count + IF /\ here # {}
                                          /\ evs[Max(here)].error # evs[i].error
                                       THEN 1 ELSE 0]
          [] OTHER -> st

ErrorChanges(evs) ==
    LET compared[n \in 0 .. Len(evs)] ==
            IF n = 0 THEN [last |-> {}, count |-> 0]
            ELSE Compare(evs, compared[n - 1], n)
    IN  IF /\ OutcomesKnown(evs)
           /\ \A i \in Runs(evs) :
                 /\ Located(evs[i].place)
                 /\ evs[i].result = "failure" => evs[i].error # Missing
        THEN compared[Len(evs)].count
        ELSE Missing

(* Pastes the editor reported, and writing that held a paste nobody        *)
(* reported: a report at the same place and time is the same paste.        *)
Pastes(evs) ==
    LET told == Of(evs, {"code_paste"})
        held == {i \in Of(evs, {"code_writing"}) : evs[i].pasted}
        Twice(i) == \E j \in told :
            /\ Located(evs[i].place) /\ Located(evs[j].place)
            /\ SamePlace(evs[i].place, evs[j].place)
            /\ evs[j].from <= evs[i].to /\ evs[j].to >= evs[i].from
    IN  CASE told = {} \/ held = {} -> Cardinality(told \union held)
          [] told # {} /\ held # {} /\ ~Timed(evs) -> Missing
          [] OTHER -> Cardinality(told) + Cardinality({i \in held : ~Twice(i)})

IdleFragments(evs) ==
    {v \in Subtracted(IntervalsOf(evs, {"idle"}), IntervalsOf(evs, Excluded)) :
        v[2] - v[1] >= IdleThreshold}

(* All signals of a recording.                                             *)
Signals(evs) ==
    LET When(value) == IF Timed(evs) THEN value ELSE Missing
    IN  [observed   |-> When(Duration(Subtracted(IntervalsOf(evs, Observed),
                                                 IntervalsOf(evs, Excluded)))),
         edits      |-> Cardinality(Of(evs, Edits)),
         deletions  |-> Cardinality(Of(evs, {"code_deletion"})),
         pastes     |-> Pastes(evs),
         runs       |-> Cardinality(Runs(evs)),
         failures   |-> IF OutcomesKnown(evs)
                        THEN Cardinality({i \in Runs(evs) : evs[i].result = "failure"})
                        ELSE Missing,
         idles      |-> When(Cardinality(IdleFragments(evs))),
         idleTime   |-> When(Duration(ToSet(Merged(IdleFragments(evs))))),
         away       |-> When(Duration(ToSet(Merged(IntervalsOf(evs, {"page_away"}))))),
         recoveries |-> RecoveryChains(evs),
         changes    |-> ErrorChanges(evs)]

-----------------------------------------------------------------------------
(* Whether a dimension can be judged: minimum is what its author requires, *)
(* a function on some of the three signals that may be required.           *)

Requirable == {"observed", "edits", "runs"}

Coverage(minimum, signals) ==
    CASE \/ DOMAIN minimum = {}
         \/ ~(DOMAIN minimum \subseteq Requirable) -> "not_computable"
      [] /\ DOMAIN minimum # {} /\ DOMAIN minimum \subseteq Requirable
         /\ \E s \in DOMAIN minimum : signals[s] = Missing -> "not_computable"
      [] OTHER -> IF \A s \in DOMAIN minimum : signals[s] >= minimum[s]
                  THEN "sufficient_for_analysis"
                  ELSE "insufficient_evidence"

-----------------------------------------------------------------------------
(* What the signals mean, without the way they are computed.               *)

Instants(intervals) == UNION {v[1] .. (v[2] - 1) : v \in intervals}

(* The longest intervals within a set of instants.                         *)
Stretches(instants) ==
    {v \in instants \X {t + 1 : t \in instants} :
        /\ v[1] < v[2] /\ v[1] .. (v[2] - 1) \subseteq instants
        /\ v[1] - 1 \notin instants /\ v[2] \notin instants}

(* The failures before run i at its place that no other run there followed. *)
OpenAt(evs, i) ==
    {f \in 1 .. (i - 1) :
        /\ f \in Runs(evs) /\ evs[f].result = "failure"
        /\ SamePlace(evs[f].place, evs[i].place)
        /\ \A j \in (f + 1) .. (i - 1) :
              j \in Runs(evs) => ~SamePlace(evs[f].place, evs[j].place)}

(* A success at i answers a failure if there is one open at its place; the *)
(* latest such failure must have been followed by an edit at its place.    *)
AnswersFailure(evs, i) ==
    /\ i \in Runs(evs) /\ evs[i].result = "success"
    /\ OpenAt(evs, i) # {}
    /\ \E j \in (Max(OpenAt(evs, i)) + 1) .. (i - 1) :
          /\ evs[j].kind \in Edits
          /\ SamePlace(evs[Max(OpenAt(evs, i))].place, evs[j].place)

(* A failure at i changes the error if the latest one open at its place is *)
(* of another type.                                                        *)
ChangesError(evs, i) ==
    /\ i \in Runs(evs) /\ evs[i].result = "failure"
    /\ OpenAt(evs, i) # {}
    /\ evs[Max(OpenAt(evs, i))].error # evs[i].error

(* The recoveries counted are the successes that answer a failure, the     *)
(* changes of error the failures that change it.                           *)
CountsAreReal(evs) ==
    LET s == Signals(evs)
    IN  /\ s.recoveries # Missing =>
              s.recoveries = Cardinality({i \in DOMAIN evs : AnswersFailure(evs, i)})
        /\ s.changes # Missing =>
              s.changes = Cardinality({i \in DOMAIN evs : ChangesError(evs, i)})

(* Observed time and time away are the instants the events cover, each     *)
(* once; a pause counts once for each longest stretch of idle instants     *)
(* outside runs and absences.                                              *)
TimesAreMeasured(evs) ==
    LET s == Signals(evs)
        out == Instants(IntervalsOf(evs, Excluded))
        idle == Instants(IntervalsOf(evs, {"idle"})) \ out
        long == {v \in Stretches(idle) : v[2] - v[1] >= IdleThreshold}
    IN  s.observed # Missing =>
            /\ s.observed = Cardinality(Instants(IntervalsOf(evs, Observed)) \ out)
            /\ s.away = Cardinality(Instants(IntervalsOf(evs, {"page_away"})))
            /\ s.idles = Cardinality(long)
            /\ s.idleTime = Cardinality(Instants(long))
=============================================================================
