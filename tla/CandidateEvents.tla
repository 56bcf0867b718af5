--------------------------- MODULE CandidateEvents ---------------------------
(***************************************************************************)
(* Which events of a recording the model is shown                          *)
(* (_select_candidate_events of myextension/dimension_analyzer.py).  An    *)
(* event is named by its position, which its session number is.            *)
(***************************************************************************)
EXTENDS EvidenceSignals

CONSTANTS MaxCandidates,    \* how many events the model is shown
          MaxFailures,      \* how many failures are shown for certain
          MaxNeighbours,    \* how many events around them
          MaxIdles          \* how many long pauses

(* The bounds leave room for the failures, for what is beside them and for *)
(* the pauses.                                                             *)
ASSUME CandidatesAssumption ==
    /\ {MaxCandidates, MaxFailures, MaxNeighbours, MaxIdles} \subseteq Nat
    /\ 2 * MaxFailures <= MaxNeighbours
    /\ MaxFailures + MaxNeighbours + MaxIdles <= MaxCandidates

(* The place an event is taken to be at: less careful than SamePlace.      *)
Identity(e) ==
    IF e.place.file # Missing THEN <<"file", e.place.file>>
    ELSE <<"notebook",
           IF e.place.notebook # Missing THEN e.place.notebook ELSE e.place.path,
           IF e.place.cell # Missing THEN <<"cell", e.place.cell>>
           ELSE <<"index", e.place.index>> >>

(* Orders in which events are taken: relations on their positions.         *)
Pairs(evs) == (DOMAIN evs) \X (DOMAIN evs)
Forward(evs) == {p \in Pairs(evs) : p[1] < p[2]}
Backward(evs) == {p \in Pairs(evs) : p[1] > p[2]}
Longest(evs) ==
    {p \in Pairs(evs) :
        \/ evs[p[1]].lasted > evs[p[2]].lasted
        \/ evs[p[1]].lasted = evs[p[2]].lasted /\ p[1] < p[2]}

FirstOf(n, S, order) ==
    {i \in S : Cardinality({j \in S : <<j, i>> \in order}) < n}

(* Take what is wished for, in that order: n that are not there yet, at    *)
(* most, and while there is room.                                          *)
AddUpTo(n, chosen, wishes, order) ==
    chosen \union FirstOf(Min({n, MaxCandidates - Cardinality(chosen)}),
                         wishes \ chosen, order)
AddAll(chosen, wishes, order) == AddUpTo(MaxCandidates, chosen, wishes, order)

Failures(evs) == {i \in Of(evs, {"code_execution"}) : evs[i].result = "failure"}
FirstFailures(evs) == FirstOf(MaxFailures, Failures(evs), Forward(evs))

(* The slip: the first edit before the failure.                            *)
LastIn_Slip(before) == {i \in before : \A j \in before : i <= j}
LastIn(before) == {i \in before : \A j \in before : j <= i}

(* The last edit before a failure and the first run after it, at its place. *)
At(evs, kinds, place) == {i \in Of(evs, kinds) : Identity(evs[i]) = place}
LedTo(evs, f) == LastIn({i \in At(evs, Edits, Identity(evs[f])) : i < f})
CameOf(evs, f) ==
    LET later == {i \in At(evs, {"code_execution"}, Identity(evs[f])) : i > f}
    IN  {i \in later : \A j \in later : i <= j}

(* They are taken failure by failure, the edit before the run.             *)
Neighbours(evs, failures) == UNION {LedTo(evs, f) \union CameOf(evs, f) : f \in failures}
Turns(evs, failures, i) ==
    {2 * f : f \in {g \in failures : i \in LedTo(evs, g)}}
      \union {2 * f + 1 : f \in {g \in failures : i \in CameOf(evs, g)}}
ByFailure(evs, failures) ==
    {p \in Pairs(evs) :
        \E t \in Turns(evs, failures, p[1]) :
            \A u \in Turns(evs, failures, p[2]) : t < u}

LongIdles(evs) == {i \in Of(evs, {"idle"}) : evs[i].lasted >= IdleThreshold}

(* Edits at a place that is already shown, if there was more than one.     *)
RepeatedEdits(evs, chosen) ==
    {i \in Of(evs, Edits) :
        /\ \E j \in chosen : Identity(evs[j]) = Identity(evs[i])
        /\ Cardinality(At(evs, Edits, Identity(evs[i]))) > 1}

(* The choice grows in steps; what is left is taken from the end.          *)
WithFailures(evs) == AddAll({}, FirstFailures(evs), Forward(evs))
WithNeighbours(evs) ==
    AddUpTo(MaxNeighbours, WithFailures(evs), Neighbours(evs, FirstFailures(evs)),
            ByFailure(evs, FirstFailures(evs)))
WithPauses(evs) ==
    AddAll(WithNeighbours(evs), FirstOf(MaxIdles, LongIdles(evs), Longest(evs)),
           Longest(evs))
WithEdits(evs) ==
    AddAll(WithPauses(evs), RepeatedEdits(evs, WithPauses(evs)), Forward(evs))
Candidates(evs) == AddAll(WithEdits(evs), DOMAIN evs, Backward(evs))

-----------------------------------------------------------------------------
(* The bounds leave room for every early failure with what led to it and   *)
(* what came of it, and for the longest pauses, however long the recording *)
(* is; and a short recording is shown whole.                               *)
FailuresAreShown(evs) ==
    LET shown == Candidates(evs)
        Failed(i) == evs[i].kind = "code_execution" /\ evs[i].result = "failure"
        Early(i) == Failed(i) /\ Cardinality({j \in 1 .. i : Failed(j)}) <= MaxFailures
        There(i, j) == Identity(evs[i]) = Identity(evs[j])
        Edited(j, i) ==
            /\ j < i /\ evs[j].kind \in Edits /\ There(i, j)
            /\ \A k \in (j + 1) .. (i - 1) : ~(evs[k].kind \in Edits /\ There(i, k))
        Rerun(j, i) ==
            /\ j > i /\ evs[j].kind = "code_execution" /\ There(i, j)
            /\ \A k \in (i + 1) .. (j - 1) :
                  ~(evs[k].kind = "code_execution" /\ There(i, k))
        Pause(i) == evs[i].kind = "idle" /\ evs[i].lasted >= IdleThreshold
    IN  /\ shown \subseteq DOMAIN evs
        /\ Cardinality(shown) = Min({MaxCandidates, Len(evs)})
        /\ \A i \in DOMAIN evs : Early(i) =>
              /\ i \in shown
              /\ \A j \in DOMAIN evs : Edited(j, i) \/ Rerun(j, i) => j \in shown
        /\ \A i \in DOMAIN evs \ shown : Pause(i) =>
              MaxIdles <= Cardinality({j \in shown :
                              Pause(j) /\ evs[j].lasted >= evs[i].lasted})
=============================================================================
