---------------------------- MODULE MCSessionRecord ----------------------------
(* An instance of SessionRecord and of BehaviorLog for TLC: what is written   *)
(* of a session for people to read.  They share no file: a behaviour is of   *)
(* one or of the other.  A third kind is of the record too, with two tabs    *)
(* and one review more, and there no other step comes into an export.        *)
EXTENDS SessionRecord, BehaviorLog, TLC

VARIABLE part

MCInit == part \in {"record", "reviews", "log"} /\ Init /\ LogInit

MCNext ==
  \/ part = "record" /\ Next /\ UNCHANGED <<part, logVars>>
  \/ /\ part = "reviews"
     /\ IF \E t \in Thread : Exporting(t) THEN \E t \in Thread : ExportStep(t) ELSE Next
     /\ UNCHANGED <<part, logVars>>
  \/ part = "log" /\ LogNext /\ UNCHANGED <<part, vars>>

MCSpec == MCInit /\ [][MCNext]_<<part, vars, logVars>>

Symmetry == Permutations(Session)

\* Reviews in all, fewer when a history ends within a line, and tabs in use; at most
\* one event of the older page, and no empty log is written.
FewEvents ==
  /\ Len(reviews[1]) + Len(reviews[MaxAttempt]) + Cardinality(torn) <= (IF part = "reviews" THEN 3 ELSE 2)
  /\ part = "record" => \A t \in Tab : t = (CHOOSE u \in Tab : TRUE) \/ tab[t].analysis = 0
  /\ Cardinality({s \in Session : Touched(s)}) <= 1
  /\ \A s \in Session : stored[s].status = "finalizing" => stored[s].events = 1
=============================================================================
