--------------------------- MODULE MCPublishedPlans ---------------------------
(* An instance of PublicationGate and one of ProfileAuthoring for TLC.  They *)
(* share nothing: a behaviour is of one or of the other.                     *)
EXTENDS ProfileAuthoring, PublicationGate

VARIABLE part

\* Two points of two requirements, the first verified by a test, the second by
\* a detector; a third requirement is not a student's.
TheTest == [id |-> "t1", content |-> "x1", enabled |-> TRUE, points |-> <<"k1">>, criteria |-> {"c1"}]

TheProfile ==
  [points |-> <<[id |-> "k1", requirement |-> "r1"], [id |-> "k2", requirement |-> "r2"]>>,
   dimensions |->
     <<[point |-> "k1", criteria |-> <<[id |-> "c1", requirement |-> "r1", required |-> TRUE]>>,
        bindings |-> {[criterion |-> "c1", kind |-> "assessment_test", ref |-> "t1"]}],
       [point |-> "k2", criteria |-> <<[id |-> "c2", requirement |-> "r2", required |-> TRUE]>>,
        bindings |-> {[criterion |-> "c2", kind |-> "detector_profile", ref |-> "d1"]}]>>,
   tests |-> <<TheTest @@ [hash |-> <<TheTest>>]>>,
   starter |-> "framework",
   confirmed |-> [bundle |-> <<>>, starter |-> <<>>, points |-> <<>>, dimensions |-> <<>>, tests |-> <<>>]]

TheMaterials ==
  [starter |-> "framework", issues |-> {},
   requirements |-> {[id |-> "r1", student |-> TRUE, tests |-> {"t1"}, detectors |-> {}],
                     [id |-> "r2", student |-> TRUE, tests |-> {"t1"}, detectors |-> {"d1"}],
                     [id |-> "r3", student |-> FALSE, tests |-> {}, detectors |-> {}]},
   tests |-> {[id |-> "t1", content |-> "x1", enabled |-> TRUE]},
   detectors |-> {[id |-> "d1", available |-> TRUE]}]

MCInit ==
  /\ part \in {"classroom", "notebook"}
  /\ GateInit /\ ProfileInit

MCNext ==
  \/ part = "classroom" /\ GateNext /\ UNCHANGED <<part, profileVars>>
  \/ part = "notebook" /\ ProfileNext /\ UNCHANGED <<part, gateVars>>

MCSpec == MCInit /\ [][MCNext]_<<part, gateVars, profileVars>> /\ Fairness
=============================================================================
