--------------------------- MODULE MCPlanPublication ---------------------------
(* Instances of PlanPublication for TLC. *)
EXTENDS PlanPublication, TLC

\* Requests and tabs are interchangeable.
Symmetry == Permutations(Request) \cup Permutations(Tab)

\* The instance is two in one: several requests and drafts, or several tabs with
\* one draft and a request at a time.
TabsAreUsed == (\E t \in Tab : tab[t] # Blank) \/ \E d \in Draft : draft[d].revision # 0

FewActors ==
  TabsAreUsed =>
    /\ \A d \in Draft \ {1} : draft[d] = NoDraft /\ session[d] = "none"
    /\ Cardinality({r \in Request : request[r] # Idle}) <= 1
=============================================================================
