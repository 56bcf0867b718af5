---------------------------- MODULE PublicationGate ----------------------------
(***************************************************************************)
(* What stands between a classroom draft of profile schema 3 and its       *)
(* publication: the gate, which compares the draft with the experiment's   *)
(* materials, the requests that evaluate it, and, beside it, the rules by  *)
(* which the notebook's own profile validator accepts the same profile.    *)
(*                                                                         *)
(* A hash is the content it is taken of, in a tuple; NoHash is a hash that *)
(* is not there.  The content of a test stands for its name, input,        *)
(* output, comparison, time limit and order; a starter source for the hash *)
(* of its file, "none" when there is none.  An edit replaces one part of a *)
(* profile, an import of the teacher's files one part of the materials,    *)
(* and MaxChange bounds both together.                                     *)
(***************************************************************************)
EXTENDS Integers, Sequences, SequencesExt, FiniteSets

CONSTANTS
  Point, Requirement, Content,
  Criterion,       \* criteria a teacher adds
  FirstProfile, FirstMaterials,
  MaxChange        \* edits of the profile and imports of materials

VARIABLES
  profile,    \* PlanDraft.profile, <<>> before the draft is created
  materials,  \* the bundle the material gateway returns now
  held,       \* the bundle publish_plan_draft has fetched, <<>> when no request is under way
  published,  \* the PlanVersion and the bundle it was published with, <<>> before
  changes     \* edits of the profile and imports of materials so far

gateVars == <<profile, materials, held, published, changes>>

Hash(x) == <<x>>
NoHash == <<>>

-----------------------------------------------------------------------------
(* Profiles and materials, as their schemas have them *)

PointRows == [id : Point, requirement : Requirement]
CriterionRows == [id : Criterion, requirement : Requirement, required : BOOLEAN]
BindingRows == [criterion : Criterion, kind : {"assessment_test", "detector_profile"}, ref : STRING]
DimensionRows == [point : Point, criteria : Seq(CriterionRows) \ {<<>>}, bindings : SUBSET BindingRows]
TestContents == [id : STRING, content : Content, enabled : BOOLEAN,
                 points : Seq(Point) \ {<<>>}, criteria : SUBSET Criterion]
TestRows == [id : STRING, content : Content, enabled : BOOLEAN,
             points : Seq(Point) \ {<<>>}, criteria : SUBSET Criterion, hash : Seq(TestContents)]

StarterSources == {"framework", "another", "none"}

SourceBlockers == {"starter_source_non_utf8_confirmation_required",
                   "starter_source_protected_compile_error"}

MaterialIssueCode ==
  SourceBlockers \cup {"detector_profile_unavailable", "teacher_dimension_not_student_responsibility",
                      "teacher_dimension_outside_task", "required_student_dimension_missing",
                      "boundary_coverage_incomplete"}

Materials == [starter : StarterSources, issues : SUBSET MaterialIssueCode,
              requirements : SUBSET [id : Requirement, student : BOOLEAN,
                                     tests : SUBSET STRING, detectors : SUBSET STRING],
              tests : SUBSET [id : STRING, content : Content, enabled : BOOLEAN],
              detectors : SUBSET [id : STRING, available : BOOLEAN]]

\* The importer's table has a requirement once.
Bundles == {m \in Materials : \A x, y \in m.requirements : x.id = y.id => x = y}

Confirmations == [bundle : Seq(Materials), starter : Seq(StarterSources), points : Seq(Seq(PointRows)),
                  dimensions : Seq(Seq(PointRows) \X Seq(DimensionRows)),
                  tests : Seq(Seq(TestContents))]

ProfileRows == [points : Seq(PointRows), dimensions : Seq(DimensionRows), tests : Seq(TestRows),
                starter : StarterSources, confirmed : Confirmations]

\* "" stands for an identifier that is not there.
ASSUME GateAssumption ==
  /\ "" \notin Point /\ MaxChange \in Nat
  /\ FirstProfile \in ProfileRows /\ FirstMaterials \in Bundles

-----------------------------------------------------------------------------
(* Hashes of a profile *)

TestContent(t) == [id |-> t.id, content |-> t.content, enabled |-> t.enabled,
                   points |-> t.points, criteria |-> t.criteria]

\* _material_test_projection: what of a profile's test the material's test has too.
MaterialProjection(t) == [id |-> t.id, content |-> t.content, enabled |-> t.enabled]

ConfirmationHashes(p) ==
  [starter |-> Hash(p.starter),
   points |-> Hash(p.points),
   dimensions |-> Hash(<<p.points, p.dimensions>>),
   tests |-> Hash([i \in DOMAIN p.tests |-> TestContent(p.tests[i])])]

\* assessment_test_content_hash
HashHolds(t) == t.hash = Hash(TestContent(t))

-----------------------------------------------------------------------------
(* What the profile maps to what *)

IsFirst(s, i) == \A j \in 1..i - 1 : s[j].id # s[i].id
Ids(s) == {s[i].id : i \in DOMAIN s}
Row(s, id) == s[CHOOSE i \in DOMAIN s : s[i].id = id /\ IsFirst(s, i)]

\* point_requirement_ids: the requirement of the first point of an id.
Known(p) == Ids(p.points)
RequirementOf(p, k) == IF k \in Known(p) THEN Row(p.points, k).requirement ELSE ""

Find(s, id) == {x \in s : x.id = id}
Student(m, r) == \E x \in Find(m.requirements, r) : x.student
DetectorAvailable(m, d) == \E x \in Find(m.detectors, d) : x.available

\* The uses of a criterion id in dimensions of known points, in the order of the loop.
Uses(p) == UNION {{<<i, k>> : k \in DOMAIN p.dimensions[i].criteria} :
                    i \in {j \in DOMAIN p.dimensions : p.dimensions[j].point \in Known(p)}}
Used(p, u) == p.dimensions[u[1]].criteria[u[2]]
Before(u, v) == u[1] < v[1] \/ (u[1] = v[1] /\ u[2] < v[2])
FirstUse(p, u) == \A v \in Uses(p) : Used(p, v).id = Used(p, u).id => ~Before(v, u)

\* criterion_owners: the point that owns a criterion, "" when none does.
Owner(p, c) ==
  LET first == {u \in Uses(p) : Used(p, u).id = c /\ FirstUse(p, u)}
  IN  IF first = {} THEN "" ELSE p.dimensions[(CHOOSE u \in first : TRUE)[1]].point

-----------------------------------------------------------------------------
(* The issues the gate finds: evaluate *)

Issue(code, area, k, r) == [code |-> code, scope |-> area, point |-> k, requirement |-> r]

ConfirmationScope == [starter |-> "source", points |-> "requirement",
                      dimensions |-> "requirement", tests |-> "test"]

ConfirmationIssues(p, m) ==
  (IF p.confirmed.bundle = Hash(m) THEN {} ELSE {Issue("material_bundle_changed", "classroom", "", "")})
    \cup {Issue("stale_profile_confirmation", ConfirmationScope[f], "", "") :
            f \in {g \in DOMAIN ConfirmationScope : p.confirmed[g] # ConfirmationHashes(p)[g]}}

SourceIssues(p, m) ==
  {Issue(c, "source", "", "") : c \in m.issues \cap SourceBlockers}
    \cup {Issue("starter_source_mismatch", "source", "", "") : x \in {p.starter} \ {m.starter}}

\* The second of two points repeats the id or the requirement of the first.
Repeats(p, i, j) ==
  /\ i < j
  /\ \/ p.points[i].id = p.points[j].id /\ IsFirst(p.points, i)
     \/ p.points[i].requirement = p.points[j].requirement

\* Both are named.
DuplicatePoints(p) ==
  LET n == DOMAIN p.points
  IN  {Issue("criterion_binding_missing", "requirement", p.points[k].id, p.points[k].requirement) :
         k \in {i \in n : \E j \in n : Repeats(p, i, j) \/ Repeats(p, j, i)}}

PointIssues(p, m) ==
  LET points == Range(p.points)
      of(code, x) == Issue(code, "requirement", x.id, x.requirement)
  IN  DuplicatePoints(p)
        \cup {of("unknown_material_requirement", x) : x \in {y \in points : y.requirement \notin {z.id : z \in m.requirements}}}
        \cup {of("requirement_not_student_responsibility", x) :
                x \in {y \in points : \E z \in Find(m.requirements, y.requirement) : ~z.student}}
        \cup {of("detector_binding_unavailable", x) :
                x \in {y \in points : \E z \in Find(m.requirements, y.requirement) :
                                        \E d \in z.detectors : ~DetectorAvailable(m, d)}}

MissingRequirements(p, m) ==
  {Issue("missing_required_requirement", "requirement", "", z.id) :
     z \in {y \in m.requirements : y.student /\ \A x \in Range(p.points) : x.requirement # y.id}}

CriterionIssues(p) ==
  LET of(k) == Issue("criterion_binding_missing", "requirement", k, RequirementOf(p, k))
      point(u) == p.dimensions[u[1]].point
  IN  {of(point(u)) : u \in {v \in Uses(p) : Used(p, v).requirement # RequirementOf(p, point(v))}}
        \cup UNION {{of(point(u)), of(Owner(p, Used(p, u).id))} : u \in {v \in Uses(p) : ~FirstUse(p, v)}}

\* material_test_valid
InMaterials(t, m) == \E x \in Find(m.tests, t.id) : x = MaterialProjection(t)

\* valid_profile_test_ids: one row of the id that is current and enabled is enough.
ValidTests(p, m) == {t.id : t \in {x \in Range(p.tests) : HashHolds(x) /\ InMaterials(x, m) /\ x.enabled}}

TestIssues(p, m) ==
  LET n == DOMAIN p.tests
      linked(t) == Head(t.points)
      of(code, t) == Issue(code, "test", linked(t), RequirementOf(p, linked(t)))
      strange(t) == {c \in t.criteria : Owner(p, c) = ""}
      foreign(t) == {c \in t.criteria : Owner(p, c) # "" /\ Owner(p, c) \notin Range(t.points)}
  IN  {of("unknown_test_reference", p.tests[i]) : i \in {j \in n : ~IsFirst(p.tests, j)}}
        \cup {of("criterion_binding_missing", t) : t \in {x \in Range(p.tests) : strange(x) # {}}}
        \cup {of("stale_profile_confirmation", t) : t \in {x \in Range(p.tests) : ~HashHolds(x)}}
        \cup {of("unknown_test_reference", t) : t \in {x \in Range(p.tests) : ~InMaterials(x, m)}}
        \cup UNION {{Issue("unknown_test_reference", "test", k, "") : k \in Range(t.points) \ Known(p)}
                     \cup {Issue("criterion_binding_missing", "test", Owner(p, c), RequirementOf(p, Owner(p, c))) :
                             c \in foreign(t)} : t \in Range(p.tests)}

DimensionsOf(p, k) == {i \in DOMAIN p.dimensions : p.dimensions[i].point = k}

\* A point without a dimension goes unnoticed.
DimensionCounts_Slip(p, m) ==
  {Issue("criterion_binding_missing", "requirement", k, RequirementOf(p, k)) :
     k \in {x \in Known(p) : Student(m, RequirementOf(p, x)) /\ Cardinality(DimensionsOf(p, x)) > 1}}

DimensionCounts(p, m) ==
  {Issue("criterion_binding_missing", "requirement", k, RequirementOf(p, k)) :
     k \in {x \in Known(p) : Student(m, RequirementOf(p, x)) /\ Cardinality(DimensionsOf(p, x)) # 1}}

\* binding_valid of a test
TestBinds(p, m, k, b) ==
  /\ b.ref \in ValidTests(p, m)
  /\ Owner(p, b.criterion) = k
  /\ k \in Range(Row(p.tests, b.ref).points) /\ b.criterion \in Row(p.tests, b.ref).criteria
  /\ \E x \in Find(m.requirements, RequirementOf(p, k)) : b.ref \in x.tests

\* A detector of the requirement binds, whether it is available or not.
DetectorBinds(p, m, k, b) ==
  /\ Owner(p, b.criterion) = k
  /\ \E x \in Find(m.requirements, RequirementOf(p, k)) : b.ref \in x.detectors

Binds(p, m, k, b) == IF b.kind = "assessment_test" THEN TestBinds(p, m, k, b) ELSE DetectorBinds(p, m, k, b)

Bound(p, m, i) ==
  {b.criterion : b \in {x \in p.dimensions[i].bindings : Binds(p, m, p.dimensions[i].point, x)}}

\* Every criterion must be bound, required or not.
Unbound_Slip(p, m, i) == \E c \in Range(p.dimensions[i].criteria) : c.id \notin Bound(p, m, i)

Unbound(p, m, i) == \E c \in Range(p.dimensions[i].criteria) : c.required /\ c.id \notin Bound(p, m, i)

BindingIssues(p, m) ==
  LET found(i) == Find(m.requirements, RequirementOf(p, p.dimensions[i].point)) # {}
      student == {i \in DOMAIN p.dimensions : Student(m, RequirementOf(p, p.dimensions[i].point))}
      of(code, area, i) == Issue(code, area, p.dimensions[i].point, RequirementOf(p, p.dimensions[i].point))
      badTest(i) == \E b \in p.dimensions[i].bindings :
                      b.kind = "assessment_test" /\ ~TestBinds(p, m, p.dimensions[i].point, b)
      badDetector(i) == \E b \in p.dimensions[i].bindings : b.kind = "detector_profile" /\ ~DetectorAvailable(m, b.ref)
  IN  {Issue("criterion_binding_missing", "requirement", p.dimensions[i].point, "") :
         i \in {j \in DOMAIN p.dimensions : ~found(j)}}
        \cup {of("unknown_test_reference", "test", i) : i \in {j \in student : badTest(j)}}
        \cup {of("criterion_binding_missing", "requirement", i) : i \in {j \in student : Unbound(p, m, j)}}
        \cup {of("detector_binding_unavailable", "requirement", i) : i \in {j \in student : badDetector(j)}}

\* evaluate: the blocking issues, without duplicates.  The one warning there is blocks nothing.
Blocking(p, m) ==
  ConfirmationIssues(p, m) \cup SourceIssues(p, m) \cup PointIssues(p, m) \cup MissingRequirements(p, m)
    \cup CriterionIssues(p) \cup TestIssues(p, m) \cup DimensionCounts(p, m) \cup BindingIssues(p, m)

Ready(p, m) == Blocking(p, m) = {}

-----------------------------------------------------------------------------
(* What the notebook's validator accepts: _validate_v3_profile_draft *)

Unique(s) == \A i, j \in DOMAIN s : s[i].id = s[j].id => i = j

UniqueRows(p) ==
  /\ Unique(p.points) /\ Unique(p.tests)
  /\ \A i, j \in DOMAIN p.points : p.points[i].requirement = p.points[j].requirement => i = j

\* One dimension for each point, and a criterion once only.
OneDimensionEach(p) ==
  /\ {p.dimensions[i].point : i \in DOMAIN p.dimensions} = Ids(p.points)
  /\ \A i, j \in DOMAIN p.dimensions : p.dimensions[i].point = p.dimensions[j].point => i = j
  /\ \A u, v \in Uses(p) : Used(p, u).id = Used(p, v).id => u = v

AcceptsBinding(p, k, b) ==
  /\ Owner(p, b.criterion) = k
  /\ b.kind = "assessment_test" =>
       \E t \in Range(p.tests) : t.id = b.ref /\ t.enabled /\ k \in Range(t.points) /\ b.criterion \in t.criteria

AcceptsBindings(p) ==
  \A i \in DOMAIN p.dimensions :
    /\ \A b \in p.dimensions[i].bindings : AcceptsBinding(p, p.dimensions[i].point, b)
    /\ \A c \in Range(p.dimensions[i].criteria) :
         c.required => \E b \in p.dimensions[i].bindings : b.criterion = c.id

AcceptsTests(p) ==
  \A t \in Range(p.tests) :
    /\ Range(t.points) \subseteq Ids(p.points)
    /\ \A c \in t.criteria : Owner(p, c) \in Range(t.points)
    /\ HashHolds(t)

\* A confirmation that is there is the hash of what is confirmed.  The bundle's is not looked at.
AcceptsConfirmations(p) ==
  \A f \in DOMAIN ConfirmationScope : p.confirmed[f] \in {NoHash, ConfirmationHashes(p)[f]}

Accepts(p) == UniqueRows(p) /\ OneDimensionEach(p) /\ AcceptsTests(p) /\ AcceptsBindings(p) /\ AcceptsConfirmations(p)

-----------------------------------------------------------------------------
(* What a teacher saves *)

Confirmed(p, m) ==
  LET h == ConfirmationHashes(p)
  IN  [p EXCEPT !.confirmed = [bundle |-> Hash(m), starter |-> h.starter, points |-> h.points,
                               dimensions |-> h.dimensions, tests |-> h.tests]]

EditedPoints(s) ==
  {RemoveAt(s, i) : i \in DOMAIN s}
    \cup {[s EXCEPT ![i].requirement = r] : i \in DOMAIN s, r \in Requirement}
    \cup {Append(s, [id |-> k, requirement |-> r]) : k \in Point, r \in Requirement}

Toggled(S, x) == IF x \in S THEN S \ {x} ELSE S \cup {x}

\* The bindings a dimension may be given: those of the first profile, for any of its criteria.
Bindings == {[b EXCEPT !.criterion = c] : b \in UNION {d.bindings : d \in Range(FirstProfile.dimensions)},
                                          c \in Criterion}

EditedDimension(d) ==
  {[d EXCEPT !.point = k] : k \in Point}
    \cup {[d EXCEPT !.criteria = Append(@, c)] : c \in [id : Criterion, requirement : {d.criteria[1].requirement}, required : BOOLEAN]}
    \cup {[d EXCEPT !.criteria[1].required = ~@]}
    \cup {[d EXCEPT !.criteria[1].requirement = r] : r \in Requirement}
    \cup {[d EXCEPT !.bindings = B] : B \in {Toggled(d.bindings, b) : b \in Bindings} \ {{}}}

EditedDimensions(s) ==
  {RemoveAt(s, i) : i \in DOMAIN s}
    \cup {Append(s, s[i]) : i \in DOMAIN s}
    \cup UNION {{[s EXCEPT ![i] = d] : d \in EditedDimension(s[i])} : i \in DOMAIN s}

\* A test is edited with its content_hash, or keeps the one it had.
Rehashed(t) == [t EXCEPT !.hash = Hash(TestContent(t))]

EditedTest(t) ==
  LET next == {[t EXCEPT !.enabled = ~@]}
                \cup {[t EXCEPT !.content = x] : x \in Content}
                \cup {[t EXCEPT !.points = <<k>>] : k \in Point}
                \cup {[t EXCEPT !.criteria = C] : C \in {Toggled(t.criteria, c) : c \in Criterion} \ {{}}}
  IN  next \cup {Rehashed(x) : x \in next}

EditedTests(s) ==
  {RemoveAt(s, i) : i \in DOMAIN s}
    \cup {Append(s, s[i]) : i \in DOMAIN s}
    \cup UNION {{[s EXCEPT ![i] = t] : t \in EditedTest(s[i])} : i \in DOMAIN s}

Edited(p) ==
  {[p EXCEPT !.points = x] : x \in EditedPoints(p.points)}
    \cup {[p EXCEPT !.dimensions = x] : x \in EditedDimensions(p.dimensions)}
    \cup {[p EXCEPT !.tests = x] : x \in EditedTests(p.tests)}

\* What another import of the teacher's files may give.
Imported(m) ==
  {[m EXCEPT !.requirements = {[x EXCEPT !.student = (x.student # (x.id = r))] : x \in @}] : r \in Requirement}
    \cup {[m EXCEPT !.tests = {[x EXCEPT !.content = c] : x \in @}] : c \in Content}
    \cup {[m EXCEPT !.tests = {[x EXCEPT !.enabled = ~@] : x \in @}]}
    \cup {[m EXCEPT !.detectors = {[x EXCEPT !.available = ~@] : x \in @}]}
    \cup {[m EXCEPT !.starter = "another"], [m EXCEPT !.starter = "none"]}
    \cup {[m EXCEPT !.issues = {c}] : c \in SourceBlockers}

-----------------------------------------------------------------------------
(* The requests *)

GateInit ==
  /\ profile = <<>> /\ materials = FirstMaterials /\ held = <<>> /\ published = <<>>
  /\ changes = 0

\* create_plan_draft keeps no draft the gate blocks.
CreatePlanDraft ==
  /\ profile = <<>>
  /\ LET p == Confirmed(FirstProfile, FirstMaterials)
     IN  Ready(p, materials) /\ profile' = <<p>>
  /\ UNCHANGED <<materials, held, published, changes>>

\* update_plan_draft keeps any profile, confirmed anew or as it was, and only reports what the gate finds.
UpdatePlanDraft ==
  /\ profile # <<>> /\ changes < MaxChange
  /\ \E p \in Edited(profile[1]) : profile' \in {<<p>>, <<Confirmed(p, materials)>>}
  /\ changes' = changes + 1
  /\ UNCHANGED <<materials, held, published>>

ImportMaterials ==
  /\ changes < MaxChange
  /\ materials' \in Imported(materials) \ {materials}
  /\ changes' = changes + 1
  /\ UNCHANGED <<profile, held, published>>

\* publish_plan_draft fetches the bundle before it reads the draft.
FetchMaterials ==
  /\ profile # <<>> /\ held = <<>> /\ published = <<>>
  /\ held' = <<materials>>
  /\ UNCHANGED <<profile, materials, published, changes>>

\* publish_draft: require_ready of the draft as it is now and the bundle as it was.
PublishPlanDraft ==
  /\ held # <<>>
  /\ held' = <<>>
  /\ published' = IF Ready(profile[1], held[1]) THEN <<[profile |-> profile[1], materials |-> held[1]]>> ELSE <<>>
  /\ UNCHANGED <<profile, materials, changes>>

GateNext == CreatePlanDraft \/ UpdatePlanDraft \/ ImportMaterials \/ FetchMaterials \/ PublishPlanDraft

GateSpec == GateInit /\ [][GateNext]_gateVars

-----------------------------------------------------------------------------
(* Properties *)

\* The evidence of a required criterion: a test of the materials, enabled and
\* meant for it, or a detector that is there.
Verified(p, m, x, d, c) ==
  \E b \in d.bindings :
    /\ b.criterion = c.id
    /\ \/ /\ b.kind = "assessment_test" /\ b.ref \in x.tests
          /\ \E t \in Range(p.tests) :
               /\ t.id = b.ref /\ c.id \in t.criteria /\ d.point \in Range(t.points)
               /\ [id |-> t.id, content |-> t.content, enabled |-> TRUE] \in m.tests
       \/ b.kind = "detector_profile" /\ b.ref \in x.detectors /\ [id |-> b.ref, available |-> TRUE] \in m.detectors

\* Every requirement that is a student's is observed by one point, whose one
\* dimension verifies what it requires, and no other requirement is observed.
Covers(p, m) ==
  /\ \A x \in Range(p.points) : \E z \in m.requirements : z.id = x.requirement /\ z.student
  /\ \A z \in m.requirements : z.student =>
       \E i \in DOMAIN p.points, j \in DOMAIN p.dimensions :
         /\ \A k \in DOMAIN p.points : p.points[k].requirement = z.id <=> k = i
         /\ \A k \in DOMAIN p.dimensions : p.dimensions[k].point = p.points[i].id <=> k = j
         /\ \A c \in Range(p.dimensions[j].criteria) :
              c.requirement = z.id /\ (c.required => Verified(p, m, z, p.dimensions[j], c))

\* What was published, however the draft was edited and the materials imported
\* while it was, covers the students' requirements of the very materials the
\* teacher confirmed, with the parts the teacher confirmed (evaluate,
\* publish_draft).
PublishedIsCovered ==
  published # <<>> =>
    LET p == published[1].profile
        m == published[1].materials
    IN  Covers(p, m) /\ p.confirmed = Confirmed(p, m).confirmed

\* The profile asks for what the materials have.
Fits(p, m) ==
  /\ p.starter = m.starter /\ m.issues \cap SourceBlockers = {}
  /\ {x.requirement : x \in Range(p.points)} = {z.id : z \in {y \in m.requirements : y.student}}
  /\ \A t \in Range(p.tests) : MaterialProjection(t) \in m.tests
  /\ \A d \in Range(p.dimensions), x \in Range(p.points), z \in m.requirements :
       d.point = x.id /\ z.id = x.requirement =>
         /\ \A c \in Range(d.criteria) : c.requirement = z.id
         /\ \A b \in d.bindings : b.ref \in IF b.kind = "assessment_test" THEN z.tests ELSE z.detectors
         /\ \A y \in z.detectors : [id |-> y, available |-> TRUE] \in m.detectors

\* The gate of the service and the validator of the notebook, two programs with
\* the same rules, agree: a profile the validator accepts, confirmed as it is
\* and fitting the materials, is never blocked (publication_gate.py,
\* profile_validator.py).
FittingIsReady ==
  profile # <<>> =>
    LET p == Confirmed(profile[1], materials)
    IN  Accepts(p) /\ Fits(p, materials) => Ready(p, materials)

\* The gate lets through what covers the requirements, and blocks nothing that
\* does (publication_gate.py, publish_assessment).
GateDecidesRightly == PublishedIsCovered /\ FittingIsReady
=============================================================================
