----------------------------- MODULE Plans_proofs -----------------------------
(***************************************************************************)
(* Theorems about how a plan is written and published: PlanAuthoring, with *)
(* the suggestions a teacher asks for, for any number of sessions, jobs,   *)
(* inputs, workers and attempts; PlanPublication for any number of         *)
(* requests, tabs, drafts, edits and revisions of the settings; and first  *)
(* PublicationGate for every profile and every bundle of materials.        *)
(***************************************************************************)
EXTENDS PlanAuthoring, PlanPublication, PublicationGate, FiniteSetTheorems, SequenceTheorems,
        WellFoundedInduction, TLAPS

-----------------------------------------------------------------------------
(* The publication gate: rows and their ids *)

\* A set of numbers has a least one.
LEMMA LeastNumber ==
  ASSUME NEW T, T \subseteq Nat, T # {}
  PROVE  \E x \in T : \A y \in T : x <= y
<1> DEFINE R == OpToRel(<, Nat)
<1>1. IsWellFoundedOn(R, Nat)
  BY NatLessThanWellFounded
<1>2. \A x, y \in Nat : <<y, x>> \in R <=> y < x
  BY DEF OpToRel
<1> HIDE DEF R
<1>3. PICK x \in T : \A y \in T : ~(<<y, x>> \in R)
  BY <1>1, WFMin
<1>4. \A y \in T : ~(y < x)
  BY <1>2, <1>3
<1>5. \A y \in T : x <= y
  <2> SUFFICES ASSUME NEW y \in T PROVE x <= y
    OBVIOUS
  <2>1. x \in Nat /\ y \in Nat /\ ~(y < x)
    BY <1>4
  <2> QED
    BY <2>1
<1> QED
  BY <1>5

\* Every id has its first row.
LEMMA FirstOfId ==
  ASSUME NEW S, NEW s \in Seq(S), NEW i \in DOMAIN s
  PROVE  \E j \in DOMAIN s : j <= i /\ s[j].id = s[i].id /\ IsFirst(s, j)
<1> DEFINE T == {j \in 1..Len(s) : s[j].id = s[i].id}
<1>1. T \subseteq Nat /\ i \in T
  OBVIOUS
<1>2. PICK j \in T : \A k \in T : j <= k
  BY <1>1, LeastNumber
<1>3. \A k \in 1..j - 1 : k \in 1..Len(s) /\ ~(j <= k)
  BY <1>2
<1>4. IsFirst(s, j)
  BY <1>2, <1>3 DEF IsFirst
<1> QED
  BY <1>1, <1>2, <1>4

\* Where ids differ, an id stands for its row.
LEMMA RowOfId ==
  ASSUME NEW S, NEW s \in Seq(S), Unique(s), NEW i \in DOMAIN s
  PROVE  Row(s, s[i].id) = s[i]
<1>1. \A j \in DOMAIN s : s[j].id = s[i].id => j = i
  BY DEF Unique
<1>2. IsFirst(s, i)
  BY <1>1 DEF IsFirst
<1> QED
  BY <1>1, <1>2 DEF Row

\* The uses of criteria, without the union.
LEMMA UsesAre ==
  ASSUME NEW p, NEW u
  PROVE  u \in Uses(p) <=> \E i \in DOMAIN p.dimensions :
           /\ p.dimensions[i].point \in Known(p)
           /\ \E k \in DOMAIN p.dimensions[i].criteria : u = <<i, k>>
BY DEF Uses

\* The parts of a profile.
LEMMA ProfileParts ==
  ASSUME NEW p \in ProfileRows
  PROVE  /\ p.points \in Seq(PointRows) /\ p.dimensions \in Seq(DimensionRows)
         /\ p.tests \in Seq(TestRows) /\ p.starter \in StarterSources /\ p.confirmed \in Confirmations
BY DEF ProfileRows

\* A point that is known, by its place.
LEMMA KnownPoint ==
  ASSUME NEW p \in ProfileRows, NEW k
  PROVE  k \in Known(p) <=> \E i \in DOMAIN p.points : p.points[i].id = k
BY DEF Known, Ids

\* If no duplicate is named, there is none.
LEMMA NoDuplicates ==
  ASSUME NEW p \in ProfileRows, DuplicatePoints(p) = {}
  PROVE  /\ Unique(p.points)
         /\ \A i, j \in DOMAIN p.points : p.points[i].requirement = p.points[j].requirement => i = j
<1> DEFINE n == DOMAIN p.points
           named(k) == Issue("criterion_binding_missing", "requirement", p.points[k].id, p.points[k].requirement)
<1>1. \A i, j \in n : ~Repeats(p, i, j)
  <2> SUFFICES ASSUME NEW i \in n, NEW j \in n, Repeats(p, i, j)
               PROVE  FALSE
    OBVIOUS
  <2>1. i \in {k \in n : \E l \in n : Repeats(p, k, l) \/ Repeats(p, l, k)}
    OBVIOUS
  <2>2. named(i) \in DuplicatePoints(p)
    BY <2>1 DEF DuplicatePoints
  <2> QED
    BY <2>2
<1>2. p.points \in Seq(PointRows) /\ n = 1..Len(p.points) /\ Len(p.points) \in Nat
  BY ProfileParts
<1>3. \A i, j \in n : p.points[i].requirement = p.points[j].requirement => i = j
  BY <1>1, <1>2 DEF Repeats
<1>4. Unique(p.points)
  <2> SUFFICES ASSUME NEW i \in n, NEW j \in n, i < j, p.points[i].id = p.points[j].id
               PROVE  FALSE
    BY <1>2 DEF Unique
  <2>1. PICK f \in n : f <= i /\ p.points[f].id = p.points[i].id /\ IsFirst(p.points, f)
    BY <1>2, FirstOfId
  <2>2. Repeats(p, f, j)
    BY <1>2, <2>1 DEF Repeats
  <2> QED
    BY <1>1, <2>2
<1> QED
  BY <1>3, <1>4

\* The requirement of a point, where ids differ.
LEMMA RequirementOfPoint ==
  ASSUME NEW p \in ProfileRows, Unique(p.points), NEW i \in DOMAIN p.points
  PROVE  p.points[i].id \in Known(p) /\ RequirementOf(p, p.points[i].id) = p.points[i].requirement
<1>1. Row(p.points, p.points[i].id) = p.points[i]
  BY ProfileParts, RowOfId
<1>2. p.points[i].id \in Known(p)
  BY KnownPoint
<1> QED
  BY <1>1, <1>2 DEF RequirementOf

-----------------------------------------------------------------------------
(* What the gate lets through covers the requirements *)

\* A profile that is ready has no issue of any kind.
LEMMA ReadyParts ==
  ASSUME NEW p, NEW m, Ready(p, m)
  PROVE  /\ ConfirmationIssues(p, m) = {} /\ PointIssues(p, m) = {} /\ DuplicatePoints(p) = {}
         /\ MissingRequirements(p, m) = {} /\ CriterionIssues(p) = {} /\ TestIssues(p, m) = {}
         /\ DimensionCounts(p, m) = {} /\ BindingIssues(p, m) = {}
BY DEF Ready, Blocking, PointIssues

\* What is confirmed is what the gate hashes.
LEMMA ReadyConfirmed ==
  ASSUME NEW p \in ProfileRows, NEW m, Ready(p, m)
  PROVE  p.confirmed = Confirmed(p, m).confirmed
<1>1. ConfirmationIssues(p, m) = {}
  BY ReadyParts
<1>2. p.confirmed.bundle = Hash(m)
  BY <1>1 DEF ConfirmationIssues
<1>3. \A g \in DOMAIN ConfirmationScope : p.confirmed[g] = ConfirmationHashes(p)[g]
  BY <1>1 DEF ConfirmationIssues
<1>4. DOMAIN ConfirmationScope = {"starter", "points", "dimensions", "tests"}
  BY DEF ConfirmationScope
<1>5. LET h == ConfirmationHashes(p)
      IN  /\ p.confirmed.starter = h.starter /\ p.confirmed.points = h.points
          /\ p.confirmed.dimensions = h.dimensions /\ p.confirmed.tests = h.tests
  <2> DEFINE h == ConfirmationHashes(p)
  <2>1. p.confirmed["starter"] = h["starter"] /\ p.confirmed["points"] = h["points"]
        /\ p.confirmed["dimensions"] = h["dimensions"] /\ p.confirmed["tests"] = h["tests"]
    BY <1>3, <1>4
  <2> QED
    BY <2>1
<1>6. p.confirmed \in Confirmations
  BY ProfileParts
<1>7. p.confirmed = [bundle |-> p.confirmed.bundle, starter |-> p.confirmed.starter,
                     points |-> p.confirmed.points, dimensions |-> p.confirmed.dimensions,
                     tests |-> p.confirmed.tests]
  BY <1>6 DEF Confirmations
<1>8. Confirmed(p, m).confirmed = [bundle |-> p.confirmed.bundle, starter |-> p.confirmed.starter,
                     points |-> p.confirmed.points, dimensions |-> p.confirmed.dimensions,
                     tests |-> p.confirmed.tests]
  BY <1>2, <1>5 DEF Confirmed, ProfileRows
<1> QED
  BY <1>7, <1>8

\* Every point is of a requirement of the student's.
LEMMA ReadyPoints ==
  ASSUME NEW p \in ProfileRows, NEW m \in Bundles, Ready(p, m), NEW x \in Range(p.points)
  PROVE  \E z \in m.requirements : z.id = x.requirement /\ z.student
<1> DEFINE of(code, y) == Issue(code, "requirement", y.id, y.requirement)
<1>1. PointIssues(p, m) = {}
  BY ReadyParts
<1>2. x.requirement \in {z.id : z \in m.requirements}
  <2> SUFFICES ASSUME x.requirement \notin {z.id : z \in m.requirements} PROVE FALSE
    OBVIOUS
  <2>1. of("unknown_material_requirement", x) \in PointIssues(p, m)
    BY DEF PointIssues
  <2> QED
    BY <1>1, <2>1
<1>3. PICK z \in m.requirements : z.id = x.requirement
  BY <1>2
<1>4. z.student
  <2> SUFFICES ASSUME ~z.student PROVE FALSE
    OBVIOUS
  <2>1. z \in Find(m.requirements, x.requirement)
    BY <1>3 DEF Find
  <2>2. of("requirement_not_student_responsibility", x) \in PointIssues(p, m)
    BY <2>1 DEF PointIssues
  <2> QED
    BY <1>1, <2>2
<1> QED
  BY <1>3, <1>4

\* Every requirement of the student's has its one point.
LEMMA ReadyRequirements ==
  ASSUME NEW p \in ProfileRows, NEW m \in Bundles, Ready(p, m), NEW z \in m.requirements, z.student
  PROVE  \E i \in DOMAIN p.points :
           /\ p.points[i].requirement = z.id
           /\ \A k \in DOMAIN p.points : p.points[k].requirement = z.id <=> k = i
<1>1. \E x \in Range(p.points) : x.requirement = z.id
  <2> SUFFICES ASSUME \A x \in Range(p.points) : x.requirement # z.id PROVE FALSE
    OBVIOUS
  <2>1. Issue("missing_required_requirement", "requirement", "", z.id) \in MissingRequirements(p, m)
    BY DEF MissingRequirements
  <2> QED
    BY <2>1, ReadyParts
<1>2. PICK i \in DOMAIN p.points : p.points[i].requirement = z.id
  BY <1>1 DEF Range
<1>3. \A k \in DOMAIN p.points : p.points[k].requirement = p.points[i].requirement => k = i
  BY NoDuplicates, ReadyParts
<1> QED
  BY <1>2, <1>3

\* Such a point has one dimension.
LEMMA ReadyDimension ==
  ASSUME NEW p \in ProfileRows, NEW m \in Bundles, Ready(p, m), NEW z \in m.requirements, z.student,
         NEW i \in DOMAIN p.points, p.points[i].requirement = z.id
  PROVE  \E j \in DOMAIN p.dimensions :
           \A k \in DOMAIN p.dimensions : p.dimensions[k].point = p.points[i].id <=> k = j
<1> DEFINE point == p.points[i].id
<1>1. point \in Known(p) /\ RequirementOf(p, point) = z.id
  BY RequirementOfPoint, NoDuplicates, ReadyParts
<1>2. Student(m, RequirementOf(p, point))
  BY <1>1 DEF Student, Find
<1>3. Cardinality(DimensionsOf(p, point)) = 1
  <2> SUFFICES ASSUME Cardinality(DimensionsOf(p, point)) # 1 PROVE FALSE
    OBVIOUS
  <2>1. Issue("criterion_binding_missing", "requirement", point, RequirementOf(p, point)) \in DimensionCounts(p, m)
    BY <1>1, <1>2 DEF DimensionCounts
  <2> QED
    BY <2>1, ReadyParts
<1>4. IsFiniteSet(DimensionsOf(p, point))
  <2>1. DOMAIN p.dimensions = 1..Len(p.dimensions) /\ Len(p.dimensions) \in Nat
    BY ProfileParts
  <2>2. IsFiniteSet(1..Len(p.dimensions))
    BY <2>1, FS_Interval
  <2>3. DimensionsOf(p, point) \subseteq DOMAIN p.dimensions
    BY DEF DimensionsOf
  <2> QED
    BY <2>1, <2>2, <2>3, FS_Subset
<1>5. PICK j : DimensionsOf(p, point) = {j}
  BY <1>3, <1>4, FS_Singleton
<1> QED
  BY <1>5 DEF DimensionsOf

\* What a row of the profile's tests that the gate found valid proves of the materials'.
LEMMA ReadyTests ==
  ASSUME NEW p \in ProfileRows, NEW m \in Bundles, Ready(p, m)
  PROVE  /\ Unique(p.tests)
         /\ \A t \in Range(p.tests) : MaterialProjection(t) \in m.tests
<1>1. TestIssues(p, m) = {}
  BY ReadyParts
<1>2. p.tests \in Seq(TestRows) /\ DOMAIN p.tests = 1..Len(p.tests) /\ Len(p.tests) \in Nat
  BY ProfileParts
<1> DEFINE of(code, t) == Issue(code, "test", Head(t.points), RequirementOf(p, Head(t.points)))
<1>3. \A j \in DOMAIN p.tests : IsFirst(p.tests, j)
  <2> SUFFICES ASSUME NEW j \in DOMAIN p.tests, ~IsFirst(p.tests, j) PROVE FALSE
    OBVIOUS
  <2>1. of("unknown_test_reference", p.tests[j]) \in TestIssues(p, m)
    BY DEF TestIssues
  <2> QED
    BY <1>1, <2>1
<1>4. Unique(p.tests)
  BY <1>2, <1>3 DEF IsFirst, Unique
<1>5. \A t \in Range(p.tests) : MaterialProjection(t) \in m.tests
  <2> SUFFICES ASSUME NEW t \in Range(p.tests), MaterialProjection(t) \notin m.tests PROVE FALSE
    OBVIOUS
  <2>1. ~InMaterials(t, m)
    BY DEF InMaterials, Find
  <2>2. of("unknown_test_reference", t) \in TestIssues(p, m)
    BY <2>1 DEF TestIssues
  <2> QED
    BY <1>1, <2>2
<1> QED
  BY <1>4, <1>5

\* A criterion of such a dimension is of its requirement, and verified if it must be.
LEMMA ReadyCriterion ==
  ASSUME NEW p \in ProfileRows, NEW m \in Bundles, Ready(p, m), NEW z \in m.requirements, z.student,
         NEW i \in DOMAIN p.points, p.points[i].requirement = z.id,
         NEW j \in DOMAIN p.dimensions, p.dimensions[j].point = p.points[i].id,
         NEW c \in Range(p.dimensions[j].criteria)
  PROVE  c.requirement = z.id /\ (c.required => Verified(p, m, z, p.dimensions[j], c))
<1> DEFINE d == p.dimensions[j]
           point == p.points[i].id
<1>1. point \in Known(p) /\ RequirementOf(p, point) = z.id /\ d.point = point
  BY RequirementOfPoint, NoDuplicates, ReadyParts
<1>2. \A x \in Find(m.requirements, z.id) : x = z
  BY DEF Find, Bundles
<1>3. Student(m, RequirementOf(p, point)) /\ z \in Find(m.requirements, RequirementOf(p, point))
  BY <1>1 DEF Student, Find
<1>4. c.requirement = z.id
  <2>1. PICK n \in DOMAIN d.criteria : c = d.criteria[n]
    BY DEF Range
  <2>2. <<j, n>> \in Uses(p)
    BY <1>1, <2>1, UsesAre
  <2>3. Used(p, <<j, n>>) = c /\ p.dimensions[<<j, n>>[1]].point = point
    BY <1>1, <2>1 DEF Used
  <2>4. \A v \in Uses(p) : Used(p, v).requirement = RequirementOf(p, p.dimensions[v[1]].point)
    <3> SUFFICES ASSUME NEW v \in Uses(p), Used(p, v).requirement # RequirementOf(p, p.dimensions[v[1]].point)
                 PROVE  FALSE
      OBVIOUS
    <3>1. Issue("criterion_binding_missing", "requirement", p.dimensions[v[1]].point,
                RequirementOf(p, p.dimensions[v[1]].point)) \in CriterionIssues(p)
      BY DEF CriterionIssues
    <3> QED
      BY <3>1, ReadyParts
  <2> QED
    BY <1>1, <2>2, <2>3, <2>4
<1>5. ASSUME c.required PROVE Verified(p, m, z, d, c)
  <2>1. BindingIssues(p, m) = {}
    BY ReadyParts
  <2> DEFINE of(code, area) == Issue(code, area, d.point, RequirementOf(p, d.point))
  <2>2. c.id \in Bound(p, m, j)
    <3> SUFFICES ASSUME c.id \notin Bound(p, m, j) PROVE FALSE
      OBVIOUS
    <3>1. Unbound(p, m, j)
      BY <1>5 DEF Unbound
    <3>2. of("criterion_binding_missing", "requirement") \in BindingIssues(p, m)
      BY <1>1, <1>3, <3>1 DEF BindingIssues
    <3> QED
      BY <2>1, <3>2
  <2>3. PICK b \in d.bindings : Binds(p, m, point, b) /\ b.criterion = c.id
    BY <1>1, <2>2 DEF Bound
  <2>4. b.kind \in {"assessment_test", "detector_profile"}
    <3>1. d \in DimensionRows
      BY ProfileParts
    <3> QED
      BY <3>1 DEF DimensionRows, BindingRows
  <2>5. CASE b.kind = "assessment_test"
    <3>1. TestBinds(p, m, point, b)
      BY <2>3, <2>5 DEF Binds
    <3>2. PICK t \in Range(p.tests) : t.id = b.ref /\ t.enabled
      BY <3>1 DEF TestBinds, ValidTests
    <3>3. PICK n \in DOMAIN p.tests : t = p.tests[n]
      BY DEF Range
    <3>4. Row(p.tests, b.ref) = t
      BY <3>2, <3>3, RowOfId, ReadyTests, ProfileParts
    <3>5. c.id \in t.criteria /\ d.point \in Range(t.points)
      BY <1>1, <2>3, <3>1, <3>4 DEF TestBinds
    <3>6. b.ref \in z.tests
      BY <1>1, <1>2, <3>1 DEF TestBinds
    <3>7. [id |-> t.id, content |-> t.content, enabled |-> TRUE] \in m.tests
      <4>1. t.enabled = TRUE
        BY <3>2, <3>3, ProfileParts DEF TestRows
      <4>2. MaterialProjection(t) \in m.tests
        BY ReadyTests
      <4> QED
        BY <4>1, <4>2 DEF MaterialProjection
    <3> QED
      BY <2>3, <2>5, <3>2, <3>5, <3>6, <3>7 DEF Verified
  <2>6. CASE b.kind = "detector_profile"
    <3>1. DetectorBinds(p, m, point, b)
      BY <2>3, <2>6 DEF Binds
    <3>2. b.ref \in z.detectors
      BY <1>1, <1>2, <3>1 DEF DetectorBinds
    <3>3. DetectorAvailable(m, b.ref)
      <4> SUFFICES ASSUME ~DetectorAvailable(m, b.ref) PROVE FALSE
        OBVIOUS
      <4>1. of("detector_binding_unavailable", "requirement") \in BindingIssues(p, m)
        BY <1>1, <1>3, <2>6 DEF BindingIssues
      <4> QED
        BY <2>1, <4>1
    <3>4. PICK x \in m.detectors : x.id = b.ref /\ x.available
      BY <3>3 DEF DetectorAvailable, Find
    <3>5. x = [id |-> b.ref, available |-> TRUE]
      <4>1. x \in [id : STRING, available : BOOLEAN]
        BY DEF Bundles, Materials
      <4> QED
        BY <3>4, <4>1
    <3> QED
      BY <2>3, <2>6, <3>2, <3>4, <3>5 DEF Verified
  <2> QED
    BY <2>4, <2>5, <2>6
<1> QED
  BY <1>4, <1>5

\* A profile that is ready for the materials covers them.
LEMMA ReadyCovers ==
  ASSUME NEW p \in ProfileRows, NEW m \in Bundles, Ready(p, m)
  PROVE  Covers(p, m)
<1>1. \A x \in Range(p.points) : \E z \in m.requirements : z.id = x.requirement /\ z.student
  BY ReadyPoints
<1>2. ASSUME NEW z \in m.requirements, z.student
      PROVE  \E i \in DOMAIN p.points, j \in DOMAIN p.dimensions :
               /\ \A k \in DOMAIN p.points : p.points[k].requirement = z.id <=> k = i
               /\ \A k \in DOMAIN p.dimensions : p.dimensions[k].point = p.points[i].id <=> k = j
               /\ \A c \in Range(p.dimensions[j].criteria) :
                    c.requirement = z.id /\ (c.required => Verified(p, m, z, p.dimensions[j], c))
  <2>1. PICK i \in DOMAIN p.points :
          /\ p.points[i].requirement = z.id
          /\ \A k \in DOMAIN p.points : p.points[k].requirement = z.id <=> k = i
    BY <1>2, ReadyRequirements
  <2>2. PICK j \in DOMAIN p.dimensions :
          \A k \in DOMAIN p.dimensions : p.dimensions[k].point = p.points[i].id <=> k = j
    BY <1>2, <2>1, ReadyDimension
  <2>3. \A c \in Range(p.dimensions[j].criteria) :
          c.requirement = z.id /\ (c.required => Verified(p, m, z, p.dimensions[j], c))
    BY <1>2, <2>1, <2>2, ReadyCriterion
  <2> QED
    BY <2>1, <2>2, <2>3
<1> QED
  BY <1>1, <1>2 DEF Covers

-----------------------------------------------------------------------------
(* What the validator accepts and fits the materials is ready *)

\* Where a criterion is used once, its use is the first and its point the owner.
LEMMA OwnerOfUse ==
  ASSUME NEW q \in ProfileRows, OneDimensionEach(q), NEW u \in Uses(q)
  PROVE  FirstUse(q, u) /\ Owner(q, Used(q, u).id) = q.dimensions[u[1]].point
<1>1. \A v \in Uses(q) : Used(q, v).id = Used(q, u).id => v = u
  BY DEF OneDimensionEach
<1>2. PICK i \in DOMAIN q.dimensions : \E k \in DOMAIN q.dimensions[i].criteria : u = <<i, k>>
  BY UsesAre
<1>21. PICK k \in DOMAIN q.dimensions[i].criteria : u = <<i, k>>
  BY <1>2
<1>3. i \in Nat /\ k \in Nat
  <2>1. q.dimensions \in Seq(DimensionRows)
    BY ProfileParts
  <2>2. q.dimensions[i] \in DimensionRows
    BY <2>1
  <2>3. q.dimensions[i].criteria \in Seq(CriterionRows)
    BY <2>2 DEF DimensionRows
  <2> QED
    BY <2>1, <2>3
<1>4. ~Before(u, u)
  BY <1>21, <1>3 DEF Before
<1>5. FirstUse(q, u)
  BY <1>1, <1>4 DEF FirstUse
<1>6. {v \in Uses(q) : Used(q, v).id = Used(q, u).id /\ FirstUse(q, v)} = {u}
  BY <1>1, <1>5
<1>7. (CHOOSE v \in {u} : TRUE) = u
  OBVIOUS
<1> QED
  BY <1>5, <1>6, <1>7 DEF Owner

\* A dimension of such a profile, its point and its requirement.
LEMMA FittingDimension ==
  ASSUME NEW q \in ProfileRows, NEW m \in Bundles, UniqueRows(q), OneDimensionEach(q), Fits(q, m),
         NEW j \in DOMAIN q.dimensions
  PROVE  \E z \in m.requirements :
           /\ q.dimensions[j].point \in Known(q) /\ RequirementOf(q, q.dimensions[j].point) = z.id
           /\ Find(m.requirements, z.id) = {z}
           /\ \A c \in Range(q.dimensions[j].criteria) : c.requirement = z.id
           /\ \A b \in q.dimensions[j].bindings :
                b.ref \in IF b.kind = "assessment_test" THEN z.tests ELSE z.detectors
           /\ \A y \in z.detectors : DetectorAvailable(m, y)
<1> DEFINE d == q.dimensions[j]
<1>1. PICK i \in DOMAIN q.points : q.points[i].id = d.point
  <2>1. d.point \in {q.dimensions[i].point : i \in DOMAIN q.dimensions}
    OBVIOUS
  <2>2. d.point \in Ids(q.points)
    BY <2>1 DEF OneDimensionEach
  <2> QED
    BY <2>2 DEF Ids
<1>2. d.point \in Known(q) /\ RequirementOf(q, d.point) = q.points[i].requirement
  BY <1>1, RequirementOfPoint DEF UniqueRows
<1>3. q.points[i] \in Range(q.points) /\ d \in Range(q.dimensions)
  BY DEF Range
<1>4. PICK z \in m.requirements : z.id = q.points[i].requirement
  BY <1>3 DEF Fits
<1>5. Find(m.requirements, z.id) = {z}
  BY DEF Find, Bundles
<1>6. /\ \A c \in Range(d.criteria) : c.requirement = z.id
      /\ \A b \in d.bindings : b.ref \in IF b.kind = "assessment_test" THEN z.tests ELSE z.detectors
      /\ \A y \in z.detectors : [id |-> y, available |-> TRUE] \in m.detectors
  BY <1>1, <1>3, <1>4 DEF Fits
<1>7. \A y \in z.detectors : DetectorAvailable(m, y)
  <2> SUFFICES ASSUME NEW y \in z.detectors PROVE DetectorAvailable(m, y)
    OBVIOUS
  <2> DEFINE x == [id |-> y, available |-> TRUE]
  <2>1. x \in m.detectors /\ x.id = y /\ x.available
    BY <1>6
  <2> HIDE DEF x
  <2> QED
    BY <2>1 DEF DetectorAvailable, Find
<1> QED
  BY <1>2, <1>4, <1>5, <1>6, <1>7

\* Nothing in its confirmations and its source.
LEMMA FittingConfirmed ==
  ASSUME NEW p \in ProfileRows, NEW m, NEW q, q = Confirmed(p, m), Fits(q, m)
  PROVE  ConfirmationIssues(q, m) = {} /\ SourceIssues(q, m) = {}
<1>1. q.confirmed = [bundle |-> Hash(m), starter |-> ConfirmationHashes(p).starter,
                     points |-> ConfirmationHashes(p).points,
                     dimensions |-> ConfirmationHashes(p).dimensions, tests |-> ConfirmationHashes(p).tests]
  BY DEF Confirmed, ProfileRows
<1>2. q.points = p.points /\ q.dimensions = p.dimensions /\ q.tests = p.tests /\ q.starter = p.starter
  BY DEF Confirmed, ProfileRows
<1>3. ConfirmationHashes(q) = ConfirmationHashes(p)
  BY <1>2 DEF ConfirmationHashes
<1>4. \A g \in DOMAIN ConfirmationScope : q.confirmed[g] = ConfirmationHashes(q)[g]
  <2> DEFINE h == ConfirmationHashes(p)
  <2>1. h.starter = h["starter"] /\ h.points = h["points"] /\ h.dimensions = h["dimensions"] /\ h.tests = h["tests"]
    OBVIOUS
  <2> HIDE DEF h
  <2>2. q.confirmed["starter"] = h["starter"] /\ q.confirmed["points"] = h["points"]
        /\ q.confirmed["dimensions"] = h["dimensions"] /\ q.confirmed["tests"] = h["tests"]
    BY <1>1, <2>1 DEF h
  <2>3. DOMAIN ConfirmationScope = {"starter", "points", "dimensions", "tests"}
    BY DEF ConfirmationScope
  <2> QED
    BY <1>3, <2>2, <2>3 DEF h
<1>5. ConfirmationIssues(q, m) = {}
  <2>1. {g \in DOMAIN ConfirmationScope : q.confirmed[g] # ConfirmationHashes(q)[g]} = {}
    BY <1>4
  <2>2. q.confirmed.bundle = Hash(m)
    BY <1>1
  <2> QED
    BY <2>1, <2>2 DEF ConfirmationIssues
<1>6. m.issues \cap SourceBlockers = {} /\ {q.starter} \ {m.starter} = {}
  BY DEF Fits
<1> QED
  BY <1>5, <1>6 DEF SourceIssues

\* Nothing in its points.
LEMMA FittingPoints ==
  ASSUME NEW q \in ProfileRows, NEW m \in Bundles, UniqueRows(q), OneDimensionEach(q), Fits(q, m)
  PROVE  PointIssues(q, m) = {} /\ MissingRequirements(q, m) = {}
<1>1. DuplicatePoints(q) = {}
  <2>1. \A i, j \in DOMAIN q.points : ~Repeats(q, i, j)
    <3>1. \A i, j \in DOMAIN q.points : i < j => i # j
      BY ProfileParts
    <3> QED
      BY <3>1 DEF UniqueRows, Unique, Repeats
  <2>2. {i \in DOMAIN q.points : \E j \in DOMAIN q.points : Repeats(q, i, j) \/ Repeats(q, j, i)} = {}
    BY <2>1
  <2> QED
    BY <2>2 DEF DuplicatePoints
<1>2. ASSUME NEW y \in Range(q.points)
      PROVE  /\ y.requirement \in {z.id : z \in m.requirements}
             /\ \A z \in Find(m.requirements, y.requirement) : z.student /\ \A d \in z.detectors : DetectorAvailable(m, d)
  <2>1. PICK s \in m.requirements : s.student /\ s.id = y.requirement
    BY DEF Fits
  <2>2. \A z \in Find(m.requirements, y.requirement) : z = s
    BY <2>1 DEF Find, Bundles
  <2>3. PICK i \in DOMAIN q.points : y = q.points[i]
    BY DEF Range
  <2>4. PICK j \in DOMAIN q.dimensions : q.dimensions[j].point = y.id
    BY <2>3 DEF OneDimensionEach, Ids
  <2>5. PICK z \in m.requirements : /\ RequirementOf(q, y.id) = z.id
                                    /\ \A d \in z.detectors : DetectorAvailable(m, d)
    BY <2>4, FittingDimension
  <2>6. RequirementOf(q, y.id) = y.requirement
    BY <2>3, RequirementOfPoint DEF UniqueRows
  <2>7. z = s
    BY <2>1, <2>5, <2>6 DEF Bundles
  <2> QED
    BY <2>1, <2>2, <2>5, <2>7
<1>3. /\ {y \in Range(q.points) : y.requirement \notin {z.id : z \in m.requirements}} = {}
      /\ {y \in Range(q.points) : \E z \in Find(m.requirements, y.requirement) : ~z.student} = {}
      /\ {y \in Range(q.points) : \E z \in Find(m.requirements, y.requirement) :
                                    \E d \in z.detectors : ~DetectorAvailable(m, d)} = {}
  BY <1>2
<1>4. PointIssues(q, m) = {}
  BY <1>1, <1>3 DEF PointIssues
<1>5. {y \in m.requirements : y.student /\ \A x \in Range(q.points) : x.requirement # y.id} = {}
  <2> SUFFICES ASSUME NEW y \in m.requirements, y.student, \A x \in Range(q.points) : x.requirement # y.id
               PROVE  FALSE
    OBVIOUS
  <2>1. y.id \in {x.requirement : x \in Range(q.points)}
    BY DEF Fits
  <2> QED
    BY <2>1
<1> QED
  BY <1>4, <1>5 DEF MissingRequirements

\* Nothing in its criteria.
LEMMA FittingCriteria ==
  ASSUME NEW q \in ProfileRows, NEW m \in Bundles, UniqueRows(q), OneDimensionEach(q), Fits(q, m)
  PROVE  CriterionIssues(q) = {}
<1>1. \A v \in Uses(q) : FirstUse(q, v)
  BY OwnerOfUse
<1>2. ASSUME NEW v \in Uses(q)
      PROVE  Used(q, v).requirement = RequirementOf(q, q.dimensions[v[1]].point)
  <2>1. PICK i \in DOMAIN q.dimensions : \E k \in DOMAIN q.dimensions[i].criteria : v = <<i, k>>
    BY UsesAre
  <2>2. Used(q, v) \in Range(q.dimensions[i].criteria) /\ v[1] = i
    BY <2>1 DEF Used, Range
  <2> QED
    BY <2>2, FittingDimension
<1>3. /\ {v \in Uses(q) : Used(q, v).requirement # RequirementOf(q, q.dimensions[v[1]].point)} = {}
      /\ {v \in Uses(q) : ~FirstUse(q, v)} = {}
  BY <1>1, <1>2
<1> QED
  BY <1>3 DEF CriterionIssues

\* Nothing in its tests.
LEMMA FittingTests ==
  ASSUME NEW q \in ProfileRows, NEW m \in Bundles, UniqueRows(q), AcceptsTests(q), Fits(q, m)
  PROVE  TestIssues(q, m) = {}
<1>1. \A j \in DOMAIN q.tests : IsFirst(q.tests, j)
  <2>1. \A j \in DOMAIN q.tests : \A i \in 1..j - 1 : i \in DOMAIN q.tests /\ i # j
    <3>1. q.tests \in Seq(TestRows) /\ DOMAIN q.tests = 1..Len(q.tests) /\ Len(q.tests) \in Nat
      BY ProfileParts
    <3> QED
      BY <3>1
  <2> QED
    BY <2>1 DEF UniqueRows, Unique, IsFirst
<1>2. ASSUME NEW t \in Range(q.tests)
      PROVE  /\ Range(t.points) \ Known(q) = {} /\ HashHolds(t) /\ InMaterials(t, m)
             /\ \A c \in t.criteria : Owner(q, c) # "" /\ Owner(q, c) \in Range(t.points)
  <2>1. Range(t.points) \subseteq Known(q) /\ HashHolds(t) /\ \A c \in t.criteria : Owner(q, c) \in Range(t.points)
    BY DEF AcceptsTests, Known
  <2>2. "" \notin Known(q)
    <3>1. \A i \in DOMAIN q.points : q.points[i] \in PointRows
      BY ProfileParts
    <3> QED
      BY <3>1, GateAssumption DEF Known, Ids, PointRows
  <2>3. InMaterials(t, m)
    <3>1. MaterialProjection(t) \in m.tests
      BY DEF Fits
    <3>2. MaterialProjection(t).id = t.id
      BY DEF MaterialProjection
    <3> QED
      BY <3>1, <3>2 DEF InMaterials, Find
  <2> QED
    BY <2>1, <2>2, <2>3
<1> DEFINE strange(t) == {c \in t.criteria : Owner(q, c) = ""}
           foreign(t) == {c \in t.criteria : Owner(q, c) # "" /\ Owner(q, c) \notin Range(t.points)}
<1>3. \A t \in Range(q.tests) : strange(t) = {} /\ foreign(t) = {}
  BY <1>2
<1>4. /\ {j \in DOMAIN q.tests : ~IsFirst(q.tests, j)} = {}
      /\ {x \in Range(q.tests) : strange(x) # {}} = {}
      /\ {x \in Range(q.tests) : ~HashHolds(x)} = {}
      /\ {x \in Range(q.tests) : ~InMaterials(x, m)} = {}
  BY <1>1, <1>2, <1>3
<1>5. \A t \in Range(q.tests) :
        {Issue("unknown_test_reference", "test", k, "") : k \in Range(t.points) \ Known(q)}
          \cup {Issue("criterion_binding_missing", "test", Owner(q, c), RequirementOf(q, Owner(q, c))) :
                  c \in foreign(t)} = {}
  BY <1>2, <1>3
<1> QED
  BY <1>4, <1>5 DEF TestIssues

\* Nothing in the number of its dimensions.
LEMMA FittingCounts ==
  ASSUME NEW q \in ProfileRows, NEW m \in Bundles, OneDimensionEach(q)
  PROVE  DimensionCounts(q, m) = {}
<1>1. ASSUME NEW k \in Known(q)
      PROVE  Cardinality(DimensionsOf(q, k)) = 1
  <2>1. PICK j \in DOMAIN q.dimensions : q.dimensions[j].point = k
    BY DEF OneDimensionEach, Known
  <2>2. DimensionsOf(q, k) = {j}
    BY <2>1 DEF OneDimensionEach, DimensionsOf
  <2> QED
    BY <2>2, FS_Singleton
<1>2. {x \in Known(q) : Student(m, RequirementOf(q, x)) /\ Cardinality(DimensionsOf(q, x)) # 1} = {}
  BY <1>1
<1> QED
  BY <1>2 DEF DimensionCounts

\* A binding of such a profile binds.
LEMMA FittingBinds ==
  ASSUME NEW q \in ProfileRows, NEW m \in Bundles, Accepts(q), Fits(q, m),
         NEW j \in DOMAIN q.dimensions, NEW b \in q.dimensions[j].bindings
  PROVE  /\ Binds(q, m, q.dimensions[j].point, b)
         /\ b.kind = "assessment_test" => TestBinds(q, m, q.dimensions[j].point, b)
         /\ b.kind # "assessment_test" => DetectorAvailable(m, b.ref)
<1> DEFINE k == q.dimensions[j].point
<1>1. AcceptsBinding(q, k, b)
  BY DEF Accepts, AcceptsBindings
<1>2. PICK z \in m.requirements :
        /\ RequirementOf(q, k) = z.id /\ Find(m.requirements, z.id) = {z}
        /\ b.ref \in IF b.kind = "assessment_test" THEN z.tests ELSE z.detectors
        /\ \A y \in z.detectors : DetectorAvailable(m, y)
  BY FittingDimension DEF Accepts
<1>3. ASSUME b.kind = "assessment_test" PROVE TestBinds(q, m, k, b)
  <2>1. PICK t \in Range(q.tests) : t.id = b.ref /\ t.enabled /\ k \in Range(t.points) /\ b.criterion \in t.criteria
    BY <1>1, <1>3 DEF AcceptsBinding
  <2>2. HashHolds(t)
    BY DEF Accepts, AcceptsTests
  <2>3. InMaterials(t, m)
    <3>1. MaterialProjection(t) \in m.tests
      BY DEF Fits
    <3>2. MaterialProjection(t).id = t.id
      BY DEF MaterialProjection
    <3> QED
      BY <3>1, <3>2 DEF InMaterials, Find
  <2>4. b.ref \in ValidTests(q, m)
    BY <2>1, <2>2, <2>3 DEF ValidTests
  <2>5. Row(q.tests, b.ref) = t
    <3>1. PICK n \in DOMAIN q.tests : t = q.tests[n]
      BY DEF Range
    <3> QED
      BY <2>1, <3>1, RowOfId, ProfileParts DEF Accepts, UniqueRows
  <2> QED
    BY <1>1, <1>2, <1>3, <2>1, <2>4, <2>5 DEF TestBinds, AcceptsBinding
<1>4. ASSUME b.kind # "assessment_test" PROVE DetectorBinds(q, m, k, b) /\ DetectorAvailable(m, b.ref)
  BY <1>1, <1>2, <1>4 DEF DetectorBinds, AcceptsBinding
<1> QED
  BY <1>3, <1>4 DEF Binds

\* Nothing in its bindings.
LEMMA FittingBindings ==
  ASSUME NEW q \in ProfileRows, NEW m \in Bundles, Accepts(q), Fits(q, m)
  PROVE  BindingIssues(q, m) = {}
<1> DEFINE found(i) == Find(m.requirements, RequirementOf(q, q.dimensions[i].point)) # {}
           badTest(i) == \E b \in q.dimensions[i].bindings :
                           b.kind = "assessment_test" /\ ~TestBinds(q, m, q.dimensions[i].point, b)
           badDetector(i) == \E b \in q.dimensions[i].bindings :
                               b.kind = "detector_profile" /\ ~DetectorAvailable(m, b.ref)
<1>1. ASSUME NEW j \in DOMAIN q.dimensions
      PROVE  found(j) /\ ~badTest(j) /\ ~badDetector(j) /\ ~Unbound(q, m, j)
  <2>1. found(j)
    BY FittingDimension DEF Accepts
  <2>2. ~badTest(j) /\ ~badDetector(j)
    BY FittingBinds
  <2>3. ASSUME NEW c \in Range(q.dimensions[j].criteria), c.required
        PROVE  c.id \in Bound(q, m, j)
    <3>1. PICK b \in q.dimensions[j].bindings : b.criterion = c.id
      BY <2>3 DEF Accepts, AcceptsBindings
    <3>2. Binds(q, m, q.dimensions[j].point, b)
      BY FittingBinds
    <3> QED
      BY <3>1, <3>2 DEF Bound
  <2> QED
    BY <2>1, <2>2, <2>3 DEF Unbound
<1> DEFINE student == {i \in DOMAIN q.dimensions : Student(m, RequirementOf(q, q.dimensions[i].point))}
<1>2. /\ {j \in DOMAIN q.dimensions : ~found(j)} = {}
      /\ {j \in student : badTest(j)} = {}
      /\ {j \in student : Unbound(q, m, j)} = {}
      /\ {j \in student : badDetector(j)} = {}
  BY <1>1
<1> QED
  BY <1>2 DEF BindingIssues

\* A profile the validator accepts, confirmed and fitting the materials, is ready.
LEMMA FittingReady ==
  ASSUME NEW p \in ProfileRows, NEW m \in Bundles, NEW q \in ProfileRows,
         q = Confirmed(p, m), Accepts(q), Fits(q, m)
  PROVE  Ready(q, m)
<1>1. UniqueRows(q) /\ OneDimensionEach(q) /\ AcceptsTests(q)
  BY DEF Accepts
<1>2. ConfirmationIssues(q, m) = {} /\ SourceIssues(q, m) = {}
  BY FittingConfirmed
<1>3. PointIssues(q, m) = {} /\ MissingRequirements(q, m) = {}
  BY <1>1, FittingPoints
<1>4. CriterionIssues(q) = {}
  BY <1>1, FittingCriteria
<1>5. TestIssues(q, m) = {}
  BY <1>1, FittingTests
<1>6. DimensionCounts(q, m) = {}
  BY <1>1, FittingCounts
<1>7. BindingIssues(q, m) = {}
  BY FittingBindings
<1> QED
  BY <1>2, <1>3, <1>4, <1>5, <1>6, <1>7 DEF Ready, Blocking

-----------------------------------------------------------------------------
(* What is saved and imported is again a profile and a bundle *)

\* A sequence stays one with an element removed, appended or replaced.
LEMMA SequenceEdits ==
  ASSUME NEW S, NEW s \in Seq(S)
  PROVE  /\ \A i \in DOMAIN s : RemoveAt(s, i) \in Seq(S)
         /\ \A e \in S : Append(s, e) \in Seq(S)
         /\ \A i \in DOMAIN s, e \in S : [s EXCEPT ![i] = e] \in Seq(S)
<1>1. ASSUME NEW i \in DOMAIN s PROVE RemoveAt(s, i) \in Seq(S)
  <2>1. SubSeq(s, 1, i - 1) \in Seq(S) /\ SubSeq(s, i + 1, Len(s)) \in Seq(S)
    OBVIOUS
  <2> QED
    BY <2>1, ConcatProperties DEF RemoveAt
<1> QED
  BY <1>1

\* The content of a test's row.
LEMMA TestContentType ==
  ASSUME NEW t \in TestRows
  PROVE  TestContent(t) \in TestContents
BY DEF TestRows, TestContents, TestContent

\* A profile that is confirmed is a profile.
LEMMA ConfirmedType ==
  ASSUME NEW p \in ProfileRows, NEW m \in Bundles
  PROVE  Confirmed(p, m) \in ProfileRows
<1> DEFINE h == ConfirmationHashes(p)
<1>1. /\ p.points \in Seq(PointRows) /\ p.dimensions \in Seq(DimensionRows)
      /\ p.tests \in Seq(TestRows) /\ p.starter \in StarterSources
  BY ProfileParts
<1>2. Hash(m) \in Seq(Materials)
  <2>1. m \in Materials
    BY DEF Bundles
  <2> QED
    BY <2>1 DEF Hash
<1>3. h.starter \in Seq(StarterSources) /\ h.points \in Seq(Seq(PointRows))
  BY <1>1 DEF ConfirmationHashes, Hash
<1>4. h.dimensions \in Seq(Seq(PointRows) \X Seq(DimensionRows))
  <2>1. <<p.points, p.dimensions>> \in Seq(PointRows) \X Seq(DimensionRows)
    BY <1>1
  <2>2. h.dimensions = <<<<p.points, p.dimensions>>>>
    BY DEF ConfirmationHashes, Hash
  <2> QED
    BY <2>1, <2>2
<1>5. h.tests \in Seq(Seq(TestContents))
  <2> DEFINE f == [i \in DOMAIN p.tests |-> TestContent(p.tests[i])]
  <2>1. \A i \in DOMAIN p.tests : TestContent(p.tests[i]) \in TestContents
    BY <1>1, TestContentType
  <2>2. DOMAIN p.tests = 1..Len(p.tests) /\ Len(p.tests) \in Nat
    BY <1>1
  <2>3. f \in [1..Len(p.tests) -> TestContents]
    BY <2>1, <2>2
  <2>4. f \in Seq(TestContents)
    BY <2>2, <2>3, IsASeq
  <2>5. h.tests = <<f>>
    BY DEF ConfirmationHashes, Hash
  <2> HIDE DEF f
  <2> QED
    BY <2>4, <2>5
<1> DEFINE c == [bundle |-> Hash(m), starter |-> h.starter, points |-> h.points,
                 dimensions |-> h.dimensions, tests |-> h.tests]
<1>6. Confirmed(p, m) = [p EXCEPT !.confirmed = c]
  BY DEF Confirmed
<1> HIDE DEF h
<1>7. c \in Confirmations
  BY <1>2, <1>3, <1>4, <1>5 DEF Confirmations
<1> HIDE DEF c
<1> QED
  BY <1>6, <1>7 DEF ProfileRows

\* The points a teacher may save.
LEMMA EditedPointsType ==
  ASSUME NEW s \in Seq(PointRows)
  PROVE  EditedPoints(s) \subseteq Seq(PointRows)
<1>1. \A i \in DOMAIN s, r \in Requirement : [s EXCEPT ![i].requirement = r] \in Seq(PointRows)
  <2> SUFFICES ASSUME NEW i \in DOMAIN s, NEW r \in Requirement
               PROVE  [s EXCEPT ![i].requirement = r] \in Seq(PointRows)
    OBVIOUS
  <2>1. s[i] \in PointRows
    OBVIOUS
  <2>2. [s[i] EXCEPT !.requirement = r] \in PointRows
    BY <2>1 DEF PointRows
  <2>3. [s EXCEPT ![i] = [s[i] EXCEPT !.requirement = r]] \in Seq(PointRows)
    BY <2>2, SequenceEdits
  <2> QED
    BY <2>3
<1>2. \A k \in Point, r \in Requirement : [id |-> k, requirement |-> r] \in PointRows
  BY DEF PointRows
<1>3. \A k \in Point, r \in Requirement : Append(s, [id |-> k, requirement |-> r]) \in Seq(PointRows)
  BY <1>2, SequenceEdits
<1>4. \A i \in DOMAIN s : RemoveAt(s, i) \in Seq(PointRows)
  BY SequenceEdits
<1> QED
  <2> DEFINE added(k, r) == Append(s, [id |-> k, requirement |-> r])
             A == {RemoveAt(s, i) : i \in DOMAIN s}
             B == {[s EXCEPT ![i].requirement = r] : i \in DOMAIN s, r \in Requirement}
             C == {added(k, r) : k \in Point, r \in Requirement}
  <2>1. \A k \in Point, r \in Requirement : added(k, r) \in Seq(PointRows)
    BY <1>3
  <2>2. EditedPoints(s) = A \cup B \cup C
    BY DEF EditedPoints
  <2> HIDE DEF added
  <2>3. A \subseteq Seq(PointRows)
    BY <1>4
  <2>4. B \subseteq Seq(PointRows)
    BY <1>1
  <2>5. C \subseteq Seq(PointRows)
    BY <2>1
  <2> HIDE DEF A, B, C
  <2> QED
    BY <2>2, <2>3, <2>4, <2>5

\* The dimensions a teacher may save.
LEMMA EditedDimensionType ==
  ASSUME NEW d \in DimensionRows
  PROVE  EditedDimension(d) \subseteq DimensionRows
<1>1. /\ d.point \in Point /\ d.criteria \in Seq(CriterionRows) /\ d.criteria # <<>>
      /\ d.bindings \subseteq BindingRows
  BY DEF DimensionRows
<1>2. 1 \in DOMAIN d.criteria /\ d.criteria[1] \in CriterionRows
  BY <1>1
<1>3. ASSUME NEW k \in Point PROVE [d EXCEPT !.point = k] \in DimensionRows
  BY <1>1 DEF DimensionRows
<1>4. ASSUME NEW s \in Seq(CriterionRows), s # <<>> PROVE [d EXCEPT !.criteria = s] \in DimensionRows
  BY <1>1, <1>4 DEF DimensionRows
<1>5. ASSUME NEW c \in [id : Criterion, requirement : {d.criteria[1].requirement}, required : BOOLEAN]
      PROVE  [d EXCEPT !.criteria = Append(@, c)] \in DimensionRows
  <2>1. c \in CriterionRows
    BY <1>2 DEF CriterionRows
  <2>2. Append(d.criteria, c) \in Seq(CriterionRows) /\ Append(d.criteria, c) # <<>>
    BY <1>1, <2>1
  <2> QED
    BY <1>4, <2>2
<1>6. ASSUME NEW e \in CriterionRows
      PROVE  [d EXCEPT !.criteria = [d.criteria EXCEPT ![1] = e]] \in DimensionRows
  <2>1. [d.criteria EXCEPT ![1] = e] \in Seq(CriterionRows) /\ [d.criteria EXCEPT ![1] = e] # <<>>
    BY <1>1, <1>2
  <2> QED
    BY <1>4, <2>1
<1>7. [d EXCEPT !.criteria[1].required = ~@] \in DimensionRows
  <2>1. [d.criteria[1] EXCEPT !.required = ~@] \in CriterionRows
    BY <1>2 DEF CriterionRows
  <2> QED
    BY <1>6, <2>1
<1>8. ASSUME NEW r \in Requirement PROVE [d EXCEPT !.criteria[1].requirement = r] \in DimensionRows
  <2>1. [d.criteria[1] EXCEPT !.requirement = r] \in CriterionRows
    BY <1>2 DEF CriterionRows
  <2> QED
    BY <1>6, <2>1
<1>9. Bindings \subseteq BindingRows
  <2> SUFFICES ASSUME NEW e \in Range(FirstProfile.dimensions), NEW b \in e.bindings, NEW c \in Criterion
               PROVE  [b EXCEPT !.criterion = c] \in BindingRows
    BY DEF Bindings
  <2>1. e \in DimensionRows
    <3>1. FirstProfile.dimensions \in Seq(DimensionRows)
      BY GateAssumption, ProfileParts
    <3> QED
      BY <3>1 DEF Range
  <2>2. b \in BindingRows
    BY <2>1 DEF DimensionRows
  <2> QED
    BY <2>2 DEF BindingRows
<1>10. ASSUME NEW b \in Bindings PROVE [d EXCEPT !.bindings = Toggled(d.bindings, b)] \in DimensionRows
  <2>1. Toggled(d.bindings, b) \subseteq BindingRows
    BY <1>1, <1>9 DEF Toggled
  <2> QED
    BY <1>1, <2>1 DEF DimensionRows
<1> QED
  BY <1>3, <1>5, <1>7, <1>8, <1>10 DEF EditedDimension

\* The dimensions of an edited profile.
LEMMA EditedDimensionsType ==
  ASSUME NEW s \in Seq(DimensionRows)
  PROVE  EditedDimensions(s) \subseteq Seq(DimensionRows)
<1>1. \A i \in DOMAIN s : s[i] \in DimensionRows
  OBVIOUS
<1>2. \A i \in DOMAIN s : \A d \in EditedDimension(s[i]) : [s EXCEPT ![i] = d] \in Seq(DimensionRows)
  BY <1>1, EditedDimensionType, SequenceEdits
<1> QED
  BY <1>1, <1>2, SequenceEdits DEF EditedDimensions

\* The tests a teacher may save.
LEMMA EditedTestType ==
  ASSUME NEW t \in TestRows
  PROVE  EditedTest(t) \subseteq TestRows
<1>1. /\ t.enabled \in BOOLEAN /\ t.criteria \subseteq Criterion /\ t.points \in Seq(Point)
  BY DEF TestRows
<1>2. [t EXCEPT !.enabled = ~@] \in TestRows
  BY DEF TestRows
<1>3. ASSUME NEW x \in Content PROVE [t EXCEPT !.content = x] \in TestRows
  BY DEF TestRows
<1>4. ASSUME NEW k \in Point PROVE [t EXCEPT !.points = <<k>>] \in TestRows
  <2>1. <<k>> \in Seq(Point) \ {<<>>}
    OBVIOUS
  <2> QED
    BY <2>1 DEF TestRows
<1>5. ASSUME NEW c \in Criterion PROVE [t EXCEPT !.criteria = Toggled(t.criteria, c)] \in TestRows
  <2>1. Toggled(t.criteria, c) \subseteq Criterion
    BY <1>1 DEF Toggled
  <2> QED
    BY <2>1 DEF TestRows
<1>6. ASSUME NEW x \in TestRows PROVE Rehashed(x) \in TestRows
  <2>1. Hash(TestContent(x)) \in Seq(TestContents)
    BY TestContentType DEF Hash
  <2> QED
    BY <2>1 DEF Rehashed, TestRows
<1> QED
  BY <1>2, <1>3, <1>4, <1>5, <1>6 DEF EditedTest

\* The tests of an edited profile.
LEMMA EditedTestsType ==
  ASSUME NEW s \in Seq(TestRows)
  PROVE  EditedTests(s) \subseteq Seq(TestRows)
<1>1. \A i \in DOMAIN s : s[i] \in TestRows
  OBVIOUS
<1>2. \A i \in DOMAIN s : \A t \in EditedTest(s[i]) : [s EXCEPT ![i] = t] \in Seq(TestRows)
  BY <1>1, EditedTestType, SequenceEdits
<1> QED
  BY <1>1, <1>2, SequenceEdits DEF EditedTests

\* The profiles a teacher may save.
LEMMA EditedType ==
  ASSUME NEW p \in ProfileRows
  PROVE  Edited(p) \subseteq ProfileRows
<1>1. ASSUME NEW x \in EditedPoints(p.points) PROVE [p EXCEPT !.points = x] \in ProfileRows
  <2>1. x \in Seq(PointRows)
    BY EditedPointsType, ProfileParts
  <2> QED
    BY <2>1 DEF ProfileRows
<1>2. ASSUME NEW x \in EditedDimensions(p.dimensions) PROVE [p EXCEPT !.dimensions = x] \in ProfileRows
  <2>1. x \in Seq(DimensionRows)
    BY EditedDimensionsType, ProfileParts
  <2> QED
    BY <2>1 DEF ProfileRows
<1>3. ASSUME NEW x \in EditedTests(p.tests) PROVE [p EXCEPT !.tests = x] \in ProfileRows
  <2>1. x \in Seq(TestRows)
    BY EditedTestsType, ProfileParts
  <2> QED
    BY <2>1 DEF ProfileRows
<1> QED
  BY <1>1, <1>2, <1>3 DEF Edited

\* The bundles an import may give.
LEMMA ImportedType ==
  ASSUME NEW m \in Bundles
  PROVE  Imported(m) \subseteq Bundles
<1> DEFINE R == [id : Requirement, student : BOOLEAN, tests : SUBSET STRING, detectors : SUBSET STRING]
           T == [id : STRING, content : Content, enabled : BOOLEAN]
           D == [id : STRING, available : BOOLEAN]
<1>1. /\ m \in Materials /\ m.requirements \subseteq R /\ m.tests \subseteq T /\ m.detectors \subseteq D
      /\ \A x, y \in m.requirements : x.id = y.id => x = y
  BY DEF Bundles, Materials
<1>2. ASSUME NEW r \in Requirement
      PROVE  [m EXCEPT !.requirements = {[x EXCEPT !.student = (x.student # (x.id = r))] : x \in @}] \in Bundles
  <2> DEFINE f(x) == [x EXCEPT !.student = (x.student # (x.id = r))]
             Z == {f(x) : x \in m.requirements}
  <2>1. \A x \in R : f(x) \in R /\ f(x).id = x.id
    OBVIOUS
  <2>2. Z \subseteq R
    BY <1>1, <2>1
  <2>3. \A x, y \in m.requirements : f(x).id = f(y).id => f(x) = f(y)
    <3> SUFFICES ASSUME NEW x \in m.requirements, NEW y \in m.requirements, f(x).id = f(y).id
                 PROVE  f(x) = f(y)
      OBVIOUS
    <3>1. x.id = y.id
      BY <1>1, <2>1
    <3>2. x = y
      BY <1>1, <3>1
    <3> QED
      BY <3>2
  <2> HIDE DEF f
  <2>4. \A x, y \in Z : x.id = y.id => x = y
    BY <2>3
  <2>5. [m EXCEPT !.requirements = Z] \in Materials
    BY <1>1, <2>2 DEF Materials
  <2>6. [m EXCEPT !.requirements = Z].requirements = Z
    BY <1>1 DEF Materials
  <2>7. [m EXCEPT !.requirements = Z] \in Bundles
    BY <2>4, <2>5, <2>6 DEF Bundles
  <2> QED
    BY <2>7 DEF f
<1>3. ASSUME NEW X, X \in Materials, X.requirements = m.requirements PROVE X \in Bundles
  BY <1>1, <1>3 DEF Bundles
<1>4. ASSUME NEW c \in Content PROVE [m EXCEPT !.tests = {[x EXCEPT !.content = c] : x \in @}] \in Bundles
  <2> DEFINE Z == {[x EXCEPT !.content = c] : x \in m.tests}
  <2>1. Z \subseteq T
    BY <1>1
  <2>2. [m EXCEPT !.tests = Z] \in Materials /\ [m EXCEPT !.tests = Z].requirements = m.requirements
    BY <1>1, <2>1 DEF Materials
  <2> QED
    BY <1>3, <2>2
<1>5. [m EXCEPT !.tests = {[x EXCEPT !.enabled = ~@] : x \in @}] \in Bundles
  <2> DEFINE Z == {[x EXCEPT !.enabled = ~@] : x \in m.tests}
  <2>1. Z \subseteq T
    BY <1>1
  <2>2. [m EXCEPT !.tests = Z] \in Materials /\ [m EXCEPT !.tests = Z].requirements = m.requirements
    BY <1>1, <2>1 DEF Materials
  <2> QED
    BY <1>3, <2>2
<1>6. [m EXCEPT !.detectors = {[x EXCEPT !.available = ~@] : x \in @}] \in Bundles
  <2> DEFINE Z == {[x EXCEPT !.available = ~@] : x \in m.detectors}
  <2>1. Z \subseteq D
    BY <1>1
  <2>2. [m EXCEPT !.detectors = Z] \in Materials /\ [m EXCEPT !.detectors = Z].requirements = m.requirements
    BY <1>1, <2>1 DEF Materials
  <2> QED
    BY <1>3, <2>2
<1>7. [m EXCEPT !.starter = "another"] \in Bundles /\ [m EXCEPT !.starter = "none"] \in Bundles
  <2>1. "another" \in StarterSources /\ "none" \in StarterSources
    BY DEF StarterSources
  <2>2. ASSUME NEW x \in StarterSources PROVE [m EXCEPT !.starter = x] \in Bundles
    <3>1. [m EXCEPT !.starter = x] \in Materials /\ [m EXCEPT !.starter = x].requirements = m.requirements
      BY <1>1 DEF Materials
    <3> QED
      BY <1>3, <3>1
  <2> QED
    BY <2>1, <2>2
<1>8. ASSUME NEW c \in SourceBlockers PROVE [m EXCEPT !.issues = {c}] \in Bundles
  <2>1. {c} \subseteq MaterialIssueCode
    BY DEF MaterialIssueCode
  <2>2. [m EXCEPT !.issues = {c}] \in Materials /\ [m EXCEPT !.issues = {c}].requirements = m.requirements
    BY <1>1, <2>1 DEF Materials
  <2> QED
    BY <1>3, <2>2
<1> QED
  <2>1. {[m EXCEPT !.requirements = {[x EXCEPT !.student = (x.student # (x.id = r))] : x \in @}] : r \in Requirement}
          \subseteq Bundles
    BY <1>2
  <2>2. {[m EXCEPT !.tests = {[x EXCEPT !.content = c] : x \in @}] : c \in Content} \subseteq Bundles
    BY <1>4
  <2>3. {[m EXCEPT !.issues = {c}] : c \in SourceBlockers} \subseteq Bundles
    BY <1>8
  <2> QED
    BY <2>1, <2>2, <2>3, <1>5, <1>6, <1>7, Zenon DEF Imported

-----------------------------------------------------------------------------
(* The requests *)

\* Every profile and every bundle there is is one, and what was published was
\* found ready against the bundle it was published with, which a request holds
\* only while there is a draft.
GateIInv ==
  /\ materials \in Bundles
  /\ profile # <<>> => profile[1] \in ProfileRows
  /\ held # <<>> => profile # <<>> /\ held[1] \in Bundles
  /\ published # <<>> =>
       /\ published[1].profile \in ProfileRows /\ published[1].materials \in Bundles
       /\ Ready(published[1].profile, published[1].materials)

\* It holds at first and every request preserves it.
LEMMA GateInductive ==
  /\ GateInit => GateIInv
  /\ GateIInv /\ [GateNext]_gateVars => GateIInv'
<1>1. GateInit => GateIInv
  BY GateAssumption DEF GateInit, GateIInv
<1>2. ASSUME GateIInv, [GateNext]_gateVars PROVE GateIInv'
  <2>1. CASE CreatePlanDraft
    <3>1. profile' = <<Confirmed(FirstProfile, FirstMaterials)>>
      BY <2>1 DEF CreatePlanDraft
    <3>2. Confirmed(FirstProfile, FirstMaterials) \in ProfileRows
      BY GateAssumption, ConfirmedType
    <3>3. profile' # <<>> /\ profile'[1] \in ProfileRows
      BY <3>1, <3>2
    <3> QED
      BY <1>2, <2>1, <3>3 DEF CreatePlanDraft, GateIInv
  <2>2. CASE UpdatePlanDraft
    <3>1. PICK p \in Edited(profile[1]) : profile' \in {<<p>>, <<Confirmed(p, materials)>>}
      BY <2>2 DEF UpdatePlanDraft
    <3>2. p \in ProfileRows /\ Confirmed(p, materials) \in ProfileRows
      BY <1>2, <2>2, EditedType, ConfirmedType DEF UpdatePlanDraft, GateIInv
    <3>3. profile' # <<>> /\ profile'[1] \in ProfileRows
      BY <3>1, <3>2
    <3> QED
      BY <1>2, <2>2, <3>3 DEF UpdatePlanDraft, GateIInv
  <2>3. CASE ImportMaterials
    <3>1. materials' \in Bundles
      BY <1>2, <2>3, ImportedType DEF ImportMaterials, GateIInv
    <3> QED
      BY <1>2, <2>3, <3>1 DEF ImportMaterials, GateIInv
  <2>4. CASE FetchMaterials
    BY <1>2, <2>4 DEF FetchMaterials, GateIInv
  <2>5. CASE PublishPlanDraft
    <3>1. profile[1] \in ProfileRows /\ held[1] \in Bundles
      BY <1>2, <2>5 DEF PublishPlanDraft, GateIInv
    <3>2. CASE Ready(profile[1], held[1])
      <4>1. published'[1] = [profile |-> profile[1], materials |-> held[1]]
        BY <2>5, <3>2 DEF PublishPlanDraft
      <4>2. published'[1].profile = profile[1] /\ published'[1].materials = held[1]
        BY <4>1
      <4> QED
        BY <1>2, <2>5, <3>1, <3>2, <4>2 DEF PublishPlanDraft, GateIInv
    <3>3. CASE ~Ready(profile[1], held[1])
      BY <1>2, <2>5, <3>3 DEF PublishPlanDraft, GateIInv
    <3> QED
      BY <3>2, <3>3
  <2>6. CASE UNCHANGED gateVars
    BY <1>2, <2>6 DEF gateVars, GateIInv
  <2> QED
    BY <1>2, <2>1, <2>2, <2>3, <2>4, <2>5, <2>6 DEF GateNext
<1> QED
  BY <1>1, <1>2

\* What is published was ready, for every profile, bundle and number of edits.
THEOREM GateInvariant == GateSpec => []GateIInv
BY GateInductive, PTL DEF GateSpec

\* The gate publishes nothing but a profile that covers the students'
\* requirements of the materials it was confirmed for, and blocks none that the
\* notebook's validator accepts and that fits them.
THEOREM GateIsRight == GateSpec => []GateDecidesRightly
<1>1. GateIInv => PublishedIsCovered
  <2> SUFFICES ASSUME GateIInv, published # <<>> PROVE PublishedIsCovered
    BY DEF PublishedIsCovered
  <2> DEFINE p == published[1].profile
             m == published[1].materials
  <2>1. p \in ProfileRows /\ m \in Bundles /\ Ready(p, m)
    BY DEF GateIInv
  <2>2. Covers(p, m) /\ p.confirmed = Confirmed(p, m).confirmed
    BY <2>1, ReadyCovers, ReadyConfirmed
  <2> QED
    BY <2>2 DEF PublishedIsCovered
<1>2. GateIInv => FittingIsReady
  <2> SUFFICES ASSUME GateIInv, profile # <<>> PROVE FittingIsReady
    BY DEF FittingIsReady
  <2> DEFINE q == Confirmed(profile[1], materials)
  <2>1. profile[1] \in ProfileRows /\ materials \in Bundles
    BY DEF GateIInv
  <2>2. q \in ProfileRows
    BY <2>1, ConfirmedType
  <2>3. Accepts(q) /\ Fits(q, materials) => Ready(q, materials)
    BY <2>1, <2>2, FittingReady
  <2> QED
    BY <2>3 DEF FittingIsReady
<1>3. GateIInv => GateDecidesRightly
  BY <1>1, <1>2 DEF GateDecidesRightly
<1> QED
  BY <1>3, GateInvariant, PTL

-----------------------------------------------------------------------------
(* How a plan is written, published and served *)

USE BoundsAssumption

SessionStatus == {"none", "open", "published", "abandoned"}
DraftRow == [kind : {"none", "trusted", "assessment", "legacy"}, series : 0..MaxDraft,
             session : 0..MaxDraft, revision : 0..MaxEdit, published : -1..MaxEdit,
             context : 0..MaxContext, edits : SUBSET Tab]
VersionRow == [source : Sources, content : Contents]
AssignmentRow == [status : {"none", "pending", "ready"}, version : Nat]
RequestRow == [pc : {"idle", "open", "draft", "publish", "abandon", "sync", "write"},
               context : 0..MaxContext, session : 0..MaxDraft, draft : 0..MaxDraft,
               target : Shown, pending : BOOLEAN]
TabRow == [draft : 0..MaxDraft, revision : 0..MaxEdit, edits : SUBSET Tab]

Made(d) == draft[d].kind # "none"

\* A draft that is made has a series, and a trusted one a session.
DraftsMade ==
  \A d \in Draft : /\ ~Made(d) => draft[d] = NoDraft
                   /\ Made(d) => draft[d].series \in Draft
                   /\ draft[d].kind = "trusted" => draft[d].session \in Session

\* A version is in the series of the draft it was made of.
VersionsHaveDraft ==
  \A s \in Draft : \A n \in DOMAIN versions[s] :
    LET d == versions[s][n].source[1] IN Made(d) /\ draft[d].series = s

IsVersion(target) == \E s \in Draft : \E n \in DOMAIN versions[s] : target = <<s, n>>

\* The experiment, and a request that has one, name a version that exists.
TargetsExist ==
  /\ binding # <<0, 0>> => IsVersion(binding)
  /\ \A r \in Request : /\ request[r].pc \in {"abandon", "sync", "write"} => IsVersion(request[r].target)
                        /\ request[r].pc = "publish" => request[r].draft \in Draft /\ Made(request[r].draft)

\* A tab has read its draft at a revision it had, and has its edits if it is
\* still at that revision.
TabsRead ==
  \A t \in Tab : tab[t].draft # 0 =>
    LET d == draft[tab[t].draft]
    IN  /\ d.kind # "none" /\ tab[t].revision <= d.revision
        /\ tab[t].revision = d.revision => tab[t].edits = d.edits

\* The invariant behind every theorem below.
IInv == TypeOK /\ DraftsMade /\ VersionsHaveDraft /\ TargetsExist /\ TabsRead

\* TypeOK in terms of the rows above.
LEMMA Types ==
  TypeOK <=>
    /\ config \in -1..MaxConfig /\ context \in 0..MaxContext
    /\ session \in [Session -> SessionStatus]
    /\ draft \in [Draft -> DraftRow]
    /\ versions \in [Draft -> Seq(VersionRow)]
    /\ binding \in Shown
    /\ assignment \in [Draft -> AssignmentRow]
    /\ request \in [Request -> RequestRow]
    /\ tab \in [Tab -> TabRow]
    /\ scope \in SUBSET Request /\ Cardinality(scope) <= 1
BY DEF TypeOK, SessionStatus, DraftRow, VersionRow, AssignmentRow, RequestRow, TabRow

-----------------------------------------------------------------------------
(* Sequences *)

\* Appending to a series leaves the versions it had and their numbers.
LEMMA Appended ==
  ASSUME NEW S, NEW q \in Seq(S), NEW x \in S
  PROVE  /\ Append(q, x) \in Seq(S)
         /\ Len(Append(q, x)) = Len(q) + 1
         /\ Append(q, x)[Len(q) + 1] = x
         /\ \A n \in DOMAIN q : Append(q, x)[n] = q[n]
         /\ DOMAIN Append(q, x) = DOMAIN q \cup {Len(q) + 1}
<1>1. Len(q) \in Nat /\ DOMAIN q = 1..Len(q)
  OBVIOUS
<1>2. /\ Append(q, x) \in Seq(S) /\ Len(Append(q, x)) = Len(q) + 1
      /\ Append(q, x)[Len(q) + 1] = x
      /\ \A n \in 1..Len(q) : Append(q, x)[n] = q[n]
  BY AppendProperties
<1>3. DOMAIN Append(q, x) = 1..(Len(q) + 1)
  BY <1>2
<1>4. 1..(Len(q) + 1) = 1..Len(q) \cup {Len(q) + 1}
  BY <1>1
<1> QED
  BY <1>1, <1>2, <1>3, <1>4

-----------------------------------------------------------------------------
(* What an action does to one draft *)

\* A draft is made, is saved by a tab that has its last edits, or is marked as
\* published.
DraftStep(d) ==
  \/ draft'[d] = draft[d]
  \/ /\ ~Made(d) /\ draft'[d] \in DraftRow
     /\ draft'[d].kind # "none" /\ draft'[d].series \in Draft
     /\ draft'[d].kind = "trusted" => draft'[d].session \in Session
     /\ draft'[d].edits = {}
  \/ /\ Made(d)
     /\ \E t \in Tab : /\ tab[t].edits = draft[d].edits
                       /\ draft[d].revision < MaxEdit
                       /\ draft'[d] = [draft[d] EXCEPT !.revision = @ + 1, !.edits = tab[t].edits \cup {t}]
  \/ Made(d) /\ draft'[d] = [draft[d] EXCEPT !.published = draft[d].revision]

DraftSteps == draft' = [d \in Draft |-> draft'[d]] /\ \A d \in Draft : DraftStep(d)

\* A draft keeps its series, its edits and its type, and new edits come with a
\* new revision.
LEMMA DraftFacts ==
  ASSUME TypeOK, DraftsMade, NEW d \in Draft, DraftStep(d)
  PROVE  /\ draft'[d] \in DraftRow
         /\ draft'[d].kind = "none" => draft'[d] = NoDraft
         /\ draft'[d].kind # "none" => draft'[d].series \in Draft
         /\ draft'[d].kind = "trusted" => draft'[d].session \in Session
         /\ draft[d].edits \subseteq draft'[d].edits
         /\ Made(d) => /\ draft'[d].kind = draft[d].kind
                       /\ draft'[d].series = draft[d].series
                       /\ draft'[d].session = draft[d].session
                       /\ draft[d].revision <= draft'[d].revision
                       /\ draft'[d].revision = draft[d].revision => draft'[d].edits = draft[d].edits
<1>1. draft[d] \in DraftRow /\ draft[d].revision \in 0..MaxEdit
  BY Types DEF DraftRow
<1>2. CASE draft'[d] = draft[d]
  BY <1>1, <1>2 DEF DraftsMade, Made, DraftRow
<1>3. CASE /\ ~Made(d) /\ draft'[d] \in DraftRow
           /\ draft'[d].kind # "none" /\ draft'[d].series \in Draft
           /\ draft'[d].kind = "trusted" => draft'[d].session \in Session
           /\ draft'[d].edits = {}
  BY <1>3 DEF DraftsMade, NoDraft
<1>4. CASE /\ Made(d)
           /\ \E t \in Tab : /\ tab[t].edits = draft[d].edits
                             /\ draft[d].revision < MaxEdit
                             /\ draft'[d] = [draft[d] EXCEPT !.revision = @ + 1, !.edits = tab[t].edits \cup {t}]
  <2>1. PICK t \in Tab : /\ tab[t].edits = draft[d].edits
                         /\ draft[d].revision < MaxEdit
                         /\ draft'[d] = [draft[d] EXCEPT !.revision = @ + 1, !.edits = tab[t].edits \cup {t}]
    BY <1>4
  <2>2. draft[d].revision + 1 \in 0..MaxEdit /\ draft[d].edits \cup {t} \in SUBSET Tab
    BY <1>1, <2>1 DEF DraftRow
  <2>3. draft'[d] \in DraftRow
    BY <1>1, <2>1, <2>2 DEF DraftRow
  <2>4. /\ draft'[d].kind = draft[d].kind /\ draft'[d].series = draft[d].series
        /\ draft'[d].session = draft[d].session
        /\ draft'[d].revision = draft[d].revision + 1 /\ draft'[d].edits = draft[d].edits \cup {t}
    BY <1>1, <2>1 DEF DraftRow
  <2> QED
    BY <1>1, <1>4, <2>3, <2>4 DEF DraftsMade, Made
<1>5. CASE Made(d) /\ draft'[d] = [draft[d] EXCEPT !.published = draft[d].revision]
  <2>1. draft[d].revision \in -1..MaxEdit
    BY <1>1
  <2>2. draft'[d] \in DraftRow
    BY <1>1, <1>5, <2>1 DEF DraftRow
  <2>3. /\ draft'[d].kind = draft[d].kind /\ draft'[d].series = draft[d].series
        /\ draft'[d].session = draft[d].session
        /\ draft'[d].revision = draft[d].revision /\ draft'[d].edits = draft[d].edits
    BY <1>1, <1>5 DEF DraftRow
  <2> QED
    BY <1>1, <1>5, <2>2, <2>3 DEF DraftsMade, Made
<1> QED
  BY <1>2, <1>3, <1>4, <1>5 DEF DraftStep

\* The draft a session or a page makes.
LEMMA NewDraftFacts ==
  ASSUME IInv, NEW d \in Draft, NEW s \in 0..MaxDraft,
         NEW kind \in {"trusted", "assessment", "legacy"}, NEW content \in 0..MaxContext,
         kind = "trusted" => s \in Session, NextDraft(d),
         draft' = [draft EXCEPT ![d] = NewDraft(d, s, kind, content)]
  PROVE  DraftSteps /\ draft'[d].kind = kind
<1>1. binding # <<0, 0>> => binding[1] \in Draft
  BY Types DEF IInv, Shown
<1>2. NoDraft \in DraftRow
  BY DEF NoDraft, DraftRow
<1>3. NewDraft(d, s, kind, content) =
        [NoDraft EXCEPT !.kind = kind, !.session = s, !.context = content,
                        !.series = NewDraft(d, s, kind, content).series]
  BY DEF NewDraft, NoDraft
<1>4. NewDraft(d, s, kind, content).series \in Draft
  BY <1>1 DEF NewDraft, NoDraft
<1>5. \A n \in Draft : n \in 0..MaxDraft
  BY DEF Draft
<1>6. /\ NewDraft(d, s, kind, content) \in DraftRow
      /\ NewDraft(d, s, kind, content).kind = kind /\ NewDraft(d, s, kind, content).session = s
      /\ NewDraft(d, s, kind, content).edits = {}
  BY <1>2, <1>3, <1>4, <1>5 DEF DraftRow, NoDraft
<1>7. draft \in [Draft -> DraftRow] /\ ~Made(d)
  BY Types DEF IInv, NextDraft, Made
<1> QED
  BY <1>4, <1>6, <1>7 DEF DraftSteps, DraftStep

\* A save moves one draft and blanks the tab.
LEMMA SavedFacts ==
  ASSUME IInv, NEW t \in Tab, UpdateDraft(t) \/ UpdateAssessment(t)
  PROVE  DraftSteps /\ tab' \in [Tab -> TabRow] /\ \A u \in Tab : tab'[u] = tab[u] \/ tab'[u].draft = 0
<1> DEFINE d == tab[t].draft
<1>1. /\ draft \in [Draft -> DraftRow] /\ tab \in [Tab -> TabRow]
      /\ tab[t].draft \in 0..MaxDraft /\ tab[t].revision \in 0..MaxEdit
  BY Types DEF IInv, TabRow
<1>2. /\ d # 0 /\ draft[d].revision = tab[t].revision /\ tab[t].revision < MaxEdit /\ Saved(t)
  BY DEF UpdateDraft, UpdateAssessment
<1>3. d \in Draft
  BY <1>1, <1>2 DEF Draft
<1>4. Made(d) /\ tab[t].edits = draft[d].edits
  BY <1>2, <1>3 DEF IInv, TabsRead, Made
<1>5. /\ draft' = [draft EXCEPT ![d] = [draft[d] EXCEPT !.revision = @ + 1, !.edits = tab[t].edits \cup {t}]]
      /\ tab' = [tab EXCEPT ![t] = Blank]
  BY <1>2 DEF Saved
<1>6. DraftSteps
  <2>1. draft' = [i \in Draft |-> draft'[i]] /\ \A i \in Draft : i # d => draft'[i] = draft[i]
    BY <1>1, <1>3, <1>5
  <2>2. draft'[d] = [draft[d] EXCEPT !.revision = @ + 1, !.edits = tab[t].edits \cup {t}]
    BY <1>1, <1>3, <1>5
  <2>3. DraftStep(d)
    BY <1>2, <1>4, <2>2 DEF DraftStep
  <2> QED
    BY <2>1, <2>3 DEF DraftSteps, DraftStep
<1>7. Blank \in TabRow /\ Blank.draft = 0
  BY DEF Blank, TabRow
<1> QED
  BY <1>1, <1>5, <1>6, <1>7

IsVersionNext(target) == \E s \in Draft : \E n \in DOMAIN versions'[s] : target = <<s, n>>

\* The versions that are there stay, and a new one is in its draft's series.
VersionsStep ==
  /\ versions' \in [Draft -> Seq(VersionRow)]
  /\ \A s \in Draft : \A n \in DOMAIN versions[s] :
       n \in DOMAIN versions'[s] /\ versions'[s][n] = versions[s][n]
  /\ \A s \in Draft : \A n \in DOMAIN versions'[s] :
       \/ n \in DOMAIN versions[s]
       \/ \E d \in Draft : versions'[s][n].source[1] = d /\ Made(d) /\ draft[d].series = s

\* A publication is one step of PlanHistory, keeps the rows and binds a version
\* that is there.
LEMMA PublicationFacts ==
  ASSUME IInv, NEW d \in Draft, Made(d), Publication(d)
  PROVE  /\ DraftSteps /\ VersionsStep /\ IsVersionNext(binding') /\ binding' \in Shown
         /\ session' \in [Session -> SessionStatus]
         /\ History!Next
<1> DEFINE s == draft[d].series
           new == [source |-> SourceOf(d), content |-> <<draft[d].context, config>>]
<1>1. /\ draft \in [Draft -> DraftRow] /\ session \in [Session -> SessionStatus]
      /\ versions \in [Draft -> Seq(VersionRow)] /\ s \in Draft
      /\ draft[d].revision \in 0..MaxEdit /\ draft[d].context \in 0..MaxContext
      /\ config \in -1..MaxConfig
  BY Types DEF IInv, DraftRow, DraftsMade
<1>2. session' \in [Session -> SessionStatus]
  BY <1>1 DEF Publication, Close, SessionStatus
<1>3. CASE Existing(d) # {}
  <2>1. PICK n \in Existing(d) : binding' = <<s, n>>
    BY <1>3 DEF Publication
  <2>2. UNCHANGED <<versions, draft>>
    BY <1>3 DEF Publication
  <2>3. n \in DOMAIN versions[s] /\ n \in Nat
    BY <1>1 DEF Existing
  <2>4. DraftSteps
    BY <1>1, <2>2 DEF DraftSteps, DraftStep
  <2>5. History!Show(s)
    BY <2>1, <2>2, <2>3 DEF History!Show
  <2>6. IsVersionNext(binding') /\ binding' \in Shown
    BY <1>1, <2>1, <2>2, <2>3 DEF IsVersionNext, Shown
  <2>7. VersionsStep
    BY <1>1, <2>2 DEF VersionsStep
  <2> QED
    BY <1>1, <1>2, <2>4, <2>5, <2>6, <2>7 DEF History!Next
<1>4. CASE Existing(d) = {}
  <2>1. /\ versions' = [versions EXCEPT ![s] = Append(@, new)]
        /\ draft' = [draft EXCEPT ![d].published = draft[d].revision]
        /\ binding' = <<s, Len(versions[s]) + 1>>
    BY <1>4 DEF Publication
  <2>2. SourceOf(d) \in Sources /\ <<draft[d].context, config>> \in Contents
    BY <1>1 DEF SourceOf, Sources, Contents
  <2>3. new \in VersionRow
    BY <2>2 DEF VersionRow
  <2>4. versions[s] \in Seq(VersionRow)
    BY <1>1
  <2>5. /\ Append(versions[s], new) \in Seq(VersionRow)
        /\ Len(Append(versions[s], new)) = Len(versions[s]) + 1
        /\ Append(versions[s], new)[Len(versions[s]) + 1] = new
        /\ \A n \in DOMAIN versions[s] : Append(versions[s], new)[n] = versions[s][n]
        /\ DOMAIN Append(versions[s], new) = DOMAIN versions[s] \cup {Len(versions[s]) + 1}
    BY <2>3, <2>4, Appended
  <2>6. versions'[s] = Append(versions[s], new) /\ \A i \in Draft : i # s => versions'[i] = versions[i]
    BY <1>1, <2>1
  <2>7. versions' \in [Draft -> Seq(VersionRow)]
    BY <1>1, <2>1, <2>5
  <2>8. DraftSteps
    BY <1>1, <2>1 DEF DraftSteps, DraftStep
  <2>9. ~History!Published(SourceOf(d))
    <3>1. SUFFICES ASSUME NEW i \in Draft, NEW n \in DOMAIN versions[i],
                          versions[i][n].source = SourceOf(d)
                   PROVE  FALSE
      BY DEF History!Published
    <3>2. versions[i][n].source[1] = d
      BY <3>1 DEF SourceOf
    <3>3. i = s
      BY <3>2 DEF IInv, VersionsHaveDraft
    <3> QED
      BY <1>4, <3>1, <3>3 DEF Existing
  <2>10. History!Publish(s)
    <3>1. /\ Len(versions'[s]) = Len(versions[s]) + 1
          /\ versions'[s][Len(versions[s]) + 1] = new
      BY <2>5, <2>6
    <3>2. new.source = SourceOf(d) /\ new.content = <<draft[d].context, config>>
      OBVIOUS
    <3> QED
      BY <2>1, <2>2, <2>9, <3>1, <3>2 DEF History!Publish
  <2>11. Len(versions[s]) + 1 \in Nat
    BY <2>4
  <2>12. IsVersionNext(binding') /\ binding' \in Shown
    BY <1>1, <2>1, <2>5, <2>6, <2>11 DEF IsVersionNext, Shown
  <2>13. new.source[1] = d
    BY DEF SourceOf
  <2>14. VersionsStep
    <3>1. ASSUME NEW i \in Draft, NEW n \in DOMAIN versions[i]
          PROVE  n \in DOMAIN versions'[i] /\ versions'[i][n] = versions[i][n]
      BY <2>5, <2>6
    <3>2. ASSUME NEW i \in Draft, NEW n \in DOMAIN versions'[i], n \notin DOMAIN versions[i]
          PROVE  versions'[i][n].source[1] = d /\ draft[d].series = i
      <4>1. i = s
        BY <2>6, <3>2
      <4>2. n = Len(versions[s]) + 1
        BY <2>5, <2>6, <3>2, <4>1
      <4> QED
        BY <2>5, <2>6, <2>13, <4>1, <4>2
    <3> QED
      BY <2>7, <3>1, <3>2 DEF VersionsStep
  <2> QED
    BY <1>1, <1>2, <2>8, <2>10, <2>12, <2>14 DEF History!Next
<1> QED
  BY <1>3, <1>4

-----------------------------------------------------------------------------
(* The invariant *)

BindingStep == binding' \in Shown /\ (binding' = binding \/ IsVersionNext(binding'))

\* A tab keeps what it has read, forgets it, or reads.
TabsStep ==
  /\ tab' \in [Tab -> TabRow]
  /\ \A t \in Tab :
       \/ tab'[t] = tab[t] \/ tab'[t].draft = 0
       \/ /\ UNCHANGED draft /\ tab'[t].draft \in Draft /\ Made(tab'[t].draft)
          /\ tab'[t].revision = draft[tab'[t].draft].revision
          /\ tab'[t].edits = draft[tab'[t].draft].edits

RequestOK(row) ==
  /\ row.pc \in {"abandon", "sync", "write"} => IsVersionNext(row.target)
  /\ row.pc = "publish" => row.draft \in Draft /\ draft'[row.draft].kind # "none"

RequestsStep ==
  /\ request' \in [Request -> RequestRow]
  /\ \A r \in Request : request'[r] = request[r] \/ RequestOK(request'[r])

RestTyped ==
  /\ config' \in -1..MaxConfig /\ context' \in 0..MaxContext
  /\ session' \in [Session -> SessionStatus]
  /\ assignment' \in [Draft -> AssignmentRow]
  /\ scope' \in SUBSET Request /\ Cardinality(scope') <= 1

Steps == DraftSteps /\ VersionsStep /\ BindingStep /\ TabsStep /\ RequestsStep /\ RestTyped

\* These steps keep the invariant.
LEMMA StepsKeep ==
  ASSUME IInv, Steps
  PROVE  IInv'
<1>1. ASSUME NEW d \in Draft
      PROVE  /\ draft'[d] \in DraftRow
             /\ draft'[d].kind = "none" => draft'[d] = NoDraft
             /\ draft'[d].kind # "none" => draft'[d].series \in Draft
             /\ draft'[d].kind = "trusted" => draft'[d].session \in Session
             /\ Made(d) => /\ draft'[d].kind = draft[d].kind
                           /\ draft'[d].series = draft[d].series
                           /\ draft[d].revision <= draft'[d].revision
                           /\ draft'[d].revision = draft[d].revision => draft'[d].edits = draft[d].edits
  BY DraftFacts DEF IInv, Steps, DraftSteps
<1>2. draft' \in [Draft -> DraftRow]
  BY <1>1 DEF Steps, DraftSteps
<1>3. TypeOK'
  <2>1. TypeOK' <=>
          /\ config' \in -1..MaxConfig /\ context' \in 0..MaxContext
          /\ session' \in [Session -> SessionStatus]
          /\ draft' \in [Draft -> DraftRow]
          /\ versions' \in [Draft -> Seq(VersionRow)]
          /\ binding' \in Shown
          /\ assignment' \in [Draft -> AssignmentRow]
          /\ request' \in [Request -> RequestRow]
          /\ tab' \in [Tab -> TabRow]
          /\ scope' \in SUBSET Request /\ Cardinality(scope') <= 1
    BY DEF TypeOK, SessionStatus, DraftRow, VersionRow, AssignmentRow, RequestRow, TabRow
  <2> QED
    BY <1>2, <2>1 DEF Steps, RestTyped, VersionsStep, BindingStep, RequestsStep, TabsStep
<1>4. DraftsMade'
  BY <1>1 DEF DraftsMade, Made
<1>5. VersionsHaveDraft'
  <2> SUFFICES ASSUME NEW s \in Draft, NEW n \in DOMAIN versions'[s]
               PROVE  LET d == versions'[s][n].source[1]
                      IN  draft'[d].kind # "none" /\ draft'[d].series = s
    BY DEF VersionsHaveDraft, Made
  <2>1. versions'[s][n] \in VersionRow
    BY DEF Steps, VersionsStep
  <2>2. versions'[s][n].source[1] \in Draft
    BY <2>1 DEF VersionRow, Sources
  <2>3. Made(versions'[s][n].source[1]) /\ draft[versions'[s][n].source[1]].series = s
    BY DEF IInv, VersionsHaveDraft, Steps, VersionsStep
  <2> QED
    BY <1>1, <2>2, <2>3 DEF Made
<1>6. \A target : IsVersion(target) => IsVersionNext(target)
  BY DEF Steps, VersionsStep, IsVersion, IsVersionNext
<1>7. TargetsExist'
  <2>1. binding' # <<0, 0>> => IsVersionNext(binding')
    BY <1>6 DEF IInv, TargetsExist, Steps, BindingStep
  <2>2. ASSUME NEW r \in Request
        PROVE  RequestOK(request'[r])
    <3>1. CASE request'[r] = request[r]
      BY <1>1, <1>6, <3>1 DEF IInv, TargetsExist, RequestOK, Made
    <3> QED
      BY <3>1 DEF Steps, RequestsStep
  <2> QED
    BY <2>1, <2>2 DEF TargetsExist, RequestOK, IsVersion, IsVersionNext, Made
<1>8. TabsRead'
  <2> SUFFICES ASSUME NEW t \in Tab, tab'[t].draft # 0
               PROVE  LET d == draft'[tab'[t].draft]
                      IN  /\ d.kind # "none" /\ tab'[t].revision <= d.revision
                          /\ tab'[t].revision = d.revision => tab'[t].edits = d.edits
    BY DEF TabsRead
  <2>1. /\ tab'[t] \in TabRow /\ tab'[t].draft \in Draft /\ tab'[t].revision \in Nat
    BY DEF Steps, TabsStep, TabRow, Draft
  <2>2. draft[tab'[t].draft].revision \in Nat /\ draft'[tab'[t].draft].revision \in Nat
    <3>1. draft[tab'[t].draft] \in DraftRow /\ draft'[tab'[t].draft] \in DraftRow
      BY <1>2, <2>1, Types DEF IInv
    <3> QED
      BY <3>1 DEF DraftRow
  <2>3. CASE tab'[t] = tab[t]
    <3>1. /\ Made(tab'[t].draft) /\ tab'[t].revision <= draft[tab'[t].draft].revision
          /\ tab'[t].revision = draft[tab'[t].draft].revision
                => tab'[t].edits = draft[tab'[t].draft].edits
      BY <2>3 DEF IInv, TabsRead, Made
    <3> QED
      BY <1>1, <2>1, <2>2, <3>1 DEF Made
  <2>4. CASE tab'[t] # tab[t]
    BY <2>1, <2>2, <2>4 DEF Steps, TabsStep, Made
  <2> QED
    BY <2>3, <2>4
<1> QED
  BY <1>3, <1>4, <1>5, <1>7, <1>8 DEF IInv

\* What stays as it is makes its step.
LEMMA UnchangedSteps ==
  ASSUME IInv
  PROVE  /\ draft' = draft => DraftSteps
         /\ versions' = versions => VersionsStep
         /\ binding' = binding => BindingStep
         /\ tab' = tab => TabsStep
         /\ request' = request => RequestsStep
         /\ UNCHANGED settings /\ UNCHANGED session /\ UNCHANGED assignment /\ UNCHANGED scope
               => RestTyped
BY Types DEF IInv, DraftSteps, DraftStep, VersionsStep, BindingStep, TabsStep, RequestsStep,
             RestTyped, settings

\* What a request that moves on leaves in its row.
LEMMA GoFacts ==
  ASSUME IInv, NEW r \in Request, NEW row \in RequestRow, RequestOK(row), Go(r, row)
  PROVE  RequestsStep
BY Types DEF IInv, Go, RequestsStep

\* No request: settings, sessions, drafts, tabs and the student.
LEMMA TeacherSteps ==
  ASSUME IInv,
         \/ Ensure \/ UpdateConfig \/ UpsertContext
         \/ \E s \in Session : OpenSession(s) \/ AbandonSession(s)
         \/ \E d \in Draft, s \in Session : CreateTrustedDraft(d, s)
         \/ \E d \in Draft : CreateLegacyDraft(d) \/ Accept(d)
         \/ \E t \in Tab, d \in Draft : ReadDraft(t, d)
         \/ \E t \in Tab : UpdateDraft(t) \/ UpdateAssessment(t)
  PROVE  Steps /\ UNCHANGED plans
<1> USE UnchangedSteps DEF plans, settings
<1>0. /\ config \in -1..MaxConfig /\ context \in 0..MaxContext
      /\ session \in [Session -> SessionStatus] /\ assignment \in [Draft -> AssignmentRow]
      /\ scope \in SUBSET Request /\ Cardinality(scope) <= 1
      /\ draft \in [Draft -> DraftRow] /\ tab \in [Tab -> TabRow]
  BY Types DEF IInv
<1>1. CASE Ensure \/ UpdateConfig \/ UpsertContext
  <2>1. RestTyped
    BY <1>0, <1>1 DEF Ensure, UpdateConfig, UpsertContext, RestTyped
  <2> QED
    BY <1>1, <2>1 DEF Ensure, UpdateConfig, UpsertContext, Steps
<1>2. ASSUME NEW s \in Session, OpenSession(s) \/ AbandonSession(s)
      PROVE  Steps /\ UNCHANGED plans
  <2>1. RestTyped
    BY <1>0, <1>2 DEF OpenSession, AbandonSession, Opened, RestTyped, SessionStatus
  <2> QED
    BY <1>2, <2>1 DEF OpenSession, AbandonSession, Steps
<1>3. ASSUME NEW d \in Draft, NEW s \in Session, CreateTrustedDraft(d, s)
      PROVE  Steps /\ UNCHANGED plans
  <2>1. s \in 0..MaxDraft
    BY DEF Session
  <2>2. DraftSteps
    <3>1. /\ NextDraft(d) /\ draft' = [draft EXCEPT ![d] = NewDraft(d, s, "trusted", 0)]
          /\ 0 \in 0..MaxContext
      BY <1>3 DEF CreateTrustedDraft
    <3> QED
      BY <2>1, <3>1, NewDraftFacts
  <2> QED
    BY <1>3, <2>2 DEF CreateTrustedDraft, Steps
<1>4. ASSUME NEW d \in Draft, CreateLegacyDraft(d)
      PROVE  Steps /\ UNCHANGED plans
  <2>1. DraftSteps
    <3>1. /\ NextDraft(d) /\ draft' = [draft EXCEPT ![d] = NewDraft(d, 0, "legacy", 0)]
          /\ 0 \in 0..MaxContext /\ 0 \in 0..MaxDraft
      BY <1>4 DEF CreateLegacyDraft
    <3> QED
      BY <3>1, NewDraftFacts
  <2> QED
    BY <1>4, <2>1 DEF CreateLegacyDraft, Steps
<1>5. ASSUME NEW d \in Draft, Accept(d)
      PROVE  Steps /\ UNCHANGED plans
  <2>1. RestTyped
    BY <1>0, <1>5 DEF Accept, RestTyped, AssignmentRow
  <2> QED
    BY <1>5, <2>1 DEF Accept, Steps
<1>6. ASSUME NEW t \in Tab, NEW d \in Draft, ReadDraft(t, d)
      PROVE  Steps /\ UNCHANGED plans
  <2>1. d \in 0..MaxDraft /\ draft[d].revision \in 0..MaxEdit /\ draft[d].edits \in SUBSET Tab
    <3>1. draft[d] \in DraftRow /\ d \in 0..MaxDraft
      BY <1>0 DEF Draft
    <3> QED
      BY <3>1 DEF DraftRow
  <2>2. [draft |-> d, revision |-> draft[d].revision, edits |-> draft[d].edits] \in TabRow
    BY <2>1 DEF TabRow
  <2>3. TabsStep
    BY <1>0, <1>6, <2>2 DEF ReadDraft, TabsStep, Made
  <2> QED
    BY <1>6, <2>3 DEF ReadDraft, Steps
<1>7. ASSUME NEW t \in Tab, UpdateDraft(t) \/ UpdateAssessment(t)
      PROVE  Steps /\ UNCHANGED plans
  <2>1. DraftSteps /\ TabsStep
    BY <1>7, SavedFacts DEF TabsStep
  <2> QED
    BY <1>7, <2>1 DEF UpdateDraft, UpdateAssessment, Saved, Steps
<1> QED
  BY <1>1, <1>2, <1>3, <1>4, <1>5, <1>6, <1>7

\* Publishing a draft, from its page.
LEMMA PublishSteps ==
  ASSUME IInv, NEW d \in Draft, PublishDraft(d)
  PROVE  Steps /\ History!Next
<1>1. /\ DraftSteps /\ VersionsStep /\ BindingStep /\ session' \in [Session -> SessionStatus]
      /\ History!Next
  BY PublicationFacts DEF PublishDraft, Made, BindingStep
<1>2. RestTyped
  BY <1>1, Types DEF PublishDraft, IInv, RestTyped, settings
<1> QED
  BY <1>1, <1>2, UnchangedSteps DEF PublishDraft, Steps

\* publish_assessment, and the synchronisation of assignments.
LEMMA RequestSteps ==
  ASSUME IInv, NEW r \in Request, RequestStep(r)
  PROVE  Steps /\ (History!Next \/ UNCHANGED plans)
<1> USE UnchangedSteps DEF plans, settings
<1>0. /\ config \in -1..MaxConfig /\ context \in 0..MaxContext
      /\ session \in [Session -> SessionStatus] /\ assignment \in [Draft -> AssignmentRow]
      /\ scope \in SUBSET Request /\ Cardinality(scope) <= 1
      /\ request[r] \in RequestRow
      /\ request[r].context \in 0..MaxContext /\ request[r].session \in 0..MaxDraft
      /\ request[r].target \in Shown /\ binding \in Shown
      /\ \A s \in Draft : s \in 0..MaxDraft
  BY Types DEF IInv, RequestRow, Draft
<1>1. /\ Idle \in RequestRow
      /\ \A c \in 0..MaxContext : [Idle EXCEPT !.pc = "open", !.context = c] \in RequestRow
      /\ \A target \in Shown : [Idle EXCEPT !.pc = "sync", !.target = target] \in RequestRow
      /\ RequestOK(Idle)
  <2>1. Idle \in RequestRow
    BY DEF Idle, RequestRow, Shown
  <2>2. \A c \in 0..MaxContext : [Idle EXCEPT !.pc = "open", !.context = c] \in RequestRow
    BY <2>1 DEF RequestRow
  <2>3. \A target \in Shown : [Idle EXCEPT !.pc = "sync", !.target = target] \in RequestRow
    BY <2>1 DEF RequestRow
  <2>4. RequestOK(Idle)
    BY DEF Idle, RequestOK
  <2> QED
    BY <2>1, <2>2, <2>3, <2>4
<1>2. /\ UNCHANGED versions => \A target : IsVersion(target) => IsVersionNext(target)
      /\ UNCHANGED versions => \A s \in Draft : \A n \in DOMAIN versions[s] : IsVersionNext(<<s, n>>)
  BY DEF IsVersion, IsVersionNext
<1>3. ASSUME NEW pc \in {"open", "draft", "publish", "abandon", "sync", "write"}
      PROVE  Step(r, pc) \in RequestRow /\ Step(r, pc).pc = pc /\ Step(r, pc).target = request[r].target
             /\ Step(r, pc).draft = request[r].draft
  BY <1>0 DEF Step, RequestRow
<1>4. CASE ReadInputs(r)
  <2> DEFINE content == IF context = 0 THEN 1 ELSE context
  <2>1. content \in 0..MaxContext /\ context' = content
    BY <1>0, <1>4 DEF ReadInputs
  <2>2. RestTyped
    BY <1>0, <1>4, <2>1 DEF ReadInputs, RestTyped
  <2>3. CASE Matches(content)
    <3>1. Go(r, [Idle EXCEPT !.pc = "sync", !.target = binding])
      BY <1>4, <2>3 DEF ReadInputs
    <3>2. IsVersionNext(binding)
      BY <1>2, <1>4, <2>3 DEF ReadInputs, Matches, IInv, TargetsExist
    <3>3. RequestOK([Idle EXCEPT !.pc = "sync", !.target = binding])
      BY <3>2 DEF Idle, RequestOK
    <3>4. RequestsStep
      BY <1>0, <1>1, <3>1, <3>3, GoFacts
    <3> QED
      BY <1>4, <2>2, <3>4 DEF ReadInputs, Steps
  <2>4. CASE ~Matches(content)
    <3>1. Go(r, [Idle EXCEPT !.pc = "open", !.context = content])
      BY <1>4, <2>4 DEF ReadInputs
    <3>2. RequestOK([Idle EXCEPT !.pc = "open", !.context = content])
      BY DEF Idle, RequestOK
    <3>3. RequestsStep
      BY <1>1, <2>1, <3>1, <3>2, GoFacts
    <3> QED
      BY <1>4, <2>2, <3>3 DEF ReadInputs, Steps
  <2> QED
    BY <2>3, <2>4
<1>5. CASE OpenForRequest(r)
  <2>1. PICK s \in Session : /\ Go(r, [Step(r, "draft") EXCEPT !.session = s])
                             /\ UNCHANGED session \/ Opened(s)
    BY <1>5 DEF OpenForRequest, OpenSessions
  <2>2. s \in 0..MaxDraft
    BY DEF Session
  <2>3. /\ [Step(r, "draft") EXCEPT !.session = s] \in RequestRow
        /\ [Step(r, "draft") EXCEPT !.session = s].pc = "draft"
    BY <1>3, <2>2 DEF RequestRow
  <2>4. RequestOK([Step(r, "draft") EXCEPT !.session = s])
    BY <2>3 DEF RequestOK
  <2>5. RequestsStep
    BY <2>1, <2>3, <2>4, GoFacts
  <2>6. RestTyped
    BY <1>0, <1>5, <2>1 DEF OpenForRequest, Opened, RestTyped, SessionStatus
  <2> QED
    BY <1>5, <2>5, <2>6 DEF OpenForRequest, Steps
<1>6. CASE DraftForRequest(r)
  <2>1. CASE MayDraft(request[r].session)
    <3>1. PICK d \in Draft :
            /\ NextDraft(d)
            /\ draft' = [draft EXCEPT ![d] = NewDraft(d, request[r].session, "assessment", request[r].context)]
            /\ Go(r, [Step(r, "publish") EXCEPT !.draft = d])
      BY <1>6, <2>1 DEF DraftForRequest
    <3>2. DraftSteps /\ draft'[d].kind = "assessment"
      BY <1>0, <3>1, NewDraftFacts
    <3>3. /\ [Step(r, "publish") EXCEPT !.draft = d] \in RequestRow
          /\ [Step(r, "publish") EXCEPT !.draft = d].pc = "publish"
          /\ [Step(r, "publish") EXCEPT !.draft = d].draft = d
      BY <1>0, <1>3 DEF RequestRow
    <3>4. RequestOK([Step(r, "publish") EXCEPT !.draft = d])
      BY <3>2, <3>3 DEF RequestOK
    <3>5. RequestsStep
      BY <3>1, <3>3, <3>4, GoFacts
    <3> QED
      BY <1>6, <3>2, <3>5 DEF DraftForRequest, Steps
  <2>2. CASE ~MayDraft(request[r].session)
    <3>1. RequestsStep
      BY <1>1, <1>6, <2>2, GoFacts DEF DraftForRequest
    <3> QED
      BY <1>6, <2>2, <3>1 DEF DraftForRequest, Steps
  <2> QED
    BY <2>1, <2>2
<1>7. CASE PublishForRequest(r)
  <2>1. request[r].draft \in Draft /\ Made(request[r].draft)
    BY <1>7 DEF PublishForRequest, At, IInv, TargetsExist
  <2>2. /\ DraftSteps /\ VersionsStep /\ IsVersionNext(binding') /\ binding' \in Shown
        /\ session' \in [Session -> SessionStatus]
        /\ History!Next
    BY <1>7, <2>1, PublicationFacts DEF PublishForRequest
  <2>3. /\ [Step(r, "abandon") EXCEPT !.target = binding'] \in RequestRow
        /\ [Step(r, "abandon") EXCEPT !.target = binding'].pc = "abandon"
        /\ [Step(r, "abandon") EXCEPT !.target = binding'].target = binding'
    BY <1>3, <2>2 DEF RequestRow
  <2>4. RequestOK([Step(r, "abandon") EXCEPT !.target = binding'])
    BY <2>2, <2>3 DEF RequestOK
  <2>5. RequestsStep
    BY <1>7, <2>3, <2>4, GoFacts DEF PublishForRequest
  <2>6. RestTyped
    BY <1>0, <1>7, <2>2 DEF PublishForRequest, RestTyped
  <2> QED
    BY <1>7, <2>2, <2>5, <2>6 DEF PublishForRequest, Steps, BindingStep
<1>8. CASE AbandonForRequest(r)
  <2>1. IsVersionNext(request[r].target)
    BY <1>2, <1>8 DEF AbandonForRequest, At, IInv, TargetsExist
  <2>2. RequestsStep
    BY <1>3, <1>8, <2>1, GoFacts DEF AbandonForRequest, RequestOK
  <2>3. RestTyped
    BY <1>0, <1>8 DEF AbandonForRequest, RestTyped, SessionStatus
  <2> QED
    BY <1>8, <2>2, <2>3 DEF AbandonForRequest, Steps
<1>9. CASE RequestSync(r)
  <2>1. PICK s \in Draft : \E n \in DOMAIN versions[s] : Go(r, [Idle EXCEPT !.pc = "sync", !.target = <<s, n>>])
    BY <1>9 DEF RequestSync
  <2>2. PICK n \in DOMAIN versions[s] : Go(r, [Idle EXCEPT !.pc = "sync", !.target = <<s, n>>])
    BY <2>1
  <2>3. versions[s] \in Seq(VersionRow)
    BY Types DEF IInv
  <2>4. <<s, n>> \in Shown
    BY <2>3 DEF Shown
  <2>5. RequestOK([Idle EXCEPT !.pc = "sync", !.target = <<s, n>>])
    BY <1>2, <1>9 DEF RequestSync, Idle, RequestOK
  <2>6. RequestsStep
    BY <1>1, <2>2, <2>4, <2>5, GoFacts
  <2> QED
    BY <1>9, <2>6 DEF RequestSync, Steps
<1>10. CASE SyncRead(r)
  <2>1. scope' = {r}
    BY <1>10 DEF SyncRead, LockScope
  <2>2. RestTyped
    <3>1. Cardinality({r}) = 1
      BY FS_Singleton
    <3>2. scope' \in SUBSET Request /\ Cardinality(scope') <= 1
      BY <2>1, <3>1
    <3> QED
      BY <1>0, <1>10, <3>2 DEF SyncRead, RestTyped
  <2>3. PICK pending \in BOOLEAN : Go(r, [Step(r, "write") EXCEPT !.pending = pending])
    BY <1>10 DEF SyncRead
  <2>4. /\ [Step(r, "write") EXCEPT !.pending = pending] \in RequestRow
        /\ [Step(r, "write") EXCEPT !.pending = pending].pc = "write"
        /\ [Step(r, "write") EXCEPT !.pending = pending].target = request[r].target
    BY <1>3 DEF RequestRow
  <2>5. IsVersionNext(request[r].target)
    BY <1>2, <1>10 DEF SyncRead, At, IInv, TargetsExist
  <2>6. RequestsStep
    BY <2>3, <2>4, <2>5, GoFacts DEF RequestOK
  <2> QED
    BY <1>10, <2>2, <2>6 DEF SyncRead, Steps
<1>11. CASE SyncWrite(r) \/ SyncFails(r)
  <2>1. RequestsStep
    BY <1>1, <1>11, GoFacts DEF SyncWrite, SyncFails
  <2>2. scope' \in SUBSET Request /\ Cardinality(scope') <= 1
    BY <1>11, FS_EmptySet DEF SyncWrite, SyncFails
  <2>3. CASE SyncFails(r)
    BY <1>0, <2>1, <2>2, <2>3 DEF SyncFails, Steps, RestTyped
  <2>4. CASE SyncWrite(r)
    <3>1. PICK s \in Draft : \E n \in DOMAIN versions[s] : request[r].target = <<s, n>>
      BY <2>4 DEF SyncWrite, At, IInv, TargetsExist, IsVersion
    <3>2. PICK n \in DOMAIN versions[s] : request[r].target = <<s, n>>
      BY <3>1
    <3>3. binding' = <<s, n>> /\ UNCHANGED versions
      BY <2>4, <3>2 DEF SyncWrite
    <3>4. History!Show(s)
      BY <3>3 DEF History!Show
    <3>5. BindingStep
      BY <1>0, <1>2, <3>2, <3>3 DEF BindingStep
    <3>6. assignment' \in [Draft -> AssignmentRow]
      <4>1. n \in Nat /\ assignment[s].status \in {"none", "pending", "ready"}
        BY <1>0, Types DEF IInv, AssignmentRow
      <4>2. [status |-> IF assignment[s].status = "none" THEN "pending" ELSE assignment[s].status,
             version |-> n] \in AssignmentRow
        BY <4>1 DEF AssignmentRow
      <4> QED
        BY <1>0, <2>4, <3>2, <4>2 DEF SyncWrite
    <3> QED
      BY <1>0, <2>1, <2>2, <2>4, <3>4, <3>5, <3>6 DEF SyncWrite, Steps, RestTyped, History!Next
  <2> QED
    BY <1>11, <2>3, <2>4
<1> QED
  BY <1>4, <1>5, <1>6, <1>7, <1>8, <1>9, <1>10, <1>11 DEF RequestStep

\* Types, drafts, versions, targets and tabs hold in every reachable state.
THEOREM Invariant == Spec => []IInv
<1>1. Init => IInv
  <2> SUFFICES ASSUME Init PROVE IInv
    OBVIOUS
  <2>1. /\ NoDraft \in DraftRow /\ NoAssignment \in AssignmentRow
        /\ Idle \in RequestRow /\ Blank \in TabRow
    BY DEF NoDraft, NoAssignment, Idle, Blank, DraftRow, AssignmentRow, RequestRow, TabRow, Shown
  <2>2. TypeOK
    BY <2>1, Types, FS_EmptySet DEF Init, SessionStatus, Shown
  <2> QED
    BY <2>2 DEF Init, NoDraft, Idle, Blank, IInv, DraftsMade, Made, VersionsHaveDraft,
                TargetsExist, TabsRead
<1>2. IInv /\ [Next]_vars => IInv'
  <2> SUFFICES ASSUME IInv, [Next]_vars PROVE Steps
    BY StepsKeep
  <2>1. CASE UNCHANGED vars
    BY <2>1, UnchangedSteps DEF vars, settings, plans, Steps
  <2>2. CASE Next
    BY <2>2, TeacherSteps, PublishSteps, RequestSteps DEF Next
  <2> QED
    BY <2>1, <2>2
<1> QED
  BY <1>1, <1>2, PTL DEF Spec

-----------------------------------------------------------------------------
(* Theorems *)

\* Every row, request and tab keeps its type, and the scope has one holder.
THEOREM TypeCorrect == Spec => []TypeOK
<1>1. IInv => TypeOK
  BY DEF IInv
<1> QED
  BY Invariant, <1>1, PTL

\* One step of the system makes these steps of its parts.
LEMMA NextSteps ==
  ASSUME IInv, [Next]_vars
  PROVE  Steps /\ (History!Next \/ UNCHANGED plans)
<1>1. CASE UNCHANGED vars
  BY <1>1, UnchangedSteps DEF vars, settings, plans, Steps
<1>2. CASE Next
  BY <1>2, TeacherSteps, PublishSteps, RequestSteps DEF Next
<1> QED
  BY <1>1, <1>2

\* Whoever publishes what at the same time, versions are numbered without gaps
\* and kept, a state of a draft becomes one version, and the experiment is bound
\* to a version that exists.
THEOREM ImplementsPlanHistory == Spec => HistoryIsKept
<1>1. Init => History!Init
  BY DEF Init, History!Init
<1>2. IInv /\ [Next]_vars => [History!Next]_<<versions, binding>>
  BY NextSteps DEF plans
<1> QED
  BY Invariant, <1>1, <1>2, PTL DEF Spec, HistoryIsKept, History!Spec

\* No save of a draft or of its assessment, from whichever tab, loses an edit
\* that another tab has saved.
THEOREM NoEditIsLost == Spec => EditsAreKept
<1>1. IInv /\ [Next]_vars => \A d \in Draft : draft[d].edits \subseteq draft'[d].edits
  <2> SUFFICES ASSUME IInv, [Next]_vars, NEW d \in Draft
               PROVE  draft[d].edits \subseteq draft'[d].edits
    OBVIOUS
  <2>1. DraftStep(d)
    BY NextSteps DEF Steps, DraftSteps
  <2> QED
    BY <2>1, DraftFacts DEF IInv
<1> QED
  BY Invariant, <1>1, PTL DEF Spec, EditsAreKept

-----------------------------------------------------------------------------
(* The authoring sessions and their suggestions *)

USE AuthoringBounds, NoneAssumption

JobStatus == {"none", "pending", "leased", "ready", "failed"}
SessionRow == [status : {"none", "open", "published", "abandoned"}, job : 0..MaxJob]
JobRow == [status : JobStatus, session : 0..MaxSession, input : Input \cup {None},
           source : BOOLEAN, slot : BOOLEAN, due : BOOLEAN,
           owner : Worker \cup {None}, lease : {"none", "held", "ended"},
           attempts : 0..MaxAttempts]
WorkerRow == [pc : {"loop", "read", "generate", "lost"}, job : 0..MaxJob]

\* An id that is still free is linked to nothing.
FreeIsUnlinked ==
  /\ \A s \in AuthoringSession : authoring[s].status = "none" => authoring[s].job = 0
  /\ \A j \in Job : job[j].status = "none" => job[j].session = 0

\* A worker that is not at the top of its loop has a job in hand.
WorkersHold == \A w \in Worker : worker[w].pc # "loop" => worker[w].job \in Job

\* The unique open slot.
OneOpen ==
  \A r, s \in AuthoringSession : authoring[r].status = "open" /\ authoring[s].status = "open" => r = s

\* The invariant behind every theorem below.
AuthoringIInv ==
  /\ AuthoringTypeOK /\ LinksAgree /\ SourceKeptWhileNeeded
  /\ FreeIsUnlinked /\ WorkersHold /\ OneOpen

-----------------------------------------------------------------------------
(* What an action does to one job *)

\* How one row may change while every other action's part stays: nothing, it
\* ends, it is leased, it waits for its retry, or time passes for it.
RowStep(j) ==
  \/ job'[j] = job[j]
  \/ Unfinished(j) /\ job'[j] \in {Ended(job[j], "ready"), Ended(job[j], "failed")}
  \/ /\ Unfinished(j) /\ job[j].attempts < MaxAttempts
     /\ \E w \in Worker : job'[j] = Leased(job[j], w)
  \/ Unfinished(j) /\ job'[j] = Delayed(job[j])
  \/ job'[j] = [job[j] EXCEPT !.lease = "ended"]
  \/ Unfinished(j) /\ job'[j] = [job[j] EXCEPT !.due = TRUE]

\* Every row does one of these things, and the function stays one.
JobSteps == job' = [j \in Job |-> job'[j]] /\ \A j \in Job : RowStep(j)

\* A row that steps keeps its type, its link and its input, and has its source
\* and slot exactly while it is unfinished; it never leaves "none", "ready" or
\* "failed", nor comes back to "none".
LEMMA RowFacts ==
  ASSUME AuthoringTypeOK, SourceKeptWhileNeeded, NEW j \in Job, RowStep(j)
  PROVE  /\ job'[j] \in JobRow
         /\ job'[j].session = job[j].session
         /\ job'[j].source <=> job'[j].status \in {"pending", "leased"}
         /\ job'[j].slot <=> job'[j].status \in {"pending", "leased"}
         /\ \/ job'[j].status = job[j].status
            \/ Unfinished(j) /\ job'[j].status \in {"pending", "leased", "ready", "failed"}
<1>1. job[j] \in JobRow /\ job[j].attempts \in 0..MaxAttempts
  BY DEF AuthoringTypeOK, JobRow, JobStatus
<1>2. /\ job[j].source <=> job[j].status \in {"pending", "leased"}
      /\ job[j].slot <=> job[j].status \in {"pending", "leased"}
  BY DEF SourceKeptWhileNeeded, Unfinished
<1>3. CASE job'[j] = job[j]
  BY <1>1, <1>2, <1>3
<1>4. CASE Unfinished(j) /\ job'[j] \in {Ended(job[j], "ready"), Ended(job[j], "failed")}
  <2>1. ASSUME NEW status \in {"ready", "failed"}
        PROVE  /\ Ended(job[j], status) \in JobRow
               /\ Ended(job[j], status).session = job[j].session
               /\ ~Ended(job[j], status).source /\ ~Ended(job[j], status).slot
               /\ Ended(job[j], status).status = status
    BY <1>1 DEF Ended, JobRow, JobStatus
  <2> QED
    BY <1>4, <2>1
<1>5. CASE /\ Unfinished(j) /\ job[j].attempts < MaxAttempts
           /\ \E w \in Worker : job'[j] = Leased(job[j], w)
  <2>1. PICK w \in Worker : job'[j] = Leased(job[j], w)
    BY <1>5
  <2>2. job[j].attempts + 1 \in 0..MaxAttempts
    BY <1>1, <1>5
  <2>3. Leased(job[j], w) \in JobRow
    BY <1>1, <2>2 DEF Leased, JobRow, JobStatus
  <2>4. /\ Leased(job[j], w).session = job[j].session
        /\ Leased(job[j], w).source = job[j].source /\ Leased(job[j], w).slot = job[j].slot
        /\ Leased(job[j], w).status = "leased"
    BY <1>1 DEF Leased, JobRow
  <2> QED
    BY <1>2, <1>5, <2>1, <2>3, <2>4 DEF Unfinished
<1>6. CASE Unfinished(j) /\ job'[j] = Delayed(job[j])
  <2>1. Delayed(job[j]) \in JobRow
    BY <1>1 DEF Delayed, JobRow, JobStatus
  <2>2. /\ Delayed(job[j]).session = job[j].session
        /\ Delayed(job[j]).source = job[j].source /\ Delayed(job[j]).slot = job[j].slot
        /\ Delayed(job[j]).status = "pending"
    BY <1>1 DEF Delayed, JobRow
  <2> QED
    BY <1>2, <1>6, <2>1, <2>2 DEF Unfinished
<1>7. CASE job'[j] = [job[j] EXCEPT !.lease = "ended"]
  BY <1>1, <1>2, <1>7 DEF JobRow, JobStatus
<1>8. CASE Unfinished(j) /\ job'[j] = [job[j] EXCEPT !.due = TRUE]
  BY <1>1, <1>2, <1>8 DEF JobRow, JobStatus
<1> QED
  BY <1>3, <1>4, <1>5, <1>6, <1>7, <1>8 DEF RowStep

\* The workers and time move jobs by row steps, leave the sessions alone and
\* keep their own types.
LEMMA WorkSteps ==
  ASSUME AuthoringIInv, Time \/ \E w \in Worker : RunDueJobs(w) \/ WorkerDies(w)
  PROVE  /\ JobSteps /\ UNCHANGED authoring
         /\ worker' \in [Worker -> WorkerRow] /\ WorkersHold'
<1>0. /\ job = [j \in Job |-> job[j]] /\ worker \in [Worker -> WorkerRow]
      /\ \A w \in Worker : worker[w] \in WorkerRow
      /\ \A j \in Job : job[j].attempts \in 0..MaxAttempts
  BY DEF AuthoringIInv, AuthoringTypeOK, WorkerRow
<1>1. CASE Time
  <2>1. PICK j \in Job : LeaseEnds(j) \/ DelayEnds(j)
    BY <1>1 DEF Time
  <2>2. JobSteps
    BY <1>0, <2>1 DEF LeaseEnds, DelayEnds, JobSteps, RowStep
  <2> QED
    BY <1>0, <2>1, <2>2 DEF LeaseEnds, DelayEnds, AuthoringIInv, WorkersHold
<1>2. ASSUME NEW w \in Worker, ClaimDueJobs(w)
      PROVE  /\ JobSteps /\ UNCHANGED authoring
             /\ worker' \in [Worker -> WorkerRow] /\ WorkersHold'
  <2>1. \A j \in Job : j \in Exhausted => Unfinished(j)
    BY DEF Exhausted, Available
  <2>2. CASE Claimable = {}
    BY <1>0, <1>2, <2>1, <2>2 DEF ClaimDueJobs, Swept, JobSteps, RowStep, AuthoringIInv, WorkersHold
  <2>3. CASE Claimable # {}
    <3>1. PICK j \in Claimable : /\ job' = [Swept EXCEPT ![j] = Leased(job[j], w)]
                                 /\ worker' = [worker EXCEPT ![w] = [pc |-> "read", job |-> j]]
      BY <1>2, <2>3 DEF ClaimDueJobs
    <3>2. j \in Job /\ Unfinished(j) /\ job[j].attempts < MaxAttempts
      BY <3>1 DEF Claimable, Available
    <3>3. /\ job' = [i \in Job |-> job'[i]]
          /\ \A i \in Job : job'[i] = IF i = j THEN Leased(job[j], w)
                                      ELSE IF i \in Exhausted THEN Ended(job[i], "failed")
                                      ELSE job[i]
      BY <3>1, <3>2 DEF Swept
    <3>4. JobSteps
      BY <2>1, <3>2, <3>3 DEF JobSteps, RowStep
    <3>5. [pc |-> "read", job |-> j] \in WorkerRow
      BY <3>2 DEF WorkerRow, Job
    <3> QED
      BY <1>0, <1>2, <3>1, <3>2, <3>4, <3>5 DEF ClaimDueJobs, AuthoringIInv, WorkersHold
  <2> QED
    BY <2>2, <2>3
<1>3. ASSUME NEW w \in Worker, ReadSource(w)
      PROVE  /\ JobSteps /\ UNCHANGED authoring
             /\ worker' \in [Worker -> WorkerRow] /\ WorkersHold'
  <2>1. JobSteps /\ UNCHANGED authoring
    BY <1>0, <1>3 DEF ReadSource, JobSteps, RowStep
  <2>2. worker[w].job \in Job
    BY <1>3 DEF AuthoringIInv, WorkersHold, ReadSource
  <2> QED
    BY <1>0, <1>3, <2>1, <2>2 DEF ReadSource, WorkerRow, AuthoringIInv, WorkersHold
<1>4. ASSUME NEW w \in Worker, Finish(w)
      PROVE  UNCHANGED authoring /\ worker' \in [Worker -> WorkerRow] /\ WorkersHold'
  <2>1. AtRest \in WorkerRow /\ AtRest.pc = "loop"
    BY DEF AtRest, WorkerRow
  <2> QED
    BY <1>0, <1>4, <2>1 DEF Finish, AuthoringIInv, WorkersHold
<1>5. ASSUME NEW w \in Worker, Complete(w) \/ RecordFailure(w)
      PROVE  JobSteps
  <2> DEFINE j == worker[w].job
  <2>1. worker[w].pc # "loop"
    BY <1>5 DEF Complete, RecordFailure, Outcomes, ProviderOutcome
  <2>2. j \in Job
    BY <2>1 DEF AuthoringIInv, WorkersHold
  <2>3. Holds(w) => Unfinished(j)
    BY DEF Holds, Unfinished
  <2>4. \/ job' = job
        \/ /\ Holds(w)
           /\ \E row \in {Ended(job[j], "ready"), Ended(job[j], "failed"), Delayed(job[j])} :
                job' = [job EXCEPT ![j] = row]
    BY <1>5 DEF Complete, RecordFailure
  <2> QED
    BY <1>0, <2>2, <2>3, <2>4 DEF JobSteps, RowStep
<1>6. ASSUME NEW w \in Worker, WorkerDies(w)
      PROVE  JobSteps
  BY <1>0, <1>6 DEF WorkerDies, JobSteps, RowStep
<1>7. ASSUME NEW w \in Worker, Complete(w) \/ RecordFailure(w) \/ WorkerDies(w)
      PROVE  Finish(w)
  BY <1>7 DEF Complete, RecordFailure, WorkerDies
<1> QED
  BY <1>1, <1>2, <1>3, <1>4, <1>5, <1>6, <1>7 DEF RunDueJobs

-----------------------------------------------------------------------------
(* The invariant *)

\* What work leaves true of the rows.
LEMMA WorkKeeps ==
  ASSUME AuthoringIInv, JobSteps, UNCHANGED authoring,
         worker' \in [Worker -> WorkerRow], WorkersHold'
  PROVE  AuthoringIInv'
<1>1. ASSUME NEW j \in Job
      PROVE  /\ job'[j] \in JobRow
             /\ job'[j].session = job[j].session
             /\ job'[j].source <=> job'[j].status \in {"pending", "leased"}
             /\ job'[j].slot <=> job'[j].status \in {"pending", "leased"}
             /\ job'[j].status = "none" => job[j].status = "none"
  BY RowFacts DEF AuthoringIInv, JobSteps
<1>2. AuthoringTypeOK'
  BY <1>1 DEF AuthoringIInv, AuthoringTypeOK, JobSteps, JobRow, JobStatus, WorkerRow
<1>3. SourceKeptWhileNeeded'
  BY <1>1 DEF SourceKeptWhileNeeded, Unfinished
<1>4. LinksAgree'
  <2>1. \A s \in AuthoringSession : authoring[s].job # 0 => authoring[s].job \in Job
    BY DEF AuthoringIInv, AuthoringTypeOK, Job
  <2> QED
    BY <1>1, <2>1 DEF AuthoringIInv, LinksAgree
<1>5. FreeIsUnlinked' /\ OneOpen'
  BY <1>1 DEF AuthoringIInv, FreeIsUnlinked, OneOpen
<1> QED
  BY <1>2, <1>3, <1>4, <1>5 DEF AuthoringIInv

\* Links that go to a session and to a job at once keep the invariant.
LEMMA LinkFacts ==
  ASSUME AuthoringIInv, NEW s \in AuthoringSession, NEW j \in Job, Link(s, j),
         authoring[s].status = "open", authoring[s].job = 0, job[j].session = 0
  PROVE  /\ authoring' \in [AuthoringSession -> SessionRow]
         /\ authoring'[s].job = j /\ authoring'[s].status = "open"
         /\ \A r \in AuthoringSession : r # s => authoring'[r] = authoring[r]
         /\ \A r \in AuthoringSession : authoring[r].job # j
         /\ \A i \in Job : job[i].session # s
<1>1. /\ authoring \in [AuthoringSession -> SessionRow]
      /\ \A i \in Job : job[i].session \in 0..MaxSession
  BY DEF AuthoringIInv, AuthoringTypeOK, SessionRow
<1>2. [authoring[s] EXCEPT !.job = j] \in SessionRow
  BY <1>1 DEF SessionRow, Job
<1>3. /\ authoring' \in [AuthoringSession -> SessionRow]
      /\ authoring'[s] = [authoring[s] EXCEPT !.job = j]
      /\ \A r \in AuthoringSession : r # s => authoring'[r] = authoring[r]
  BY <1>1, <1>2 DEF Link
<1>4. [authoring[s] EXCEPT !.job = j].job = j /\ [authoring[s] EXCEPT !.job = j].status = "open"
  BY <1>1 DEF SessionRow
<1>5. \A r \in AuthoringSession : r # 0
  BY DEF AuthoringSession
<1>6. \A i \in Job : i # 0
  BY DEF Job
<1>7. \A r \in AuthoringSession : authoring[r].job # j
  BY <1>5, <1>6 DEF AuthoringIInv, LinksAgree
<1>8. \A i \in Job : job[i].session # s
  BY <1>5, <1>6 DEF AuthoringIInv, LinksAgree
<1> QED
  BY <1>3, <1>4, <1>7, <1>8

\* A new job is waiting, has its source and belongs to who asked.
LEMMA NewJobFacts ==
  ASSUME NEW s \in 0..MaxSession, NEW input \in Input
  PROVE  /\ NewJob(s, input) \in JobRow
         /\ NewJob(s, input).status = "pending" /\ NewJob(s, input).session = s
         /\ NewJob(s, input).source /\ NewJob(s, input).slot
<1>0. NoJob \in JobRow
  BY DEF NoJob, JobRow, JobStatus
<1>1. NewJob(s, input) \in JobRow
  BY <1>0 DEF NewJob, JobRow, JobStatus
<1>2. /\ NewJob(s, input).status = "pending" /\ NewJob(s, input).session = s
      /\ NewJob(s, input).source = TRUE /\ NewJob(s, input).slot = TRUE
  BY DEF NewJob, NoJob
<1> QED
  BY <1>1, <1>2

\* What the teacher may do to the sessions and to at most one job: open, link,
\* or close a session.
LEMMA TeacherKeeps ==
  ASSUME AuthoringIInv, Teacher
  PROVE  AuthoringIInv'
<1>0. /\ authoring \in [AuthoringSession -> SessionRow] /\ job \in [Job -> JobRow]
      /\ worker \in [Worker -> WorkerRow]
      /\ \A s \in AuthoringSession : s \in 0..MaxSession /\ s # 0
      /\ \A j \in Job : j \in 0..MaxJob /\ j # 0
      /\ \A s \in AuthoringSession : authoring[s].job # 0 => authoring[s].job \in Job
      /\ \A j \in Job : job[j].session # 0 => job[j].session \in AuthoringSession
  BY DEF AuthoringIInv, AuthoringTypeOK, SessionRow, JobRow, JobStatus, WorkerRow, AuthoringSession, Job
<1>a. AuthoringTypeOK' <=> /\ authoring' \in [AuthoringSession -> SessionRow] /\ job' \in [Job -> JobRow]
                  /\ worker' \in [Worker -> WorkerRow]
  BY DEF AuthoringTypeOK, SessionRow, JobRow, JobStatus, WorkerRow
<1>b. UNCHANGED worker /\ WorkersHold'
  BY DEF Teacher, CreateOrReturnOpen, Abandon, Publish, RequestSuggestion, SubmitLegacy,
         AuthoringIInv, WorkersHold
<1>1. ASSUME NEW s \in AuthoringSession, CreateOrReturnOpen(s)
      PROVE  AuthoringIInv'
  <2>1. /\ authoring' \in [AuthoringSession -> SessionRow] /\ UNCHANGED job
        /\ authoring'[s].status = "open" /\ authoring'[s].job = authoring[s].job
        /\ \A r \in AuthoringSession : r # s => authoring'[r] = authoring[r]
    BY <1>0, <1>1 DEF CreateOrReturnOpen, SessionRow
  <2>2. LinksAgree'
    BY <1>0, <2>1 DEF AuthoringIInv, LinksAgree, JobRow
  <2>3. FreeIsUnlinked' /\ OneOpen'
    BY <1>1, <2>1 DEF CreateOrReturnOpen, AuthoringIInv, FreeIsUnlinked, OneOpen
  <2> QED
    BY <1>0, <1>a, <1>b, <2>1, <2>2, <2>3 DEF AuthoringIInv, SourceKeptWhileNeeded, Unfinished
<1>2. ASSUME NEW s \in AuthoringSession, NEW status \in {"abandoned", "published"},
             authoring[s].status = "open",
             authoring' = [authoring EXCEPT ![s].status = status], JobSteps
      PROVE  AuthoringIInv'
  <2>1. /\ authoring' \in [AuthoringSession -> SessionRow]
        /\ authoring'[s].status = status /\ authoring'[s].job = authoring[s].job
        /\ \A r \in AuthoringSession : r # s => authoring'[r] = authoring[r]
    BY <1>0, <1>2 DEF SessionRow
  <2>2. ASSUME NEW j \in Job
        PROVE  /\ job'[j] \in JobRow /\ job'[j].session = job[j].session
               /\ job'[j].source <=> job'[j].status \in {"pending", "leased"}
               /\ job'[j].slot <=> job'[j].status \in {"pending", "leased"}
               /\ job'[j].status = "none" => job[j].status = "none"
    BY <1>2, RowFacts DEF AuthoringIInv, JobSteps
  <2>3. job' \in [Job -> JobRow]
    BY <1>2, <2>2 DEF JobSteps
  <2>4. LinksAgree'
    <3>1. \A r \in AuthoringSession : authoring'[r].job = authoring[r].job
      BY <2>1
    <3>2. ASSUME NEW r \in AuthoringSession, authoring'[r].job # 0
          PROVE  job'[authoring'[r].job].session = r
      <4>1. authoring[r].job \in Job /\ job[authoring[r].job].session = r
        BY <1>0, <3>1, <3>2 DEF AuthoringIInv, LinksAgree
      <4> QED
        BY <2>2, <3>1, <4>1
    <3>3. ASSUME NEW j \in Job, job'[j].session # 0
          PROVE  authoring'[job'[j].session].job = j
      <4>1. job[j].session \in AuthoringSession /\ authoring[job[j].session].job = j
        BY <1>0, <2>2, <3>3 DEF AuthoringIInv, LinksAgree
      <4> QED
        BY <2>2, <3>1, <4>1
    <3> QED
      BY <3>2, <3>3 DEF LinksAgree
  <2>5. FreeIsUnlinked' /\ OneOpen' /\ SourceKeptWhileNeeded'
    BY <2>1, <2>2 DEF AuthoringIInv, FreeIsUnlinked, OneOpen, SourceKeptWhileNeeded, Unfinished
  <2> QED
    BY <1>0, <1>a, <1>b, <2>1, <2>3, <2>4, <2>5 DEF AuthoringIInv
<1>3. ASSUME NEW s \in AuthoringSession, Abandon(s)
      PROVE  AuthoringIInv'
  <2>1. JobSteps
    BY <1>0, <1>3 DEF Abandon, CancelJob, JobSteps, RowStep
  <2> QED
    BY <1>2, <1>3, <2>1 DEF Abandon
<1>4. ASSUME NEW s \in AuthoringSession, Publish(s)
      PROVE  AuthoringIInv'
  <2>1. JobSteps
    BY <1>0, <1>4 DEF Publish, JobSteps, RowStep
  <2> QED
    BY <1>2, <1>4, <2>1 DEF Publish
<1>5. ASSUME NEW s \in AuthoringSession, NEW input \in Input, RequestSuggestion(s, input)
      PROVE  AuthoringIInv'
  <2>1. authoring[s].status = "open" /\ authoring[s].job = 0
    BY <1>5 DEF RequestSuggestion
  <2>2. PICK j \in Job : /\ Link(s, j) /\ job[j].session = 0
                         /\ \/ /\ Unfinished(j)
                               /\ job' = [job EXCEPT ![j].session = s]
                            \/ job' = [job EXCEPT ![j] = NewJob(s, input)]
    BY <1>5 DEF RequestSuggestion, ActiveRequest, AdoptLegacyJob, NextJob, AuthoringIInv, FreeIsUnlinked
  <2>3. /\ authoring' \in [AuthoringSession -> SessionRow]
        /\ authoring'[s].job = j /\ authoring'[s].status = "open"
        /\ \A r \in AuthoringSession : r # s => authoring'[r] = authoring[r]
        /\ \A r \in AuthoringSession : authoring[r].job # j
        /\ \A i \in Job : job[i].session # s
    BY <2>1, <2>2, LinkFacts
  <2>4. /\ job' \in [Job -> JobRow] /\ job'[j].session = s
        /\ \A i \in Job : i # j => job'[i] = job[i]
        /\ job'[j].status \in {"pending", "leased"} /\ job'[j].source /\ job'[j].slot
    <3>1. CASE Unfinished(j) /\ job' = [job EXCEPT ![j].session = s]
      <4>1. [job[j] EXCEPT !.session = s] \in JobRow
        BY <1>0 DEF JobRow
      <4>2. /\ [job[j] EXCEPT !.session = s].session = s
            /\ [job[j] EXCEPT !.session = s].status = job[j].status
            /\ [job[j] EXCEPT !.session = s].source = job[j].source
            /\ [job[j] EXCEPT !.session = s].slot = job[j].slot
        BY <1>0 DEF JobRow
      <4>3. job[j].source /\ job[j].slot /\ job[j].status \in {"pending", "leased"}
        BY <3>1 DEF AuthoringIInv, SourceKeptWhileNeeded, Unfinished
      <4> QED
        BY <1>0, <3>1, <4>1, <4>2, <4>3
    <3>2. CASE job' = [job EXCEPT ![j] = NewJob(s, input)]
      BY <1>0, <3>2, NewJobFacts
    <3> QED
      BY <2>2, <3>1, <3>2
  <2>5. LinksAgree'
    BY <1>0, <2>3, <2>4 DEF AuthoringIInv, LinksAgree
  <2>6. FreeIsUnlinked' /\ OneOpen' /\ SourceKeptWhileNeeded'
    BY <2>1, <2>3, <2>4 DEF AuthoringIInv, FreeIsUnlinked, OneOpen, SourceKeptWhileNeeded, Unfinished
  <2> QED
    BY <1>0, <1>a, <1>b, <2>3, <2>4, <2>5, <2>6 DEF AuthoringIInv
<1>6. ASSUME NEW input \in LegacyInput, SubmitLegacy(input)
      PROVE  AuthoringIInv'
  <2>1. PICK j \in Job : NextJob(j) /\ job' = [job EXCEPT ![j] = NewJob(0, input)]
    BY <1>6 DEF SubmitLegacy
  <2>2. input \in Input /\ 0 \in 0..MaxSession
    BY <1>6
  <2>3. /\ job' \in [Job -> JobRow] /\ job'[j].session = 0 /\ job[j].session = 0
        /\ \A i \in Job : i # j => job'[i] = job[i]
        /\ job'[j].status = "pending" /\ job'[j].source /\ job'[j].slot
    BY <1>0, <2>1, <2>2, NewJobFacts DEF NextJob, AuthoringIInv, FreeIsUnlinked
  <2>4. UNCHANGED authoring
    BY <1>6 DEF SubmitLegacy
  <2>5. LinksAgree'
    BY <1>0, <2>3, <2>4 DEF AuthoringIInv, LinksAgree
  <2>6. FreeIsUnlinked' /\ OneOpen' /\ SourceKeptWhileNeeded'
    BY <2>3, <2>4 DEF AuthoringIInv, FreeIsUnlinked, OneOpen, SourceKeptWhileNeeded, Unfinished
  <2> QED
    BY <1>0, <1>a, <1>b, <2>3, <2>4, <2>5, <2>6 DEF AuthoringIInv
<1> QED
  BY <1>1, <1>3, <1>4, <1>5, <1>6 DEF Teacher

\* Types, links, sources and the open slot hold in every reachable state.
THEOREM AuthoringInvariant == AuthoringSpec => []AuthoringIInv
<1>1. AuthoringInit => AuthoringIInv
  <2> SUFFICES ASSUME AuthoringInit PROVE AuthoringIInv
    OBVIOUS
  <2>1. NoSession \in SessionRow /\ NoJob \in JobRow /\ AtRest \in WorkerRow
    BY DEF NoSession, NoJob, AtRest, SessionRow, JobRow, JobStatus, WorkerRow
  <2>2. AuthoringTypeOK
    BY <2>1 DEF AuthoringInit, AuthoringTypeOK, SessionRow, JobRow, JobStatus, WorkerRow
  <2> QED
    BY <2>2 DEF AuthoringInit, NoSession, NoJob, AtRest, AuthoringIInv, LinksAgree, SourceKeptWhileNeeded,
                FreeIsUnlinked, WorkersHold, OneOpen, Unfinished
<1>2. AuthoringIInv /\ [AuthoringNext]_authoringVars => AuthoringIInv'
  <2> SUFFICES ASSUME AuthoringIInv, [AuthoringNext]_authoringVars PROVE AuthoringIInv'
    OBVIOUS
  <2>1. CASE UNCHANGED authoringVars
    BY <2>1 DEF authoringVars, AuthoringIInv, AuthoringTypeOK, LinksAgree, SourceKeptWhileNeeded, FreeIsUnlinked,
                WorkersHold, OneOpen, Unfinished
  <2>2. CASE Teacher
    BY <2>2, TeacherKeeps
  <2>3. CASE Time \/ \E w \in Worker : RunDueJobs(w) \/ WorkerDies(w)
    BY <2>3, WorkSteps, WorkKeeps
  <2> QED
    BY <2>1, <2>2, <2>3 DEF AuthoringNext
<1> QED
  BY <1>1, <1>2, PTL DEF AuthoringSpec

-----------------------------------------------------------------------------
(* Theorems *)

\* Every row and worker keeps its type.
THEOREM AuthoringTypeCorrect == AuthoringSpec => []AuthoringTypeOK
<1>1. AuthoringIInv => AuthoringTypeOK
  BY DEF AuthoringIInv
<1> QED
  BY AuthoringInvariant, <1>1, PTL

\* A session and its job name each other, whichever of a new request, an
\* adopted one and a retry came first.
THEOREM LinksAlwaysAgree == AuthoringSpec => []LinksAgree
<1>1. AuthoringIInv => LinksAgree
  BY DEF AuthoringIInv
<1> QED
  BY AuthoringInvariant, <1>1, PTL

\* However a job ends, the teacher's text and the slot go with it; while a
\* worker may still need them, they are there.
THEOREM SourceIsKeptWhileNeeded == AuthoringSpec => []SourceKeptWhileNeeded
<1>1. AuthoringIInv => SourceKeptWhileNeeded
  BY DEF AuthoringIInv
<1> QED
  BY AuthoringInvariant, <1>1, PTL

-----------------------------------------------------------------------------
(* What the teacher is shown implements SuggestionPromise *)

\* What ShownFlow holds of one session, and of the same session after a step.
LEMMA ShownFacts ==
  ASSUME NEW s \in AuthoringSession
  PROVE  /\ ShownFlow[s].status = authoring[s].status /\ ShownFlow'[s].status = authoring'[s].status
         /\ authoring[s].job = 0 => ShownFlow[s].suggestion = "not_requested"
         /\ authoring'[s].job = 0 => ShownFlow'[s].suggestion = "not_requested"
         /\ authoring[s].job # 0 =>
              ShownFlow[s].suggestion = IF job[authoring[s].job].status = "leased" THEN "pending"
                                    ELSE job[authoring[s].job].status
         /\ authoring'[s].job # 0 =>
              ShownFlow'[s].suggestion = IF job'[authoring'[s].job].status = "leased" THEN "pending"
                                     ELSE job'[authoring'[s].job].status
BY DEF ShownFlow, ShownSuggestion

\* What is shown of a session is its status and its suggestion.
LEMMA ShownRow ==
  ASSUME NEW s \in AuthoringSession, NEW status, NEW suggestion
  PROVE  /\ ShownFlow[s].status = status /\ ShownFlow[s].suggestion = suggestion
              => ShownFlow[s] = [status |-> status, suggestion |-> suggestion]
         /\ ShownFlow'[s].status = status /\ ShownFlow'[s].suggestion = suggestion
              => ShownFlow'[s] = [status |-> status, suggestion |-> suggestion]
BY DEF ShownFlow

\* Two rows are the same when both parts are.
LEMMA SameRow ==
  ASSUME NEW s \in AuthoringSession, ShownFlow'[s].status = ShownFlow[s].status,
         ShownFlow'[s].suggestion = ShownFlow[s].suggestion
  PROVE  ShownFlow'[s] = ShownFlow[s]
BY ShownRow

\* A row step shows the same suggestion, or the answer of one that was pending.
LEMMA AnswerStep ==
  ASSUME AuthoringIInv, NEW s \in AuthoringSession, JobSteps, authoring'[s].job = authoring[s].job
  PROVE  \/ ShownFlow'[s].suggestion = ShownFlow[s].suggestion
         \/ ShownFlow[s].suggestion = "pending" /\ ShownFlow'[s].suggestion \in {"ready", "failed"}
<1>1. CASE authoring[s].job = 0
  BY <1>1, ShownFacts
<1>2. CASE authoring[s].job # 0
  <2>1. authoring[s].job \in Job
    BY <1>2 DEF AuthoringIInv, AuthoringTypeOK, Job
  <2>2. LET j == authoring[s].job
        IN \/ job'[j].status = job[j].status
           \/ Unfinished(j) /\ job'[j].status \in {"pending", "leased", "ready", "failed"}
    BY <2>1, RowFacts DEF AuthoringIInv, JobSteps
  <2> QED
    BY <1>2, <2>2, ShownFacts DEF Unfinished
<1> QED
  BY <1>1, <1>2

\* Workers and time only answer.
LEMMA WorkAnswers ==
  ASSUME AuthoringIInv, AuthoringIInv', JobSteps, UNCHANGED authoring
  PROVE  Promise!Answer
<1>1. \A s \in AuthoringSession : ShownFlow'[s] \in
        [status : {"none", "open", "published", "abandoned"},
         suggestion : {"not_requested", "pending", "ready", "failed"}]
  <2> SUFFICES ASSUME NEW s \in AuthoringSession
               PROVE  /\ authoring'[s].status \in {"none", "open", "published", "abandoned"}
                      /\ ShownFlow'[s].suggestion \in {"not_requested", "pending", "ready", "failed"}
    BY ShownFacts DEF ShownFlow
  <2>1. /\ authoring'[s].status \in {"none", "open", "published", "abandoned"}
        /\ authoring'[s].job # 0 => authoring'[s].job \in Job
    <3>1. authoring' \in [AuthoringSession -> SessionRow]
      BY DEF AuthoringIInv, AuthoringTypeOK, SessionRow
    <3>2. authoring'[s] \in SessionRow
      BY <3>1
    <3>3. authoring'[s].job \in 0..MaxJob
      BY <3>2 DEF SessionRow
    <3> QED
      BY <3>2, <3>3 DEF SessionRow, Job
  <2>2. CASE authoring'[s].job = 0
    BY <2>1, <2>2, ShownFacts
  <2>3. CASE authoring'[s].job # 0
    <3>1. job'[authoring'[s].job].status \in {"none", "pending", "leased", "ready", "failed"}
      BY <2>1, <2>3 DEF AuthoringIInv, AuthoringTypeOK
    <3>2. job'[authoring'[s].job].status # "none"
      BY <2>1, <2>3, <3>1 DEF AuthoringIInv, FreeIsUnlinked, LinksAgree, AuthoringSession
    <3> QED
      BY <2>1, <2>3, <3>1, <3>2, ShownFacts
  <2> QED
    BY <2>1, <2>2, <2>3
<1>2. ASSUME NEW s \in AuthoringSession
      PROVE  /\ ShownFlow'[s].status = ShownFlow[s].status
             /\ \/ ShownFlow'[s] = ShownFlow[s]
                \/ /\ ShownFlow[s].suggestion = "pending"
                   /\ ShownFlow'[s].suggestion \in {"ready", "failed"}
  BY AnswerStep, ShownFacts, SameRow
<1>3. ShownFlow' = [s \in AuthoringSession |-> ShownFlow'[s]]
  BY DEF ShownFlow
<1> QED
  BY <1>1, <1>2, <1>3 DEF Promise!Answer, Promise!Answers

\* A session that is not at a step of the teacher shows the same.
LEMMA OthersShown ==
  ASSUME AuthoringIInv, NEW r \in AuthoringSession, authoring'[r] = authoring[r],
         \A j \in Job : authoring[r].job = j => job'[j].status = job[j].status
  PROVE  ShownFlow'[r] = ShownFlow[r]
<1>1. authoring[r].job # 0 => authoring[r].job \in Job
  BY DEF AuthoringIInv, AuthoringTypeOK, Job
<1>2. ShownFlow'[r].status = ShownFlow[r].status /\ ShownFlow'[r].suggestion = ShownFlow[r].suggestion
  BY <1>1, ShownFacts
<1> QED
  BY <1>2, SameRow

\* Every action of the teacher opens, asks, publishes, abandons or shows the
\* same.
LEMMA TeacherPromises ==
  ASSUME AuthoringIInv, Teacher
  PROVE  Promise!Next \/ UNCHANGED ShownFlow
<1>0. /\ authoring \in [AuthoringSession -> SessionRow] /\ job \in [Job -> JobRow]
      /\ \A s \in AuthoringSession : s # 0
      /\ \A j \in Job : j # 0
      /\ \A s \in AuthoringSession : authoring[s].job # 0 => authoring[s].job \in Job
  BY DEF AuthoringIInv, AuthoringTypeOK, SessionRow, JobRow, JobStatus, AuthoringSession, Job
<1>a. /\ ShownFlow = [s \in AuthoringSession |-> ShownFlow[s]] /\ ShownFlow' = [s \in AuthoringSession |-> ShownFlow'[s]]
  BY DEF ShownFlow
<1>1. ASSUME NEW s \in AuthoringSession, CreateOrReturnOpen(s)
      PROVE  Promise!Open(s)
  <2>1. /\ authoring'[s].status = "open" /\ authoring'[s].job = authoring[s].job
        /\ \A r \in AuthoringSession : r # s => authoring'[r] = authoring[r]
        /\ UNCHANGED job
    BY <1>0, <1>1 DEF CreateOrReturnOpen, SessionRow
  <2>2. ShownFlow'[s].suggestion = ShownFlow[s].suggestion
    BY <2>1, ShownFacts
  <2>3. ShownFlow'[s] = [ShownFlow[s] EXCEPT !.status = "open"]
    BY <2>1, <2>2 DEF ShownFlow
  <2>4. \A r \in AuthoringSession : r # s => ShownFlow'[r] = ShownFlow[r]
    BY <2>1, OthersShown
  <2>5. ShownFlow' = [ShownFlow EXCEPT ![s].status = "open"]
    BY <1>a, <2>3, <2>4
  <2>6. ShownFlow[s].status = "none" /\ \A r \in AuthoringSession : ShownFlow[r].status # "open"
    BY <1>1, ShownFacts DEF CreateOrReturnOpen
  <2> QED
    BY <2>5, <2>6 DEF Promise!Open
<1>2. ASSUME NEW s \in AuthoringSession, Publish(s)
      PROVE  Promise!Publish(s)
  <2>1. /\ authoring'[s].status = "published" /\ authoring'[s].job = authoring[s].job
        /\ \A r \in AuthoringSession : r # s => authoring'[r] = authoring[r]
        /\ UNCHANGED job /\ authoring[s].status = "open"
    BY <1>0, <1>2 DEF Publish, SessionRow
  <2>2. ShownFlow'[s].suggestion = ShownFlow[s].suggestion
    BY <2>1, ShownFacts
  <2>3. ShownFlow'[s] = [ShownFlow[s] EXCEPT !.status = "published"]
    BY <2>1, <2>2 DEF ShownFlow
  <2>4. \A r \in AuthoringSession : r # s => ShownFlow'[r] = ShownFlow[r]
    BY <2>1, OthersShown
  <2>5. ShownFlow' = [ShownFlow EXCEPT ![s].status = "published"]
    BY <1>a, <2>3, <2>4
  <2>6. ShownFlow[s].status = "open"
    BY <2>1, ShownFacts
  <2> QED
    BY <2>5, <2>6 DEF Promise!Publish
<1>3. ASSUME NEW s \in AuthoringSession, Abandon(s)
      PROVE  Promise!Abandon(s)
  <2>1. /\ authoring'[s].status = "abandoned" /\ authoring'[s].job = authoring[s].job
        /\ \A r \in AuthoringSession : r # s => authoring'[r] = authoring[r]
        /\ CancelJob(authoring[s].job) /\ authoring[s].status = "open"
    BY <1>0, <1>3 DEF Abandon, SessionRow
  <2>2. ShownFlow'[s].suggestion = IF ShownFlow[s].suggestion = "pending" THEN "failed"
                              ELSE ShownFlow[s].suggestion
    <3>1. CASE authoring[s].job = 0
      BY <2>1, <3>1, ShownFacts
    <3>2. CASE authoring[s].job # 0
      <4> DEFINE j == authoring[s].job
      <4>1. j \in Job /\ job[j] \in JobRow
        BY <1>0, <3>2
      <4>2. CASE Unfinished(j)
        <5>1. job'[j] = Ended(job[j], "failed")
          BY <1>0, <2>1, <3>2, <4>1, <4>2 DEF CancelJob
        <5>2. job'[j].status = "failed"
          BY <4>1, <5>1 DEF Ended, JobRow
        <5> QED
          BY <2>1, <3>2, <4>2, <5>2, ShownFacts DEF Unfinished
      <4>3. CASE ~Unfinished(j)
        BY <2>1, <3>2, <4>3, ShownFacts DEF Unfinished, CancelJob
      <4> QED
        BY <4>2, <4>3
    <3> QED
      BY <3>1, <3>2
  <2>3. ASSUME NEW r \in AuthoringSession, r # s
        PROVE  ShownFlow'[r] = ShownFlow[r]
    <3>1. \A j \in Job : authoring[r].job = j => j # authoring[s].job
      BY <1>0, <2>3 DEF AuthoringIInv, LinksAgree
    <3>2. \A j \in Job : authoring[r].job = j => job'[j] = job[j]
      BY <1>0, <2>1, <3>1 DEF CancelJob
    <3> QED
      BY <2>1, <2>3, <3>2, OthersShown
  <2>4. /\ ShownFlow'[s] = [status |-> "abandoned",
                        suggestion |-> IF ShownFlow[s].suggestion = "pending" THEN "failed"
                                       ELSE ShownFlow[s].suggestion]
        /\ ShownFlow[s].status = "open"
    BY <2>1, <2>2, ShownFacts, ShownRow
  <2>5. ShownFlow' = [ShownFlow EXCEPT ![s] = [status |-> "abandoned",
                                       suggestion |-> IF ShownFlow[s].suggestion = "pending"
                                                      THEN "failed"
                                                      ELSE ShownFlow[s].suggestion]]
    BY <1>a, <2>3, <2>4
  <2> QED
    BY <2>4, <2>5 DEF Promise!Abandon
<1>4. ASSUME NEW s \in AuthoringSession, NEW input \in Input, RequestSuggestion(s, input)
      PROVE  Promise!Ask(s)
  <2>1. authoring[s].status = "open" /\ authoring[s].job = 0
    BY <1>4 DEF RequestSuggestion
  <2>2. PICK j \in Job : /\ Link(s, j) /\ job[j].session = 0
                         /\ \/ /\ Unfinished(j)
                               /\ job' = [job EXCEPT ![j].session = s]
                            \/ job' = [job EXCEPT ![j] = NewJob(s, input)]
    BY <1>4 DEF RequestSuggestion, ActiveRequest, AdoptLegacyJob, NextJob, AuthoringIInv, FreeIsUnlinked
  <2>3. /\ authoring'[s].job = j /\ authoring'[s].status = "open"
        /\ \A r \in AuthoringSession : r # s => authoring'[r] = authoring[r]
        /\ \A r \in AuthoringSession : authoring[r].job # j
    BY <2>1, <2>2, LinkFacts
  <2>4. /\ \A i \in Job : i # j => job'[i] = job[i]
        /\ job'[j].status \in {"pending", "leased"}
    <3>1. [job[j] EXCEPT !.session = s].status = job[j].status
      BY <1>0 DEF JobRow
    <3>2. s \in 0..MaxSession
      BY DEF AuthoringSession
    <3>3. NewJob(s, input).status = "pending"
      BY <3>2, NewJobFacts
    <3> QED
      BY <1>0, <2>2, <3>1, <3>3 DEF Unfinished
  <2>5. ShownFlow[s].suggestion = "not_requested" /\ ShownFlow'[s].suggestion = "pending"
    BY <1>0, <2>1, <2>3, <2>4, ShownFacts
  <2>6. \A r \in AuthoringSession : r # s => ShownFlow'[r] = ShownFlow[r]
    BY <2>3, <2>4, OthersShown
  <2>7. ShownFlow[s] = [status |-> "open", suggestion |-> "not_requested"]
    BY <2>1, <2>5, ShownFacts, ShownRow
  <2>8. ShownFlow'[s] = [ShownFlow[s] EXCEPT !.suggestion = "pending"]
    BY <2>3, <2>5, <2>7, ShownFacts, ShownRow
  <2>9. ShownFlow' = [ShownFlow EXCEPT ![s].suggestion = "pending"]
    BY <1>a, <2>6, <2>8
  <2> QED
    BY <2>7, <2>9 DEF Promise!Ask
<1>5. ASSUME NEW input \in LegacyInput, SubmitLegacy(input)
      PROVE  UNCHANGED ShownFlow
  <2>1. PICK j \in Job : NextJob(j) /\ job' = [job EXCEPT ![j] = NewJob(0, input)]
    BY <1>5 DEF SubmitLegacy
  <2>2. UNCHANGED authoring
    BY <1>5 DEF SubmitLegacy
  <2>3. job[j].session = 0 /\ \A i \in Job : i # j => job'[i] = job[i]
    BY <2>1 DEF NextJob, AuthoringIInv, FreeIsUnlinked
  <2>4. \A r \in AuthoringSession : authoring[r].job # j
    BY <1>0, <2>3 DEF AuthoringIInv, LinksAgree
  <2>5. \A r \in AuthoringSession : ShownFlow'[r] = ShownFlow[r]
    BY <2>2, <2>3, <2>4, OthersShown
  <2> QED
    BY <1>a, <2>5
<1> QED
  BY <1>1, <1>2, <1>3, <1>4, <1>5 DEF Teacher, Promise!Next

\* Whatever the workers do and whoever asks twice, one session is open at a
\* time, asks once and gets one answer that never changes.
THEOREM ImplementsSuggestionPromise == AuthoringSpec => OneSuggestion
<1>1. AuthoringInit => Promise!Init
  BY DEF AuthoringInit, NoSession, Promise!Init, ShownFlow, ShownSuggestion
<1>2. AuthoringIInv /\ AuthoringIInv' /\ [AuthoringNext]_authoringVars => [Promise!Next]_ShownFlow
  <2> SUFFICES ASSUME AuthoringIInv, AuthoringIInv', [AuthoringNext]_authoringVars
               PROVE  Promise!Next \/ UNCHANGED ShownFlow
    OBVIOUS
  <2>1. CASE UNCHANGED authoringVars
    BY <2>1 DEF authoringVars, ShownFlow, ShownSuggestion
  <2>2. CASE Teacher
    BY <2>2, TeacherPromises
  <2>3. CASE Time \/ \E w \in Worker : RunDueJobs(w) \/ WorkerDies(w)
    BY <2>3, WorkSteps, WorkAnswers DEF Promise!Next
  <2> QED
    BY <2>1, <2>2, <2>3 DEF AuthoringNext
<1> QED
  BY AuthoringInvariant, <1>1, <1>2, PTL DEF AuthoringSpec, OneSuggestion, Promise!Safety
=============================================================================
