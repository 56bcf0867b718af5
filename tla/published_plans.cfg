SPECIFICATION MCSpec
CONSTANTS
  Editor = {e1, e2}
  MaxEdit = 2
  MaxFault = 1
  MaxChange = 2
  Point = {"k1", "k2", "k3"}
  Requirement = {"r1", "r2", "r3"}
  Content = {"x1", "x2"}
  Criterion = {"c1", "c2", "c3"}
  FirstProfile <- TheProfile
  FirstMaterials <- TheMaterials
CHECK_DEADLOCK FALSE
INVARIANTS GateDecidesRightly EditorTellsTruth
PROPERTIES KeepsProfiles EditsSettle
