SPECIFICATION Spec
CONSTANTS
  Engine = "sqlite"
  None = None
  Requests = {p1, p2}
  Students = {s1, s2}
  Classes = {c1}
  Ids = {e1, e2, e3}
  Rows = {s1, s2, c1, e1, e2, e3}
  MaxCapacity = 2
  ClosedStatuses = {"cancelled"}
SYMMETRY MCSymmetry
INVARIANTS
  TypeOK
  CapacityRespected
  OneOpenPerStudentAndClass
PROPERTIES
  BookSpec
