SPECIFICATION Spec
CONSTANTS
  Engine = "mysql"
  None = None
  Requests = {p1, p2}
  Students = {s1, s2}
  Classes = {c1}
  Ids = {e1, e2}
  Rows = {s1, s2, c1, e1, e2}
  MaxCapacity = 1
  ClosedStatuses = {"cancelled"}
SYMMETRY MCSymmetry
INVARIANTS
  CapacityRespected
