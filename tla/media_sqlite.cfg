SPECIFICATION Spec
CONSTANTS
  Engine = "sqlite"
  None = None
  Requests = {p1, p2, p3}
  Assets = {a1, a2}
  Owners = {o1, o2}
  Rows = {a1, a2, o1, o2}
  Faults = {"sql", "disk", "crash"}
SYMMETRY MCSymmetry
INVARIANTS
  DeletesAreHonest
