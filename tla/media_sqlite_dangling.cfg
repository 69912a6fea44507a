SPECIFICATION Spec
CONSTANTS
  Engine = "sqlite"
  None = None
  Requests = {p1, p2}
  Assets = {a1}
  Owners = {o1}
  Rows = {a1, o1}
  Faults = {}
INVARIANTS
  NoDanglingReference
