SPECIFICATION Spec
CONSTANTS
  Engine = "mysql"
  None = None
  Requests = {p1, p2}
  Classes = {c1}
  Students = {s1, s2}
  ManualIds = {m1}
  Bookings <- MCBookings
  Plans <- MCPlans
  Rows <- Rooted
  Operations = {"generate", "mark", "editClass"}
SYMMETRY MCSymmetry
CHECK_DEADLOCK FALSE
PROPERTIES GenerationKeepsHistory
