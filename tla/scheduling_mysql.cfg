SPECIFICATION Spec
CONSTANTS
  Engine = "mysql"
  None = None
  Requests = {p1, p2}
  Classes = {c1}
  Students = {s1}
  ManualIds = {m1, m2, m3}
  Bookings <- MCOneBooking
  Plans <- MCOnePlan
  Rows <- Rooted
  Operations = {"create", "update", "cancel", "reschedule", "delete", "mark", "generate", "deleteClass", "deleteStudent"}
SYMMETRY MCSymmetry
CHECK_DEADLOCK FALSE
INVARIANTS
  MovesLinkBothWays
PROPERTIES
  HistoryStands
