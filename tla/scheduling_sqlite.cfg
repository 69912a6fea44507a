SPECIFICATION Spec
CONSTANTS
  Engine = "sqlite"
  None = None
  Requests = {p1, p2}
  Classes = {c1}
  Students = {s1}
  ManualIds = {m1}
  Bookings <- MCBookings
  Plans <- MCPlans
  Rows <- Rooted
  Operations = {"create", "update", "reschedule", "delete", "mark", "generate", "editClass", "deleteStudent"}
SYMMETRY MCSymmetry
CHECK_DEADLOCK FALSE
INVARIANTS
  TypeOK
  NoDoubleBooking
PROPERTIES
  ArchivedGainsNoSession
  GenerationKeepsHistory
