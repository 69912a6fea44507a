SPECIFICATION MakeupSpec
CONSTANTS
  Engine = "sqlite"
  None = None
  Requests = {p1, p2}
  Classes = {c1}
  Students = {s1}
  ManualIds = {o1, o2, m1, m2, m3, m4}
  Originals = {o1, o2}
  Bookings <- MCSlots
  Plans <- MCPlans
  Rows <- Rooted
  MaxMoves = 32
  Cap = 1
  Operations = {"reschedule", "delete"}
SYMMETRY MCSymmetry
CHECK_DEADLOCK FALSE
INVARIANTS
  MakeupTypeOK
  MakeupsHold
PROPERTIES
  DischargedWhileLive
