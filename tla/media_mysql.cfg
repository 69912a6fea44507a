SPECIFICATION OfficeSpec
CONSTANTS
  Engine = "mysql"
  None = None
  Requests = {p1, p2, p3}
  Assets = {a1}
  Owners = {o1, o2}
  Rows = {a1, o1, o2}
  Faults = {"disk", "crash"}
  Sittings = {l1, l2}
  l1 = l1
  l2 = l2
  Shown <- MCShown
  Enrolled = {s1, s2}
  s1 = s1
  Marks = {"present", "absent"}
  Engines = {"demo", "mysql"}
  NoMark = NoMark
  Nil = Nil
  Contested <- MCContested
  Windows <- MCWindows
  MaxEvents = 2
INVARIANTS
  TypeOK
  NoDanglingReference
  GalleryLeaksNothing
  RegisterHolds
PROPERTIES
  EveryRequestAnswered
