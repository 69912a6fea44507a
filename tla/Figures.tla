------------------------------ MODULE Figures ------------------------------
(***************************************************************************)
(* The lists and detail pages of students, classes and teachers (views     *)
(* Students.tsx, Classes.tsx, Teachers.tsx): figures joined from four to   *)
(* six reads of one page each, the guards that hold a page back while a    *)
(* read is under way or failed, the notes where a read is short of its     *)
(* total, and the slice a teacher sees.                                    *)
(***************************************************************************)
EXTENDS PageReads, Scope

CONSTANTS
    Subject,      \* the record of each detail page
    Onlooker,     \* the signed-in teacher of the students pages
    Week          \* the days of this week, in days before today

ASSUME FigureBounds == 0 \in Week

OfficeActor == [role |-> "manager", permissions |-> {"students.read"}, teacher |-> Unlinked]
TeacherActor == [role |-> "teacher", permissions |-> {"students.read"}, teacher |-> Onlooker]

FigureSources ==
    [students |-> {"students", "teachers", "classes", "enrollments", "profile"},
     student |-> {"profile", "enrollments", "classes", "rooms", "sessions", "marks"},
     classes |-> {"classes", "teachers", "enrollments", "rooms"},
     class |-> {"profile", "enrollments", "rooms", "sessions", "students"},
     teachers |-> {"teachers", "sessions", "classes", "enrollments"},
     teacher |-> {"profile", "classes", "enrollments", "rooms", "sessions", "students"}]

-----------------------------------------------------------------------------
(* The rows of a read                                                      *)

(* What a page asks of a store: the filters of its hooks.                  *)
StudentRows(store, s) ==
    CASE s = "profile" -> {r \in store.students : r.id = Subject[page]}
      [] s = "enrollments" -> {e \in store.enrollments : page = "student" => e.student = Subject[page]}
      [] s = "classes" -> {c \in store.classes : ~c.archived}
      [] s = "sessions" -> {l \in store.lessons : l.age <= 0}
      [] s = "marks" -> {m \in store.marks : m.student = Subject[page]}
      [] OTHER -> store[s]
ClassRows(store, s) ==
    CASE s = "profile" -> {c \in store.classes : c.id = Subject[page]}
      [] s = "enrollments" -> {e \in store.enrollments : page = "class" => e.class = Subject[page]}
      [] s = "classes" -> {c \in store.classes : ~c.archived}
      [] s = "sessions" -> {l \in store.lessons : l.class = Subject[page] /\ l.age \in Week}
      [] OTHER -> store[s]
TeacherRows(store, s) ==
    CASE s = "profile" -> {t \in store.teachers : t.id = Subject[page]}
      [] s = "classes" -> {c \in store.classes : ~c.archived /\ (page = "teacher" => c.teacher = Subject[page])}
      [] s = "sessions" -> {l \in store.lessons : IF page = "teacher" THEN l.teacher = Subject[page] /\ l.age \in Week
                                                                     ELSE l.age \in {-1, 0}}
      [] OTHER -> store[s]
Matching(s) ==
    IF page \in {"student", "students"} THEN StudentRows(academy, s)
    ELSE IF page \in {"class", "classes"} THEN ClassRows(academy, s) ELSE TeacherRows(academy, s)
Fetched(s) == read[s].rows
(* The line a panel adds about each read that returned less than it counts.*)
notesOf(S) == {s \in S : ~Complete({s})}

Waits(S) == \E s \in S : read[s].loading
(* A page may do without a part that this edition has not.                 *)
blockingFailure(s) == read[s].error # "none" /\ ~(s = "rooms" /\ read[s].error = "unavailable")
Blocks(S) == \E s \in S : blockingFailure(s)
NameIn(s, id) == IF id \in {r.id : r \in Fetched(s)} THEN id ELSE NO_DATA
Seated(status) == {e \in Fetched("enrollments") : e.status = status}
Counted(S, count) == IF Complete(S) THEN count ELSE NO_DATA
InClasses(seats) == {e \in seats : e.class \in {c.id : c \in Fetched("classes")}}
Pupils(seats) == {e.student : e \in seats}

-----------------------------------------------------------------------------
(* Students                                                                *)

ScopeReads == {"classes", "enrollments"}
(* A teacher is shown nothing before its assignments are known, and only   *)
(* what they name.                                                         *)
filteredStudents(actor) ==
    IF ~IsLinkedTeacher(actor) THEN Fetched("students")
    ELSE IF Blocks(ScopeReads) THEN {}
    ELSE {s \in Fetched("students") :
             s.id \in assignedStudentIdsForTeacher(actor.teacher, Fetched("classes"), Fetched("enrollments"))}
StudentCard(s) == [id |-> s.id, teacher |-> NameIn("teachers", s.teacher)]
StudentStrip(shown) ==
    [st \in {"active", "at-risk", "waitlist", "paused"} |-> Cardinality({s \in shown : s.status = st})]
StudentsView(actor) ==
    LET shown == filteredStudents(actor)
    IN  IF Waits({"students", "teachers"}) \/ (IsLinkedTeacher(actor) /\ Waits(ScopeReads)) THEN [is |-> "reading"]
        ELSE IF Blocks({"students"}) THEN [is |-> "failed"]
        ELSE [is |-> "shown", stats |-> StudentStrip(shown), cards |-> {StudentCard(s) : s \in shown}]
(* The page of one student, from its own read.                             *)
StudentGate(actor) ==
    LET scoped == IsLinkedTeacher(actor)
    IN  IF Waits({"profile", "teachers"}) \/ (scoped /\ Waits(ScopeReads)) THEN "reading"
        ELSE IF Blocks({"profile"}) THEN "failed"
        ELSE IF Fetched("profile") = {} THEN "not found"
        ELSE IF scoped /\ Blocks(ScopeReads) THEN "scope not read"
        ELSE IF scoped /\ ~isAssignedStudent(actor.teacher, Subject["students"], Fetched("classes"), Fetched("enrollments"))
        THEN "not assigned" ELSE "shown"

StudentReads == {"enrollments", "classes", "rooms", "sessions", "marks"}
byStart(a, b) == a.age > b.age \/ (a.age = b.age /\ (a.start < b.start \/ (a.start = b.start /\ a.id < b.id)))
First(lessons) == IF lessons = {} THEN NO_DATA ELSE (CHOOSE l \in lessons : \A o \in lessons \ {l} : byStart(l, o)).id
nextClassOf(lessons, classes) ==
    First({l \in lessons : l.status = "scheduled" /\ l.class \in classes /\ (l.age < 0 \/ (l.age = 0 /\ l.end > minute))})
sessionBadge(l) ==
    IF l.status = "scheduled" /\ l.age = 0 /\ l.start <= minute /\ minute < l.end THEN "live" ELSE l.status
MyClassIds == {e.class : e \in Seated("active")}
Plate == nextClassOf(Fetched("sessions"), MyClassIds)
(* No lesson is ahead, or there is no class it could be of.                *)
OverviewTab == IF Plate # NO_DATA THEN Plate ELSE IF MyClassIds = {} THEN "no class" ELSE "nothing ahead"
ScheduleTab ==
    [week |-> {[id |-> l.id, badge |-> sessionBadge(l), class |-> NameIn("classes", l.class)] :
                  l \in {k \in Fetched("sessions") : k.class \in MyClassIds /\ k.age > -7}},
     classes |-> {NameIn("classes", c) : c \in MyClassIds},
     waiting |-> {NameIn("classes", e.class) : e \in Seated("waitlist")}]
(* The newest marks, of so many.                                           *)
AttendanceTab == [bars |-> Fetched("marks"), of |-> read["marks"].total]
FinanceTab == {NameIn("classes", c) : c \in MyClassIds}
StudentDetail ==
    IF Waits({"profile"} \union StudentReads) THEN [is |-> "reading"]
    ELSE IF Blocks({"profile"} \union StudentReads) THEN [is |-> "failed"]
    ELSE IF Fetched("profile") = {} THEN [is |-> "not found"]
    ELSE [is |-> "shown", overview |-> OverviewTab, schedule |-> ScheduleTab, attendance |-> AttendanceTab, finance |-> FinanceTab]

-----------------------------------------------------------------------------
(* Classes                                                                 *)

fullness(seats, capacity) == IF capacity > 0 THEN (seats * 100 + capacity \div 2) \div capacity ELSE 0
seatsByClass(c, status) == Cardinality({e \in Seated(status) : e.class = c})
\* Mutant: the page of enrollments is taken for all of them.
seatsOfMutant(c) == seatsByClass(c, "active")
seatsOf(c) == Counted({"enrollments"}, seatsByClass(c, "active"))
waitingOf(c) == Counted({"enrollments"}, seatsByClass(c, "waitlist"))
RosterTotal(status) ==
    Counted({"enrollments"}, MapThenSumSet(LAMBDA c : seatsByClass(c.id, status), Fetched("classes")))
ClassCard(c) ==
    [id |-> c.id, seats |-> seatsOf(c.id), waiting |-> waitingOf(c.id), full |-> seatsOf(c.id) # NO_DATA /\ seatsOf(c.id) >= c.capacity,
     teacher |-> NameIn("teachers", c.teacher)]
(* The class most are waiting for, if anybody waits.                       *)
ClassStrip ==
    [taken |-> RosterTotal("active"), queue |-> RosterTotal("waitlist"),
     mostWaitlisted |-> IF RosterTotal("waitlist") \in {NO_DATA, 0} THEN {}
                        ELSE {c.id : c \in {d \in Fetched("classes") :
                                \A o \in Fetched("classes") : seatsByClass(o.id, "waitlist") <= seatsByClass(d.id, "waitlist")}}]
RoomsPanel == [rooms |-> IF read["rooms"].error # "none" THEN "unavailable" ELSE {r.id : r \in Fetched("rooms")},
               notes |-> notesOf({"enrollments", "rooms"})]
ClassesRoster ==
    IF Waits(DOMAIN read) THEN [is |-> "reading"] ELSE IF Blocks(DOMAIN read) THEN [is |-> "failed"]
    ELSE [is |-> "shown", strip |-> ClassStrip, cards |-> {ClassCard(c) : c \in Fetched("classes")}, rooms |-> RoomsPanel]

ClassSeats == Cardinality(Seated("active"))
SeatRing(capacity) ==
    [pct |-> fullness(ClassSeats, capacity), seats |-> Counted({"enrollments"}, ClassSeats), waiting |-> Cardinality(Seated("waitlist"))]
(* A member that the students read did not return is missing, unless that  *)
(* read is short of its total.                                             *)
RosterPanel(capacity) ==
    LET members == Pupils(Seated("active"))
        roster == {s.id : s \in Fetched("students")} \intersect members
        missing == IF Complete({"students"}) THEN Cardinality(members \ roster) ELSE 0
    IN  [aside |-> Counted({"enrollments"}, Cardinality(roster)), roster |-> roster, missing |-> missing,
         says |-> IF roster # {} THEN "roster" ELSE IF missing > 0 THEN "members not read" ELSE "empty class",
         free |-> Max({0, capacity - Cardinality(roster)}), notes |-> notesOf({"enrollments", "students", "rooms"})]
WeekPanel == [lessons |-> {[id |-> l.id, status |-> l.status] : l \in Fetched("sessions")}, notes |-> notesOf({"sessions"})]
(* Hidden while nobody waits.                                              *)
WaitingPanel == Cardinality(Seated("waitlist"))
ClassDetail ==
    LET capacity == (CHOOSE c \in Fetched("profile") : TRUE).capacity
    IN  IF Waits(DOMAIN read) THEN [is |-> "reading"] ELSE IF Blocks(DOMAIN read) THEN [is |-> "failed"]
        ELSE IF Fetched("profile") = {} THEN [is |-> "not found"]
        ELSE [is |-> "shown", seats |-> SeatRing(capacity), roster |-> RosterPanel(capacity), week |-> WeekPanel, queue |-> WaitingPanel]

-----------------------------------------------------------------------------
(* Teachers                                                                *)

membersByTeacher(t, status) ==
    Pupils({e \in InClasses(Seated(status)) : \E c \in Fetched("classes") : c.id = e.class /\ c.teacher = t})
MemberCount(t, status) == Counted({"classes", "enrollments"}, Cardinality(membersByTeacher(t, status)))
TeacherCard(t) == [id |-> t.id, students |-> MemberCount(t.id, "active")]
TeacherStrip ==
    LET absent == {t.id : t \in {u \in Fetched("teachers") : u.status = "absent-tomorrow"}}
        held == {l \in Fetched("sessions") : l.status # "cancelled"}
    IN  [teaching |-> Counted({"sessions"}, Cardinality({l.teacher : l \in {k \in held : k.age = 0}} \intersect {t.id : t \in Fetched("teachers")})),
         absent |-> Cardinality(absent),
         uncovered |-> Counted({"sessions"}, Cardinality({l \in held : l.age = -1 /\ l.teacher \in absent}))]
FreeCapacity == {[id |-> t.id, waiting |-> MemberCount(t.id, "waitlist")] : t \in {u \in Fetched("teachers") : u.utilization < 60}}
TeachersRoster ==
    IF Waits(DOMAIN read) THEN [is |-> "reading"] ELSE IF Blocks(DOMAIN read) THEN [is |-> "failed"]
    ELSE [is |-> "shown", strip |-> TeacherStrip, cards |-> {TeacherCard(t) : t \in Fetched("teachers")}, free |-> FreeCapacity]

TeacherReads == {"classes", "enrollments", "students"}
MyMembers == Pupils(InClasses(Seated("active")))
MyStudents == {s.id : s \in Fetched("students")} \intersect MyMembers
MyLessons == {l \in Fetched("sessions") : l.teacher = Subject[page]}
TeacherTiles == [students |-> Counted(TeacherReads, Cardinality(MyStudents)), today |-> Cardinality({l \in MyLessons : l.age = 0})]
TodayTab ==
    {[id |-> l.id, class |-> NameIn("classes", l.class), room |-> NameIn("rooms", l.room),
      seats |-> Counted(TeacherReads, seatsByClass(l.class, "active"))] : l \in {k \in MyLessons : k.age = 0}}
WeekTab == [held |-> Cardinality({l \in MyLessons : l.status # "cancelled"}),
            cancelled |-> Cardinality({l \in MyLessons : l.status = "cancelled"}), notes |-> notesOf({"sessions"})]
StudentsTab ==
    [roster |-> MyStudents, missing |-> Cardinality(MyMembers \ MyStudents),
     says |-> IF MyStudents # {} THEN "roster" ELSE IF MyMembers # {} THEN "members not read" ELSE "no students",
     notes |-> notesOf(TeacherReads)]
LoadTab == Cardinality(InClasses(Seated("waitlist")))
TeacherDetail ==
    IF Waits(DOMAIN read) THEN [is |-> "reading"] ELSE IF Blocks(DOMAIN read) THEN [is |-> "failed"]
    ELSE IF Fetched("profile") = {} THEN [is |-> "not found"]
    ELSE [is |-> "shown", tiles |-> TeacherTiles, today |-> TodayTab, week |-> WeekTab, students |-> StudentsTab, load |-> LoadTab]

-----------------------------------------------------------------------------
(* What a page is about is read, and read again, before what is joined.    *)
Outer == [students |-> {"students"}, student |-> {"profile"}, classes |-> {"classes", "teachers"}, class |-> {"profile"},
          teachers |-> {"teachers"}, teacher |-> {"profile"}]
FiguresInit == \E p \in DOMAIN FigureSources : ReadsInit(p, FigureSources[p])
(* The button of a page that failed.                                       *)
reloadRelations ==
    /\ ~Waits(DOMAIN read) /\ PageTurn
    /\ \/ Blocks(Outer[page]) /\ ReadAgain(Outer[page])
       \/ /\ page # "students" /\ ~Blocks(Outer[page]) /\ Blocks(DOMAIN read) /\ ReadAgain(DOMAIN read \ Outer[page])
    /\ UNCHANGED <<academy, page, range, minute, outdated, faults>>
FiguresNext ==
    /\ page \in DOMAIN FigureSources
    /\ reloadRelations \/ \E s \in FigureSources[page] : AnswerRead(s, Matching(s))

-----------------------------------------------------------------------------
(* The academy's own answers.                                              *)
Holding(c, status) == {e \in academy.enrollments : e.class = c /\ e.status = status}
Classes == {c \in academy.classes : ~c.archived}
Seatholders(t) == Pupils({e \in academy.enrollments : e.status = "active" /\ \E c \in Classes : c.id = e.class /\ c.teacher = t})

(* A teacher is shown no student whom scope.ts does not let it read, in    *)
(* the list or on a page of its own, whatever was read when; and all of    *)
(* its own, once nothing is short of its total.                            *)
TeachersSeeTheirOwn ==
    LET may(s) == canReadStudent(TeacherActor, s, academy.classes, academy.enrollments)
    IN  page = "students" /\ outdated \intersect ScopeReads = {} =>
        /\ StudentGate(TeacherActor) = "shown" => may(Subject[page])
        /\ \A view \in {StudentsView(TeacherActor)} : view.is = "shown" =>
              /\ \A s \in {k.id : k \in view.cards} : may(s)
              /\ outdated = {} /\ ~Blocks(ScopeReads) /\ Complete(ScopeReads \union {"students"}) =>
                    Seatholders(Onlooker) \intersect {s.id : s \in academy.students} \subseteq {k.id : k \in view.cards}

(* A count is the academy's or a dash: nothing joined from a read that is  *)
(* under way, that failed or that is short of its total is shown as a      *)
(* measurement without the note that says so.                              *)
SeatsAreCounted ==
    page = "classes" /\ outdated = {} => \A view \in {ClassesRoster} : view.is = "shown" =>
        /\ \A k \in view.cards :
              /\ k.seats \in {NO_DATA, Cardinality(Holding(k.id, "active"))}
              /\ k.waiting \in {NO_DATA, Cardinality(Holding(k.id, "waitlist"))}
        /\ view.strip.taken \in {NO_DATA, Cardinality(UNION {Holding(c.id, "active") : c \in Classes})}
        /\ \A c \in view.strip.mostWaitlisted : Holding(c, "waitlist") # {}
RostersAreComplete ==
    LET members == Pupils(Holding(Subject[page], "active"))
    IN  page = "class" /\ outdated = {} => \A view \in {ClassDetail} : view.is = "shown" =>
        /\ view.seats.seats \in {NO_DATA, Cardinality(members)}
        /\ view.roster.notes = {} =>
              /\ view.roster.roster \subseteq members
              /\ Cardinality(view.roster.roster) + view.roster.missing = Cardinality(members)
              /\ view.roster.says = "empty class" <=> members = {}
              /\ view.queue = Cardinality(Holding(Subject[page], "waitlist"))
TeachersAreCounted ==
    LET held == {l \in academy.lessons : l.teacher = Subject[page] /\ l.age \in Week /\ l.status # "cancelled"}
        lesson(id) == CHOOSE l \in academy.lessons : l.id = id
    IN  page \in {"teachers", "teacher"} /\ outdated = {} =>
        \A view \in {IF page = "teachers" THEN TeachersRoster ELSE TeacherDetail} : view.is = "shown" =>
        IF page = "teachers"
        THEN /\ \A k \in view.cards : k.students \in {NO_DATA, Cardinality(Seatholders(k.id))}
             /\ view.strip.uncovered \notin {NO_DATA, 0} => view.strip.absent > 0
        ELSE /\ view.tiles.students # NO_DATA => view.students.roster = Seatholders(Subject[page]) \intersect {s.id : s \in academy.students}
             /\ \A l \in view.today : l.seats \in {NO_DATA, Cardinality(Holding(lesson(l.id).class, "active"))}
             /\ view.week.notes = {} => view.week.held = Cardinality(held)
             /\ view.students.notes = {} => (view.students.says = "no students" <=> Seatholders(Subject[page]) = {})
(* The plate of the next lesson, the week and the list of classes of one   *)
(* student speak of the same lessons.                                      *)
StudentsWeekIsWhole ==
    LET mine == {e.class : e \in {x \in academy.enrollments : x.student = Subject[page] /\ x.status = "active"}}
        ahead == {l \in academy.lessons : l.class \in mine /\ l.status = "scheduled" /\ l.age \in -6 .. 0 /\ (l.age = 0 => l.end > minute)}
    IN  page = "student" /\ outdated = {} => \A view \in {StudentDetail} : view.is = "shown" =>
        /\ Plate = NO_DATA /\ Complete(StudentReads) => ahead = {}
        /\ Plate # NO_DATA => \E l \in academy.lessons : l.id = Plate /\ l.class \in mine /\ l.status = "scheduled"
        /\ Complete(StudentReads) => \A l \in ahead : \E w \in view.schedule.week : w.id = l.id
        /\ \A w \in view.schedule.week : w.badge = "live" => Plate # NO_DATA

FiguresHold ==
    page \in DOMAIN FigureSources =>
        TeachersSeeTheirOwn /\ SeatsAreCounted /\ RostersAreComplete /\ TeachersAreCounted /\ StudentsWeekIsWhole
=============================================================================
