-------------------------------- MODULE Desk --------------------------------
(***************************************************************************)
(* A teacher's desk (src/views/teacher/TeacherDashboard.tsx over           *)
(* useTeacherDesk.ts and teacherDesk.ts): the teacher's own slice of the   *)
(* academy, the registers that are due, the students and the signals of    *)
(* their practice, each from reads that may be short of their total.       *)
(***************************************************************************)
EXTENDS Dashboard, Scope

CONSTANTS
    Viewer,       \* the teacher of the signed-in account, or Unlinked
    Permitted     \* the permissions of its role

REGISTER_DUE_LIMIT == 4
REGISTER_LOOKBACK_DAYS == 6
ABSENCE_SIGNAL_MIN == 2
RecentWindowDays == 30
ActiveStatuses == {"planned", "learning", "polishing"}

ScopeSources == {"sessions", "classes", "enrollments", "students"}
DeskSources == ScopeSources \union {"marks", "assignments", "events"}

(* What a read asks for.                                                   *)
DeskRows(s) ==
    CASE s = "sessions" -> {l \in academy.lessons : l.teacher = Viewer /\ l.age \in 0 .. REGISTER_LOOKBACK_DAYS}
      [] s = "classes" -> {c \in academy.classes : c.teacher = Viewer /\ ~c.archived}
      [] s = "marks" -> {m \in academy.marks : m.age \in 0 .. REGISTER_LOOKBACK_DAYS}
      [] s = "assignments" -> {a \in academy.assignments : a.status \in ActiveStatuses}
      [] OTHER -> academy[s]
Items(s) == read[s].rows
Whole(s) == IsRead(s) /\ Complete({s})

-----------------------------------------------------------------------------
(* The teacher's slice                                                     *)

DeskActor == [role |-> "teacher", permissions |-> Permitted, teacher |-> Viewer]

MyClasses == {c \in Items("classes") : c.teacher = Viewer}
resolveTeacherScope ==
    IF Viewer = Unlinked THEN [resolved |-> FALSE, students |-> {}, enrollments |-> {}]
    ELSE [resolved |-> TRUE,
          students |-> assignedStudentIdsForTeacher(Viewer, MyClasses, Items("enrollments")),
          enrollments |-> {e \in Items("enrollments") : e.status = "active" /\ \E c \in MyClasses : c.id = e.class}]

coversDate(e, age) == e.from >= age /\ (e.till # NO_DATA => e.till <= age)
(* The register of a lesson: active enrollments of its class that cover    *)
(* its day, of students that still exist.                                  *)
resolveSessionRoster(class, age, enrollments, students) ==
    {s \in {r.id : r \in students} :
        \E e \in enrollments : e.class = class /\ e.status = "active" /\ coversDate(e, age) /\ e.student = s}

rosterEvidence == IsRead("classes") /\ Whole("enrollments") /\ Whole("students")
marksEvidenceMutant == Complete({"marks"}) /\ read["marks"].error = "none"
marksEvidence == Whole("marks")
progressEvidence == Whole("assignments") /\ Whole("events")
dayReady == IsRead("sessions") /\ IsRead("classes")
DeskLoading == \E s \in ScopeSources : read[s].loading
DeskError == \E s \in ScopeSources : read[s].error # "none"

-----------------------------------------------------------------------------
(* The day and its registers                                               *)

windowSessions == {l \in Items("sessions") : l.teacher = Viewer}
PastByClock(l, now) == l.status # "cancelled" /\ (l.age > 0 \/ (l.age = 0 /\ l.end <= now))
Roster(l) ==
    IF ~rosterEvidence \/ l.class \notin {c.id : c \in MyClasses} THEN NO_DATA
    ELSE resolveSessionRoster(l.class, l.age, resolveTeacherScope.enrollments, Items("students"))
MarksOf(l) == IF marksEvidence THEN Cardinality({m \in Items("marks") : m.session = l.id}) ELSE NO_DATA
RegisterDue(l) == PastByClock(l, minute) /\ MarksOf(l) = 0 /\ Roster(l) \notin {NO_DATA, {}}
RegisterNote(l) ==
    CASE l.status = "cancelled" -> "cancelled"
      [] MarksOf(l) = NO_DATA -> "register not read"
      [] MarksOf(l) > 0 -> "taken"
      [] ~PastByClock(l, minute) -> "ahead"
      [] Roster(l) = NO_DATA -> "roster not read"
      [] Roster(l) = {} -> "nobody"
      [] OTHER -> "not taken"
buildTeacherDay ==
    LET due == {l \in windowSessions : RegisterDue(l)}
        today == {l \in windowSessions : l.age = 0}
        held == today \ CalledOff(today)
        newer(a, b) == a.age < b.age \/ (a.age = b.age /\ a.id > b.id)
    IN  [today |-> today,
         due |-> {l \in due : Cardinality({o \in due : newer(o, l)}) < REGISTER_DUE_LIMIT},
         dueTotal |-> Cardinality(due),
         todayStudentCount |-> IF \E l \in held : Roster(l) = NO_DATA THEN NO_DATA
                               ELSE Cardinality(UNION {Roster(l) : l \in held})]
teacherMayTakeRegister(l) ==
    \E s \in Roster(l) : canWriteAttendance(DeskActor, s, l, Items("classes"), Items("enrollments"))
writableSessionIds ==
    IF Viewer = Unlinked \/ ~dayReady THEN {}
    ELSE {l.id : l \in {k \in windowSessions : RegisterDue(k) /\ teacherMayTakeRegister(k)}}

teacherDayPulse ==
    LET today == IF dayReady THEN buildTeacherDay.today ELSE {}
        pairs == conflictPairs(today)
    IN  [live |-> Cardinality({l \in today : l.status # "cancelled" /\ InProgress(l, minute)}),
         conflicts |-> Cardinality(pairs), clashIds |-> {l.id : l \in UNION pairs}]
DeskFlow == IF read["sessions"].error = "none" THEN deriveFlowRows(windowSessions, minute) ELSE Unread
(* The lesson of the plate: the one that runs, or the next.                *)
focusRow ==
    LET of(status) == IF DeskFlow = Unread THEN {} ELSE {i \in DOMAIN DeskFlow.rows : DeskFlow.rows[i].status = status}
    IN  IF of("live") # {} THEN DeskFlow.rows[Min(of("live"))].id
        ELSE IF of("next") # {} THEN DeskFlow.rows[Min(of("next"))].id ELSE NO_DATA

-----------------------------------------------------------------------------
(* Students, signals and lessons                                           *)

absencesByStudent(s) ==
    IF ~marksEvidence THEN 0
    ELSE Cardinality({m \in Items("marks") : m.status = "absent" /\ m.student = s /\ \E l \in windowSessions : l.id = m.session})
EventsAbout(a) == {e \in Items("events") : e.student = a.student /\ e.piece = a.piece}
(* The classification of a piece (Repertoire) says what its newest event   *)
(* made of it.                                                             *)
Insight(events) == IF events = {} THEN "no_data" ELSE (CHOOSE e \in events : \A o \in events : e.age <= o.age).insight
SignalsOf(a) ==
    LET events == EventsAbout(a)
        insight == Insight(events)
    IN  IF insight = "regression" THEN {"regression"}
        ELSE {k \in {insight} : k \in {"possible_plateau", "slowing"}}
             \union {k \in {"target_passed"} : a.overdue}
             \union {k \in {"no_evidence"} : \A e \in events : e.age > RecentWindowDays}
buildTeachingSignals ==
    LET mine == {a \in Items("assignments") : a.student \in resolveTeacherScope.students}
        quiet == resolveTeacherScope.students \ {a.student : a \in mine}
        missed == {s \in resolveTeacherScope.students : absencesByStudent(s) >= ABSENCE_SIGNAL_MIN}
    IN  UNION {{[kind |-> k, student |-> a.student, piece |-> a.piece] : k \in SignalsOf(a)} : a \in mine}
        \union {[kind |-> "no_assignment", student |-> s, piece |-> NO_DATA] : s \in quiet}
        \union {[kind |-> "absence", student |-> s, piece |-> NO_DATA] : s \in missed}
buildDeskStudents ==
    {[id |-> s.id, absences |-> absencesByStudent(s.id),
      pieces |-> {[piece |-> a.piece, overdue |-> a.overdue, progress |-> Insight(EventsAbout(a))] :
                     a \in {b \in Items("assignments") : b.student = s.id}}] :
        s \in {r \in Items("students") : r.id \in resolveTeacherScope.students}}
buildLessonFocus == {[class |-> c.id, level |-> c.level] : c \in MyClasses}
groupRepertoire ==
    [p \in UNION {{l.piece : l \in s.pieces} : s \in buildDeskStudents} |->
        {s.id : s \in {d \in buildDeskStudents : \E l \in d.pieces : l.piece = p}}]

-----------------------------------------------------------------------------
(* What the desk shows                                                     *)

Tiles ==
    [today |-> IF DeskFlow # Unread /\ ~DeskLoading THEN DeskFlow.total - DeskFlow.cancelled ELSE NO_DATA,
     students |-> IF dayReady THEN buildTeacherDay.todayStudentCount ELSE NO_DATA,
     due |-> IF rosterEvidence /\ marksEvidence /\ dayReady THEN buildTeacherDay.dueTotal ELSE NO_DATA]
(* The queue lists nothing while it says what was not read.                *)
RegisterDuePanel ==
    IF DeskLoading \/ ~marksEvidence \/ ~rosterEvidence \/ ~dayReady THEN {} ELSE buildTeacherDay.due
(* The button of a lesson's footer, in the queue and in the timeline.      *)
RegisterFooter(l) ==
    IF ~dayReady THEN "none" ELSE IF RegisterDue(l) THEN (IF l.id \in writableSessionIds THEN "take" ELSE "no access")
    ELSE RegisterNote(l)
TeacherDayTimeline ==
    IF DeskFlow = Unread THEN "calendar not read"
    ELSE [i \in DOMAIN DeskFlow.rows |->
             [id |-> DeskFlow.rows[i].id, status |-> DeskFlow.rows[i].status,
              footer |-> RegisterFooter(CHOOSE l \in windowSessions : l.id = DeskFlow.rows[i].id)]]
NextClassPlate ==
    IF DeskFlow = Unread THEN "calendar not read"
    ELSE IF focusRow = NO_DATA THEN "no lesson ahead"
    ELSE [lesson |-> focusRow, footer |-> RegisterFooter(CHOOSE l \in windowSessions : l.id = focusRow)]
TeacherAttentionList ==
    IF DeskLoading THEN "reading" ELSE IF ~progressEvidence THEN "progress not read" ELSE buildTeachingSignals
MyStudentsRoster == IF read["students"].loading THEN "reading" ELSE buildDeskStudents
RepertoireBoard == groupRepertoire
LessonFocusPanel ==
    [lessons |-> buildLessonFocus,
     today |-> IF dayReady THEN {l.class : l \in buildTeacherDay.today \ CalledOff(buildTeacherDay.today)} ELSE {}]
(* An account without a teacher is shown nothing of the academy.           *)
TeacherDashboard ==
    IF ~resolveTeacherScope.resolved THEN "no teacher"
    ELSE [day |-> teacherDayPulse, tiles |-> Tiles, plate |-> NextClassPlate, registers |-> RegisterDuePanel, timeline |-> TeacherDayTimeline,
          attention |-> TeacherAttentionList, students |-> MyStudentsRoster, lessons |-> LessonFocusPanel,
          repertoire |-> RepertoireBoard]

DeskInit == ReadsInit("desk", DeskSources)
reloadAll == /\ DeskError /\ PageTurn /\ ReadAgain(DOMAIN read)
             /\ UNCHANGED <<academy, page, range, minute, outdated, faults>>
DeskNext == page = "desk" /\ (reloadAll \/ \E s \in DeskSources : AnswerRead(s, DeskRows(s)))

-----------------------------------------------------------------------------
(* The slice of the stored academy that is this teacher's.                 *)
Taught(s) == isAssignedStudent(Viewer, s, academy.classes, academy.enrollments)
ExpectedAt(l) == resolveSessionRoster(l.class, l.age, academy.enrollments, academy.students)
Unmarked(l) == ~\E m \in academy.marks : m.session = l.id

(* A register the desk calls due, in queue, timeline or plate, is one:     *)
(* past by the clock, without a mark, with students expected.  A register  *)
(* this window has just taken is never offered again, whichever reads have *)
(* come back since ("saying 'not taken' would be a claim about a record    *)
(* nobody read"); only another client's write can outdate it.              *)
DueRegistersAreDue ==
    dayReady /\ outdated \intersect (ScopeSources \union {"marks"}) = {} =>
        \A l \in windowSessions : l \in RegisterDuePanel \/ RegisterFooter(l) \in {"take", "no access"} =>
            l \in academy.lessons /\ PastByClock(l, minute) /\ Unmarked(l) /\ ExpectedAt(l) # {}

(* The queue is complete when it says so, and a figure is silent rather    *)
(* than wrong, even zero; who is said to practise nothing does.            *)
MissingRegisters ==
    {l \in academy.lessons : /\ l.teacher = Viewer /\ l.age \in 0 .. REGISTER_LOOKBACK_DAYS
                            /\ \E c \in academy.classes : c.id = l.class /\ ~c.archived /\ c.teacher = Viewer
                            /\ PastByClock(l, minute) /\ Unmarked(l) /\ ExpectedAt(l) # {}}
HeldToday == {l \in academy.lessons : l.teacher = Viewer /\ l.age = 0 /\ l.status # "cancelled"}
Unpractised(s) == Taught(s) /\ ~\E a \in academy.assignments : a.student = s /\ a.status \in ActiveStatuses
FiguresAreSilentOrTrue ==
    outdated = {} =>
        /\ Tiles.today \in {NO_DATA, Cardinality(HeldToday)}
        /\ Tiles.due \in {NO_DATA, Cardinality(MissingRegisters)}
        /\ Tiles.students \in {NO_DATA, Cardinality(UNION {ExpectedAt(l) : l \in HeldToday})}
        /\ ~DeskLoading /\ progressEvidence /\ ~DeskError =>
              LET said == {g.student : g \in {h \in TeacherAttentionList : h.kind = "no_assignment"}}
              IN  /\ \A s \in said : Unpractised(s)
                  /\ rosterEvidence => \A r \in academy.students : Unpractised(r.id) => r.id \in said

(* Nobody else's student is on the desk, and no other register is offered. *)
DeskKeepsToItsTeacher ==
    /\ Current({"classes", "enrollments"}) =>
          \A s \in {d.id : d \in buildDeskStudents} \union {g.student : g \in buildTeachingSignals} : Taught(s)
    /\ Current({"sessions", "classes", "enrollments"}) =>
          \A i \in writableSessionIds : \E l \in academy.lessons :
              l.id = i /\ l.teacher = Viewer /\ \E s \in ExpectedAt(l) : Taught(s)

(* Two panels do not contradict each other: the plate names a lesson of    *)
(* today that is not over, its clash is in the pulse; who is listed for    *)
(* absence or regression carries them in the roster and on the board.      *)
PanelsAgree ==
    LET roster == MyStudentsRoster
        rows == IF DeskFlow = Unread THEN {} ELSE ToSet(TeacherDayTimeline)
        listed == {g \in buildTeachingSignals : g.kind \in {"absence", "regression"}}
    IN  /\ focusRow # NO_DATA =>
              \E l \in windowSessions : l.id = focusRow /\ l.age = 0 /\ l.status # "cancelled" /\ l.end > minute
        /\ dayReady => \A r \in rows : r.status = "attention" => r.id \in teacherDayPulse.clashIds
        /\ ~read["students"].loading =>
              \A g \in listed : \A s \in roster : s.id = g.student =>
                  IF g.kind = "absence" THEN s.absences >= ABSENCE_SIGNAL_MIN ELSE s.id \in RepertoireBoard[g.piece]

DeskHolds == page = "desk" => DueRegistersAreDue /\ FiguresAreSilentOrTrue /\ DeskKeepsToItsTeacher /\ PanelsAgree
=============================================================================
