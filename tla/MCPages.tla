------------------------------ MODULE MCPages ------------------------------
(***************************************************************************)
(* The pages of derived figures, for TLC: in each behaviour one is open.   *)
(***************************************************************************)
EXTENDS Desk, Figures

-----------------------------------------------------------------------------
Student(id, status, overdue, balance, since, instrument) ==
    [id |-> id, status |-> status, overdue |-> overdue, balance |-> balance, since |-> since,
     instrument |-> instrument, rated |-> TRUE]
Lesson(id, age, status, room, from, till, class, teacher) ==
    [id |-> id, age |-> age, status |-> status, room |-> room, start |-> from, end |-> till,
     class |-> class, teacher |-> teacher]
Class(id, teacher, enrolled, capacity, waitlist, archived, room, days) ==
    [id |-> id, teacher |-> teacher, enrolled |-> enrolled, capacity |-> capacity, waitlist |-> waitlist,
     archived |-> archived, room |-> room, days |-> days, level |-> NO_DATA]
Seat(id, student, class, status, from, till) ==
    [id |-> id, student |-> student, class |-> class, status |-> status, from |-> from, till |-> till]

Busy == [students |-> {Student(1, "active", FALSE, 0, 1, "piano"), Student(2, "at-risk", TRUE, 5, 2, "piano"),
                       Student(3, "inactive", FALSE, 3, 2, "oud")},
         classes |-> {Class("c1", "t1", 2, 2, 1, FALSE, "r1", {0, 2}), Class("c2", "t1", 0, 3, 0, FALSE, "r2", {2}),
                      Class("c3", "t2", 1, 1, 0, TRUE, "r1", {0})},
         rooms |-> {"r1"}, teachers |-> {"t1"},
         lessons |-> {Lesson(1, 0, "scheduled", "r1", 2, 4, "c1", "t1"), Lesson(2, 0, "completed", "r1", 1, 3, "c2", "t1"),
                      Lesson(3, 0, "scheduled", "r2", 3, 4, "c2", "t1"), Lesson(4, 0, "cancelled", "r2", 3, 4, "c1", "t1"),
                      Lesson(5, 3, "cancelled", "r1", 1, 2, "c1", "t1"), Lesson(6, 8, "completed", "r1", 1, 2, "c1", "t1")},
         enrollments |-> {Seat(1, 1, "c1", "active", 90, NO_DATA), Seat(2, 2, "c1", "active", 90, NO_DATA),
                          Seat(3, 3, "c1", "waitlist", 90, NO_DATA), Seat(4, 3, "c3", "active", 90, NO_DATA)}]
Quiet == [Busy EXCEPT !.students = {Student(1, "active", FALSE, 0, 1, "piano")},
             !.lessons = {Lesson(1, 0, "scheduled", "r1", 2, 4, "c1", "t1")},
             !.classes = {Class("c2", "t1", 0, 3, 0, FALSE, "r2", {2})}, !.enrollments = {}]

(* A teacher with two classes: yesterday's register is not taken.          *)
Task(student, piece, status, overdue) == [id |-> student * 10, student |-> student, piece |-> piece, status |-> status, overdue |-> overdue]
Event(id, student, piece, age, insight) == [id |-> id, student |-> student, piece |-> piece, age |-> age, insight |-> insight]
Mark(id, session, student, status, age) == [id |-> id, session |-> session, student |-> student, status |-> status, age |-> age]
Due == [students |-> {Student(i, "active", FALSE, 0, 1, "piano") : i \in 1 .. 3},
        classes |-> {Class("c1", "t1", 2, 2, 0, FALSE, "r1", {0}), Class("c2", "t1", 0, 2, 0, FALSE, "r1", {1}),
                     Class("c3", "t2", 1, 2, 0, FALSE, "r2", {0})},
        lessons |-> {Lesson(1, 0, "scheduled", "r1", 1, 2, "c1", "t1"), Lesson(2, 1, "completed", "r1", 1, 2, "c1", "t1"),
                     Lesson(3, 0, "scheduled", "r1", 3, 4, "c2", "t1"), Lesson(4, 1, "scheduled", "r2", 1, 2, "c3", "t2")},
        enrollments |-> {Seat(1, 1, "c1", "active", 9, NO_DATA), Seat(2, 2, "c1", "active", 0, NO_DATA),
                         Seat(3, 3, "c3", "active", 9, 2)},
        marks |-> {}, assignments |-> {Task(1, "p1", "learning", TRUE), Task(2, "p1", "paused", FALSE), Task(3, "p1", "planned", FALSE)},
        events |-> {Event(1, 1, "p1", 40, "slowing"), Event(2, 1, "p1", 3, "regression"), Event(3, 3, "p1", 35, "slowing")}]
(* The register was taken, a student left.                                 *)
Taken == [Due EXCEPT !.marks = {Mark(1, 2, 1, "absent", 0), Mark(2, 1, 1, "absent", 0)},
             !.enrollments = {Seat(1, 1, "c1", "active", 9, NO_DATA), Seat(3, 3, "c3", "active", 9, 2)},
             !.assignments = {Task(3, "p1", "planned", FALSE)}]
(* More enrollments than a page holds.                                     *)
Crowded == [Due EXCEPT !.enrollments = @ \union {Seat(4, 3, "c2", "active", 9, NO_DATA)}, !.events = {}]

(* Two teachers, one of them away tomorrow; a student of an archived       *)
(* class; a lesson of every day from yesterday to tomorrow.                *)
Pupil(id, teacher) == [id |-> id, status |-> "active", teacher |-> teacher]
Tutor(id, status, utilization) == [id |-> id, status |-> status, utilization |-> utilization]
Joined == [students |-> {Pupil(1, "t1"), Pupil(2, "t2"), Pupil(3, "t1")},
           teachers |-> {Tutor("t1", "active", 50), Tutor("t2", "absent-tomorrow", 80)}, rooms |-> {[id |-> "r1"]},
           classes |-> {Class("c1", "t1", 2, 2, 1, FALSE, "r1", {0}), Class("c2", "t2", 0, 2, 0, FALSE, "r1", {1}),
                        Class("c3", "t1", 1, 2, 0, TRUE, "r1", {0})},
           lessons |-> {Lesson(1, 1, "completed", "r1", 1, 2, "c1", "t1"), Lesson(2, 0, "scheduled", "r1", 1, 2, "c1", "t1"),
                        Lesson(3, -1, "scheduled", "r1", 1, 2, "c2", "t2"), Lesson(4, 0, "cancelled", "r1", 3, 4, "c1", "t1")},
           enrollments |-> {Seat(1, 1, "c1", "active", 9, NO_DATA), Seat(2, 3, "c3", "active", 9, NO_DATA),
                            Seat(3, 2, "c1", "waitlist", 9, NO_DATA)},
           marks |-> {Mark(1, 1, 1, "present", 1)}]
(* A seat moved to the other teacher's class, a student and a class left.  *)
Moved == [Joined EXCEPT !.enrollments = {Seat(1, 1, "c2", "active", 9, NO_DATA), Seat(3, 2, "c1", "active", 9, NO_DATA)},
             !.students = {Pupil(1, "t2"), Pupil(2, "t2")}, !.classes = {c \in @ : c.id # "c3"}, !.teachers = {Tutor("t1", "active", 50)}]
(* More enrollments than a page holds.                                     *)
Overfull == [Joined EXCEPT !.enrollments = {Seat(i, i, "c1", "active", 9, NO_DATA) : i \in 1 .. 4}]

MCStores == [dashboard |-> {Busy, Quiet}, desk |-> {Due, Taken, Crowded}]
            @@ [p \in DOMAIN FigureSources |-> {Joined, Moved, Overfull}]
MCWeek == -1 .. 1
MCSubject == [students |-> 1, student |-> 1, class |-> "c1", teacher |-> "t1"]
MCRanges == {[from |-> 90, to |-> 0], [from |-> 6, to |-> 1]}
MCPerPage == [enrollments |-> 3]

-----------------------------------------------------------------------------
(* The stores a page may start from.                                       *)
Opening == [dashboard |-> Busy, desk |-> Due] @@ [p \in DOMAIN FigureSources |-> Joined]
PagesInit == (DashInit \/ DeskInit \/ FiguresInit) /\ academy = Opening[page]
PagesNext == ReadsNext \/ DashNext \/ DeskNext \/ FiguresNext
=============================================================================
