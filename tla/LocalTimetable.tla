---------------------------- MODULE LocalTimetable ----------------------------
(***************************************************************************)
(* The demonstration's timetable: sessions, their generation from a        *)
(* class's recurrence, attendance and make-up obligations, kept in the     *)
(* browser.  A page runs a repository method up to its next await alone;   *)
(* methods that were started together interleave at their awaits, and what *)
(* one read before an await it uses after it.                              *)
(*                                                                         *)
(* Sources: scheduling, attendance and compensation localRepository.ts,    *)
(* generation.ts, conflicts.ts, derive.ts.  Left out: warnings, reasons,   *)
(* notes, durations, working hours, closed days; an actor without          *)
(* schedule.write and a refused call change nothing.  One student.         *)
(***************************************************************************)
EXTENDS Integers, Sequences, FiniteSets

CONSTANTS Courses,     \* classes
          NoLesson,    \* no session
          Drawn,       \* ids that the store draws for sessions booked by hand
          Asked,       \* slots a person may ask for: day, hours, room, teacher
          Weekly,      \* by class, its possible recurrences: hours, room, teacher
          Owed,        \* sessions that were cancelled and may be owed
          Today,       \* the day of the clock
          Tasks,       \* repository methods running in the page
          MaxMethods,  \* bound on the methods that are called
          MAX_MOVES,   \* ATTEMPT_LINEAGE_MAX_MOVES
          MakeupCap    \* maxMakeupsPerTerm

VARIABLES lessons,   \* scheduledSessions, by id
          course,    \* classes
          marked,    \* sessions with an attendance record
          debts,     \* sessionCompensations, by original
          section,   \* BOOKING_SECTIONS: the tasks queued for an obligation
          task,      \* what each running method remembers over its await
          madeFor,   \* history: the obligation a session was booked for
          begun,     \* how many methods were called
          split      \* history: obligations whose make-up a move went on from after it had
                     \* been moved, cancelled or deleted since the move read it

timetableState == <<lessons, course, marked, debts, section, task, madeFor, split>>
timetableVars == <<timetableState, begun>>

Days == {s.day : s \in Asked}
On(day, plan) == [day |-> day, from |-> plan.from, till |-> plan.till,
                  room |-> plan.room, teacher |-> plan.teacher]
Plans == UNION {Weekly[c] : c \in Courses}
Times == Asked \cup {On(d, p) : d \in Days, p \in Plans}

(* Content-derived, so generating twice meets the same ids.                *)
deterministicSessionId(c, s) == <<c, s.day, s.from>>
Lessons == Drawn \cup {deterministicSessionId(c, s) : c \in Courses, s \in Times}

(* A session booked by hand never has the id of a generated one.           *)
ASSUME TimetableAssumption ==
    /\ Owed \subseteq Drawn /\ NoLesson \notin Lessons \cup Owed
    /\ \A c \in Courses, s \in Times : deterministicSessionId(c, s) \notin Drawn
    /\ IsFiniteSet(Owed) /\ Today \in Int /\ MaxMethods \in Nat /\ MAX_MOVES \in Nat /\ MakeupCap \in Nat
    /\ \A s \in Times : s.from < s.till /\ s.day \in Int

Row == [class : Courses, at : Times, status : {"scheduled", "cancelled"},
        origin : {"manual", "generated"}, from : Lessons \cup {NoLesson}, to : Lessons \cup {NoLesson}]
Unborn == [status |-> "unborn"]
Removed == [status |-> "removed"]
Stored(i) == lessons[i].status \in {"scheduled", "cancelled"}
Takes(i) == lessons[i].status = "scheduled"
assertPairFree(o) == debts[o].status = "none"
Manual(c, s, status, from) == [class |-> c, at |-> s, status |-> status, origin |-> "manual",
                               from |-> from, to |-> NoLesson]

Rest == [op |-> "rest", id |-> NoLesson, at |-> NoLesson, seen |-> <<>>]
Remembers(op, i, s, seen) == [op |-> op, id |-> i, at |-> s, seen |-> seen]
Resting(t) == task[t] = Rest
Starts(t) == Resting(t) /\ t = CHOOSE u \in Tasks : Resting(u)   \* names of tasks do not matter
Then(t, what) == task' = [task EXCEPT ![t] = what]
Ends(t) == Then(t, Rest)

TimetableTypeOK ==
    /\ \A i \in Lessons : lessons[i] \in Row \/ lessons[i] \in {Unborn, Removed}
    /\ course \in [Courses -> [status : {"active", "archived"}, plan : Plans]]
    /\ marked \subseteq Lessons
    /\ \A o \in Owed : /\ debts[o].status \in {"none", "open", "completed"}
                       /\ debts[o].class \in IF assertPairFree(o) THEN {NoLesson} ELSE Courses
                       /\ \A n \in DOMAIN debts[o].attempts : debts[o].attempts[n] \in Lessons
    /\ \A t \in Tasks : task[t].op \in {"rest", "move", "register", "schedule", "append", "complete"}
    /\ \A o \in Owed : \A n \in DOMAIN section[o] : section[o][n] \in Tasks
    /\ madeFor \in [Lessons -> Owed \cup {NoLesson}] /\ split \subseteq Owed /\ begun \in 0..MaxMethods

TimetableInit ==
    /\ \E plan \in [Courses -> Plans] :
           /\ \A c \in Courses : plan[c] \in Weekly[c]
           /\ course = [c \in Courses |-> [status |-> "active", plan |-> plan[c]]]
    /\ \E c \in Courses, s \in Asked :
           lessons = [i \in Lessons |-> IF i \in Owed THEN Manual(c, s, "cancelled", NoLesson) ELSE Unborn]
    /\ marked = {} /\ split = {}
    /\ debts = [o \in Owed |-> [status |-> "none", class |-> NoLesson, attempts |-> <<>>]]
    /\ section = [o \in Owed |-> <<>>]
    /\ task = [t \in Tasks |-> Rest]
    /\ madeFor = [i \in Lessons |-> NoLesson] /\ begun = 0

-----------------------------------------------------------------------------
(* detectConflicts: the hard conflicts of a session that takes place.      *)
overlaps(a, b) == a.day = b.day /\ a.from < b.till /\ b.from < a.till
Collide(a, b) == overlaps(a, b) /\ (a.room = b.room \/ a.teacher = b.teacher)
detectConflictsMutant(self, c, s) ==
    \/ course[c].status = "archived"
    \/ \E i \in Lessons \ {self} : Takes(i) /\ overlaps(lessons[i].at, s) /\ lessons[i].at.room = s.room
detectConflicts(self, c, s) ==
    \/ course[c].status = "archived"
    \/ \E i \in Lessons \ {self} : Takes(i) /\ Collide(lessons[i].at, s)

(* The methods.  create runs to its end; the others await get first.       *)
Fresh == CHOOSE i \in Drawn : lessons[i] = Unborn
CanDraw == \E i \in Drawn : lessons[i] = Unborn
Books(i, c, s, status) == /\ ~detectConflicts(NoLesson, c, s)
                          /\ lessons' = [lessons EXCEPT ![i] = Manual(c, s, status, NoLesson)]

CreateSession ==
    /\ CanDraw
    /\ \E c \in Courses, s \in Asked, status \in {"scheduled", "cancelled"} : Books(Fresh, c, s, status)
    /\ UNCHANGED <<course, marked, debts, section, task, madeFor, split>>

hasAttendance(i) == i \in marked

(* update, cancelSession and delete also await get, but use nothing of what *)
(* they read that can change meanwhile: each is one step.  A person gives  *)
(* day, hours, room and teacher together, as the dialog does.              *)
UpdateSession(i) ==
    /\ Stored(i) /\ ~hasAttendance(i)
    /\ \E s \in Asked : /\ ~detectConflicts(i, lessons[i].class, s)
                        /\ lessons' = [lessons EXCEPT ![i].at = s, ![i].origin = "manual"]
    /\ UNCHANGED <<course, marked, debts, section, task, madeFor, split>>

CancelSession(i) ==
    /\ Takes(i) /\ lessons' = [lessons EXCEPT ![i].status = "cancelled"]
    /\ UNCHANGED <<course, marked, debts, section, task, madeFor, split>>

DeleteSession(i) ==
    /\ Stored(i) /\ ~hasAttendance(i)
    /\ lessons' = [lessons EXCEPT ![i] = Removed]
    /\ UNCHANGED <<course, marked, debts, section, task, madeFor, split>>

(* rescheduleSession: a replacement, then the cancelled original.  Status  *)
(* and class are those that get read, before the await: a session that was *)
(* deleted meanwhile is replaced too, and only its own write is lost.      *)
GetSession(t, i) ==
    /\ Starts(t) /\ Takes(i)
    /\ \E s \in Asked : Then(t, Remembers("move", i, s, lessons[i].class))
    /\ UNCHANGED <<lessons, course, marked, debts, section, madeFor, split>>

Replaces(i, j, r) ==
    LET beside == [lessons EXCEPT ![j] = r]
    IN lessons' = IF Stored(i) THEN [beside EXCEPT ![i].status = "cancelled", ![i].to = j] ELSE beside

Did(t, op) == task[t].op = op
RescheduleSession(t) ==
    LET i == task[t].id
        j == Fresh
    IN /\ Did(t, "move") /\ Ends(t) /\ CanDraw
       /\ IF ~hasAttendance(i) /\ ~detectConflicts(i, task[t].seen, task[t].at)
          THEN /\ Replaces(i, j, Manual(task[t].seen, task[t].at, "scheduled", i))
               /\ madeFor' = [madeFor EXCEPT ![j] = madeFor[i]]
               /\ split' = IF Takes(i) THEN split ELSE split \cup ({madeFor[i]} \ {NoLesson})
          ELSE UNCHANGED <<lessons, madeFor, split>>
       /\ UNCHANGED <<course, marked, debts, section>>

(* record and bulkRecord: a cancelled session takes no mark.               *)
RecordAttendance ==
    /\ \E i \in Lessons : Takes(i) /\ ~hasAttendance(i) /\ marked' = marked \cup {i}
    /\ UNCHANGED <<lessons, course, debts, section, task, madeFor, split>>

-----------------------------------------------------------------------------
(* planGeneration and generateSessions, with no await between them.        *)
Slots(c, days) == {On(d, course[c].plan) : d \in days}
Creates(c, days) == {s \in Slots(c, days) : ~Stored(deterministicSessionId(c, s))}

(* SKIP_CANCELLED, SKIP_PROTECTED, SKIP_PAST, SKIP_MANUAL, SKIP_UNCHANGED   *)
Updates(c, days) ==
    {s \in Slots(c, days) : LET i == deterministicSessionId(c, s)
                            IN /\ Takes(i) /\ ~hasAttendance(i) /\ s.day >= Today
                               /\ lessons[i].origin = "generated" /\ lessons[i].at # s}

(* A batch is checked against itself and against the other classes only.   *)
evaluatePlanConflicts(c, batch) ==
    \/ course[c].status = "archived"
    \/ \E s \in batch : \/ \E r \in batch \ {s} : Collide(r, s)
                        \/ \E i \in Lessons : /\ Takes(i) /\ lessons[i].class # c
                                              /\ Collide(lessons[i].at, s)

GenerateSessions ==
    /\ \E c \in Courses, days \in SUBSET Days, confirmUpdates \in BOOLEAN :
           LET creates == Creates(c, days)
               updates == IF confirmUpdates THEN Updates(c, days) ELSE {}
               Id(s) == deterministicSessionId(c, s)
           IN /\ ~evaluatePlanConflicts(c, creates \cup Updates(c, days))
              /\ creates \cup updates # {}
              /\ lessons' = [i \in Lessons |->
                    IF \E s \in creates : i = Id(s)
                    THEN [Manual(c, CHOOSE s \in creates : i = Id(s), "scheduled", NoLesson)
                            EXCEPT !.origin = "generated"]
                    ELSE IF \E s \in updates : i = Id(s)
                    THEN [lessons[i] EXCEPT !.at = CHOOSE s \in updates : i = Id(s)]
                    ELSE lessons[i]]
    /\ UNCHANGED <<course, marked, debts, section, task, madeFor, split>>

EditCourse ==
    /\ \E c \in Courses, plan \in Plans, status \in {"active", "archived"} :
           plan \in Weekly[c] /\ course' = [course EXCEPT ![c] = [status |-> status, plan |-> plan]]
    /\ course' # course
    /\ UNCHANGED <<lessons, marked, debts, section, task, madeFor, split>>

-----------------------------------------------------------------------------
(* attemptLineageOf: a forward link decides; a session that is gone, or     *)
(* cancelled without one, is followed by the session that replaced it.     *)
Onward(i) == IF Stored(i) /\ lessons[i].to # NoLesson THEN {lessons[i].to}
             ELSE IF Takes(i) THEN {}
             ELSE {j \in Lessons : Stored(j) /\ lessons[j].from = i}
attemptLineageOf[n \in 0..MAX_MOVES] == [i \in Lessons |->
    IF Onward(i) = {} THEN (IF Stored(i) THEN lessons[i].status ELSE "missing")
    ELSE IF n = MAX_MOVES THEN "missing"
    ELSE attemptLineageOf[n + 1][CHOOSE j \in Onward(i) : TRUE]]

attemptIsLive(o) ==
    LET attempts == debts[o].attempts
    IN attempts # <<>> /\ attemptLineageOf[0][attempts[Len(attempts)]] \notin {"missing", "cancelled"}

assertWithinMakeupCap == Cardinality({o \in Owed : debts[o].status # "none"}) < MakeupCap

(* register: the pair and the cap before the roster and the mark are read, *)
(* and again before the write, of the class the original was read with.    *)
RegisterDebt(t) ==
    /\ Starts(t)
    /\ \E o \in Owed : /\ lessons[o].status = "cancelled"
                       /\ assertPairFree(o) /\ assertWithinMakeupCap
                       /\ Then(t, Remembers("register", o, NoLesson, lessons[o].class))
    /\ UNCHANGED <<lessons, course, marked, debts, section, madeFor, split>>

Registered(t) ==
    /\ Did(t, "register") /\ Ends(t)
    /\ debts' = IF assertPairFree(task[t].id) /\ assertWithinMakeupCap
                THEN [debts EXCEPT ![task[t].id] =
                        [status |-> "open", class |-> task[t].seen, attempts |-> <<>>]]
                ELSE debts
    /\ UNCHANGED <<lessons, course, marked, section, madeFor, split>>

(* serializeBooking: one task of an obligation at a time, first come first. *)
serializeBooking(t, op, s) ==
    /\ Starts(t)
    /\ \E o \in Owed : /\ debts[o].status # "none"
                       /\ Then(t, Remembers(op, o, s, <<>>))
                       /\ section' = [section EXCEPT ![o] = Append(@, t)]
    /\ UNCHANGED <<lessons, course, marked, debts, madeFor, split>>

InSection(t) == Head(section[task[t].id]) = t
Leave(t) == section' = [section EXCEPT ![task[t].id] = Tail(@)]

(* schedule up to the await of create, whose write is already done: in the *)
(* class of the obligation and on a slot that names a teacher and a room,   *)
(* so that it needs nothing of the original, which may be deleted.         *)
ScheduleMakeup(t) ==
    LET o == task[t].id
    IN /\ Did(t, "schedule") /\ InSection(t) /\ CanDraw
       /\ IF debts[o].status = "open" /\ ~attemptIsLive(o)
             /\ ~detectConflicts(NoLesson, debts[o].class, task[t].at)
          THEN /\ Books(Fresh, debts[o].class, task[t].at, "scheduled")
               /\ madeFor' = [madeFor EXCEPT ![Fresh] = o]
               /\ Then(t, Remembers("append", o, Fresh, debts[o].attempts))
               /\ UNCHANGED section
          ELSE Ends(t) /\ Leave(t) /\ UNCHANGED <<lessons, madeFor>>
       /\ UNCHANGED <<course, marked, debts, split>>

AppendAttempt(t) ==
    /\ Did(t, "append") /\ Ends(t) /\ Leave(t)
    /\ debts' = [debts EXCEPT ![task[t].id].attempts = Append(task[t].seen, task[t].at)]
    /\ UNCHANGED <<lessons, course, marked, madeFor, split>>

CompleteDebt(t) ==
    LET o == task[t].id
    IN /\ Did(t, "complete") /\ InSection(t) /\ Ends(t) /\ Leave(t)
       /\ debts' = IF debts[o].status = "open" /\ attemptIsLive(o)
                   THEN [debts EXCEPT ![o].status = "completed"] ELSE debts
       /\ UNCHANGED <<lessons, course, marked, madeFor, split>>

Called ==
    \/ CreateSession \/ RecordAttendance \/ GenerateSessions \/ EditCourse
    \/ \E i \in Lessons : UpdateSession(i) \/ CancelSession(i) \/ DeleteSession(i)
    \/ \E t \in Tasks : \/ \E i \in Lessons : GetSession(t, i)
                        \/ RegisterDebt(t)
                        \/ serializeBooking(t, "complete", NoLesson)
                        \/ \E s \in Asked : serializeBooking(t, "schedule", s)
Resumed == \E t \in Tasks : \/ RescheduleSession(t) \/ Registered(t) \/ ScheduleMakeup(t)
                              \/ AppendAttempt(t) \/ CompleteDebt(t)
TimetableNext == \/ begun < MaxMethods /\ begun' = begun + 1 /\ Called
                 \/ begun' = begun /\ Resumed
TimetableSpec == TimetableInit /\ [][TimetableNext]_timetableVars

-----------------------------------------------------------------------------
(* "At most one live make-up": two bookings of an obligation never both    *)
(* stand, whatever was moved or cancelled meanwhile; unless a move went on  *)
(* from a booking that was moved, cancelled or deleted since it was read,  *)
(* two links of its lineage were deleted, or it was moved more often than  *)
(* attemptLineageOf follows.                                               *)
Family(o) == {i \in Lessons : madeFor[i] = o}
Makeups(o) == {i \in Family(o) : Takes(i)}
Traceable(o) == /\ o \notin split
                /\ Cardinality({i \in Family(o) : lessons[i] = Removed}) < 2
                /\ Cardinality(Family(o)) <= MAX_MOVES + 1
LiveMakeupIsOne == \A o \in Owed : Traceable(o) => Cardinality(Makeups(o)) <= 1

(* Registrations that wait for each other do not exceed the cap.           *)
CapIsKept == Cardinality({o \in Owed : debts[o].status # "none"}) <= MakeupCap

(* A room and a teacher of two classes are in one place at a time, and a   *)
(* session that attendance was taken of is never deleted.                  *)
SlotsAreKept ==
    /\ \A i, j \in Lessons : i # j /\ Takes(i) /\ Takes(j) /\ lessons[i].class # lessons[j].class
           => ~Collide(lessons[i].at, lessons[j].at)
    /\ \A i \in marked : Stored(i)

(* The rules of the timetable hold whichever methods wait for each other.  *)
TimetableHolds == SlotsAreKept /\ CapIsKept /\ LiveMakeupIsOne
=============================================================================
