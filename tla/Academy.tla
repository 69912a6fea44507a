------------------------------ MODULE Academy ------------------------------
(***************************************************************************)
(* People, rooms, instruments, classes and seats of the demo, with the     *)
(* sessions, make-up obligations and pieces that name them: what its       *)
(* repositories refuse, which records they keep equal to others, and       *)
(* whether a file exported from them can be restored.  Every method is one *)
(* step: it waits for nothing that another task could delay, and only two  *)
(* calls of one turn overlap (LocalTimetable has those of sessions).       *)
(***************************************************************************)
EXTENDS Integers, FiniteSets

CONSTANTS Students, Teachers, Rooms, Classes, Seats, Users, Instruments, \* ids
          Dated, Dues, Scores, Practices, \* ids of sessions, obligations, pieces, assignments
          Recurring,                      \* ids of sessions that generation gives: always the same
          Names, Phones, Codes, Emails,   \* what a record may say
          Blank,                          \* an account without a phone or a teacher
          Capacities,
          MaxChanges                      \* bound on writes

(* An id is made with the prefix of its collection.                        *)
IdsOf == <<Students, Teachers, Rooms, Classes, Seats, Users, Dated, Dues, Scores, Practices>>
ASSUME AcademyAssumption ==
    /\ \A i, j \in 1 .. 10 : i # j => IdsOf[i] \cap IdsOf[j] = {}
    /\ \A i \in 1 .. 10 : Blank \notin IdsOf[i]
    /\ Recurring \subseteq Dated
    /\ IsFiniteSet(Seats) /\ Capacities \subseteq Nat /\ MaxChanges \in Nat

VARIABLES student, teacher, room, class, seat, user, instrument, \* the records, by id
          lesson,       \* dated sessions: whose, where, and the sessions they replace
          debt,         \* obligations: the cancelled session, its class and the student
          score,        \* pieces: the instrument each is for
          practice,     \* assignments: the student and the piece
          logged,       \* assignments with progress events, which copy their student
          seeded,       \* whom the sample's weekly sessions, attendance, invoices and
                        \* payments name: rows no repository writes
          passphrase,   \* the accounts with a passphrase of their own
          reopened,     \* accounts enabled after their teacher's contract ended
          used,         \* ids of removed records: a drawn id is never given twice
          changes       \* the number of writes
fileVars == <<lesson, debt, score, practice, logged, seeded>>
academyVars == <<student, teacher, room, class, seat, user, instrument, fileVars, passphrase, reopened, used, changes>>

With(f, k, row) == [x \in DOMAIN f \union {k} |-> IF x = k THEN row ELSE f[x]]
Less(f, k) == [x \in DOMAIN f \ {k} |-> f[x]]
Unused(f, id) == id \notin DOMAIN f \union used
Changes == changes < MaxChanges /\ changes' = changes + 1
Removes(id) == used' = used \union {id} /\ Changes
Keeps == used' = used /\ Changes

-----------------------------------------------------------------------------
(* Rooms and instruments                                                   *)

RoomsOnly == UNCHANGED <<student, teacher, class, seat, user, instrument, fileVars, passphrase, reopened>>
createRoom(r, n) == Unused(room, r) /\ room' = With(room, r, [capacity |-> n, active |-> TRUE]) /\ Keeps /\ RoomsOnly
updateRoom(r, n, active) == r \in DOMAIN room /\ room' = [room EXCEPT ![r] = [capacity |-> n, active |-> active]]
                            /\ Keeps /\ RoomsOnly
(* Refused while a class names the room; sessions are not looked at.       *)
deleteRoom(r) == r \in DOMAIN room /\ (\A c \in DOMAIN class : class[c].room # r)
                 /\ room' = Less(room, r) /\ Removes(r) /\ RoomsOnly

InstrumentsOnly == UNCHANGED <<student, teacher, room, class, seat, user, fileVars, passphrase, reopened>>
createInstrument(i) == i \notin DOMAIN instrument /\ instrument' = With(instrument, i, TRUE) /\ Keeps /\ InstrumentsOnly
setActive(i, active) == i \in DOMAIN instrument /\ instrument' = [instrument EXCEPT ![i] = active] /\ Keeps /\ InstrumentsOnly
findReference(i) == \/ \E t \in DOMAIN teacher : teacher[t].instrument = i
                    \/ \E s \in DOMAIN student : student[s].instrument = i
                    \/ \E c \in DOMAIN class : class[c].instrument = i
deleteInstrument(i) == i \in DOMAIN instrument /\ ~findReference(i)
                       /\ instrument' = Less(instrument, i) /\ Keeps /\ InstrumentsOnly

-----------------------------------------------------------------------------
(* Students: one national code each; a student may be deleted at any time. *)

StudentsOnly == UNCHANGED <<teacher, room, class, seat, user, instrument, fileVars, passphrase, reopened>>
assertNationalIdMutant(code, except) ==
    except = Blank => \A s \in DOMAIN student : student[s].code # code
assertNationalId(code, except) == \A s \in DOMAIN student : student[s].code = code => s = except
createStudent(s, code, i) ==
    /\ Unused(student, s) /\ i \in DOMAIN instrument /\ assertNationalId(code, Blank)
    /\ student' = With(student, s, [code |-> code, instrument |-> i]) /\ Keeps /\ StudentsOnly
updateStudent(s, code) ==
    /\ s \in DOMAIN student /\ assertNationalId(code, s)
    /\ student' = [student EXCEPT ![s].code = code] /\ Keeps /\ StudentsOnly
deleteStudent(s) == s \in DOMAIN student /\ student' = Less(student, s) /\ Removes(s) /\ StudentsOnly

-----------------------------------------------------------------------------
(* Teachers and accounts: one person, one name                             *)

PeopleOnly == UNCHANGED <<student, room, class, seat, instrument, fileVars>>
Accounts(t) == {u \in DOMAIN user : user[u].teacher = t}
ContractEnded(t) == t # Blank /\ (t \notin DOMAIN teacher \/ ~teacher[t].active)
(* The accounts of a teacher follow the record; they close with the        *)
(* contract and do not open with it.                                       *)
syncAccountMutant(t, row) ==
    [u \in DOMAIN user |->
        IF user[u].teacher # t THEN user[u] ELSE [user[u] EXCEPT !.name = row.name, !.phone = row.phone]]
syncAccount(t, row) ==
    [u \in DOMAIN user |->
        IF user[u].teacher # t THEN user[u]
        ELSE [user[u] EXCEPT !.name = row.name, !.phone = row.phone, !.active = @ /\ row.active]]
assertPhoneFree(phone, except) == \A t \in DOMAIN teacher : teacher[t].phone = phone => t = except
SetTeacher(t, row) ==
    /\ teacher' = With(teacher, t, row) /\ user' = syncAccount(t, row)
    /\ reopened' = {u \in reopened : user'[u].active} /\ Keeps /\ UNCHANGED passphrase /\ PeopleOnly
createTeacher(t, name, phone, i) ==
    /\ Unused(teacher, t) /\ i \in DOMAIN instrument /\ assertPhoneFree(phone, Blank)
    /\ teacher' = With(teacher, t, [name |-> name, phone |-> phone, active |-> TRUE, instrument |-> i])
    /\ Keeps /\ UNCHANGED <<user, passphrase, reopened>> /\ PeopleOnly
updateTeacher(t, name, phone, active) ==
    /\ t \in DOMAIN teacher /\ assertPhoneFree(phone, t)
    /\ SetTeacher(t, [teacher[t] EXCEPT !.name = name, !.phone = phone, !.active = active])
deactivate(t) == t \in DOMAIN teacher /\ SetTeacher(t, [teacher[t] EXCEPT !.active = FALSE])
deleteTeacher(t) ==
    /\ t \in DOMAIN teacher /\ \A c \in DOMAIN class : class[c].teacher # t
    /\ teacher' = Less(teacher, t)
    /\ user' = [u \in DOMAIN user |-> [user[u] EXCEPT !.active = @ /\ u \notin Accounts(t)]]
    /\ reopened' = reopened \ Accounts(t) /\ Removes(t) /\ UNCHANGED passphrase /\ PeopleOnly

emailTaken(email, except) == \E u \in DOMAIN user : u # except /\ user[u].email = email
(* A teacher's record follows the account it is linked to; an account      *)
(* without a phone leaves the teacher's.                                   *)
syncTeacher(row) ==
    IF row.teacher \notin DOMAIN teacher THEN teacher
    ELSE [teacher EXCEPT ![row.teacher].name = row.name,
                         ![row.teacher].phone = IF row.phone = Blank THEN @ ELSE row.phone]
createUser(u, name, email) ==
    /\ Unused(user, u) /\ ~emailTaken(email, Blank)
    /\ user' = With(user, u, [name |-> name, phone |-> Blank, email |-> email, active |-> TRUE, teacher |-> Blank])
    /\ Keeps /\ UNCHANGED <<teacher, passphrase, reopened>> /\ PeopleOnly
updateUser(u, name, phone, email, active) ==
    /\ u \in DOMAIN user /\ ~emailTaken(email, u)
    /\ user' = [user EXCEPT ![u] = [@ EXCEPT !.name = name, !.phone = phone, !.email = email, !.active = active]]
    /\ teacher' = syncTeacher(user'[u])
    /\ reopened' = IF ~active THEN reopened \ {u}
                   ELSE IF ~user[u].active /\ ContractEnded(user[u].teacher) THEN reopened \union {u} ELSE reopened
    /\ Keeps /\ UNCHANGED passphrase /\ PeopleOnly
deleteUser(u) ==
    /\ u \in DOMAIN user /\ user' = Less(user, u) /\ passphrase' = passphrase \ {u}
    /\ reopened' = reopened \ {u} /\ Removes(u) /\ UNCHANGED teacher /\ PeopleOnly
setPassword(u, own) ==
    /\ u \in DOMAIN user /\ passphrase' = IF own THEN passphrase \union {u} ELSE passphrase \ {u}
    /\ Keeps /\ UNCHANGED <<teacher, user, reopened>> /\ PeopleOnly

-----------------------------------------------------------------------------
(* Classes and seats                                                       *)

ClassesOnly == UNCHANGED <<student, teacher, room, user, instrument, fileVars, passphrase, reopened>>
SeatsOf(c, status) == {e \in DOMAIN seat : seat[e].class = c /\ seat[e].status = status}
countActive(c) == Cardinality(SeatsOf(c, "active"))
(* A class is written only with a teacher and a room that take classes.    *)
validateRelations(row) ==
    /\ row.teacher \in DOMAIN teacher /\ teacher[row.teacher].active
    /\ row.room \in DOMAIN room /\ room[row.room].active /\ row.capacity <= room[row.room].capacity
ClassRow(t, r, n, i) == [teacher |-> t, room |-> r, capacity |-> n, archived |-> FALSE, instrument |-> i,
                         enrolled |-> 0, waitlist |-> 0, studentIds |-> {}]
createClass(c, t, r, n, i) ==
    /\ Unused(class, c) /\ i \in DOMAIN instrument /\ validateRelations(ClassRow(t, r, n, i))
    /\ class' = With(class, c, ClassRow(t, r, n, i)) /\ Keeps /\ UNCHANGED seat /\ ClassesOnly
updateClass(c, t, r, n, archived) ==
    /\ c \in DOMAIN class
    /\ LET row == [class[c] EXCEPT !.teacher = t, !.room = r, !.capacity = n, !.archived = archived] IN
         /\ validateRelations(row) /\ n >= countActive(c)
         /\ class' = [class EXCEPT ![c] = row]
    /\ Keeps /\ UNCHANGED seat /\ ClassesOnly
archive(c) == c \in DOMAIN class /\ ~class[c].archived /\ class' = [class EXCEPT ![c].archived = TRUE]
              /\ Keeps /\ UNCHANGED seat /\ ClassesOnly
deleteClass(c) == c \in DOMAIN class /\ (\A e \in DOMAIN seat : seat[e].class # c) /\ class' = Less(class, c)
                  /\ Removes(c) /\ UNCHANGED seat /\ ClassesOnly
(* The class repeats its seats: how many hold one, how many wait, and who. *)
syncClassProjection(c) ==
    LET of(status) == {e \in DOMAIN seat' : seat'[e].class = c /\ seat'[e].status = status} IN
    class' = [k \in DOMAIN class |->
        IF k # c THEN class[k]
        ELSE [class[k] EXCEPT !.enrolled = Cardinality(of("active")), !.waitlist = Cardinality(of("waitlist")),
                              !.studentIds = {seat'[e].student : e \in of("active")}]]
Seated(c) == syncClassProjection(c) /\ ClassesOnly
enroll(e, s, c, status) ==
    /\ Unused(seat, e) /\ s \in DOMAIN student /\ c \in DOMAIN class /\ ~class[c].archived
    /\ \A d \in SeatsOf(c, "active") \union SeatsOf(c, "waitlist") : seat[d].student # s
    /\ status = "active" => countActive(c) < class[c].capacity
    /\ seat' = With(seat, e, [student |-> s, class |-> c, status |-> status]) /\ Keeps /\ Seated(c)
(* No caller opens a cancelled or completed seat again, which nothing here *)
(* would check against another one of the student.                         *)
updateSeat(e, status) ==
    /\ e \in DOMAIN seat /\ seat[e].status \in {"active", "waitlist"}
    /\ status = "active" /\ seat[e].status # "active" => countActive(seat[e].class) < class[seat[e].class].capacity
    /\ seat' = [seat EXCEPT ![e].status = status] /\ Keeps /\ Seated(seat[e].class)
withdraw(e) == e \in DOMAIN seat /\ seat' = [seat EXCEPT ![e].status = "cancelled"] /\ Keeps /\ Seated(seat[e].class)
deleteSeat(e) == e \in DOMAIN seat /\ seat' = Less(seat, e) /\ Removes(e) /\ Seated(seat[e].class)

-----------------------------------------------------------------------------
(* Dated sessions and what they leave owed.  Attendance, clashes, dates    *)
(* and edits by hand only refuse more steps (LocalTimetable has them).     *)

FilesOnly == UNCHANGED <<student, teacher, room, class, seat, user, instrument, passphrase, reopened, seeded>>
Open(c) == c \in DOMAIN class /\ ~class[c].archived
LessonRow(c, t, r, cancelled, from, to) ==
    [class |-> c, teacher |-> t, room |-> r, cancelled |-> cancelled, from |-> from, to |-> to]
LessonsOnly == UNCHANGED <<debt, score, practice, logged>> /\ FilesOnly
(* The booking of a make-up writes its session this way too.               *)
createLesson(l, c, t, r) ==
    /\ l \notin Recurring /\ Unused(lesson, l) /\ Open(c) /\ t \in DOMAIN teacher /\ r \in DOMAIN room
    /\ lesson' = With(lesson, l, LessonRow(c, t, r, FALSE, Blank, Blank)) /\ Keeps /\ LessonsOnly
(* One slot of a class's plan: a session that is missing, or a live one    *)
(* that takes the teacher and the room of the class again.                 *)
generateSession(l, c) ==
    /\ l \in Recurring /\ Open(c)
    /\ l \in DOMAIN lesson => lesson[l].class = c /\ ~lesson[l].cancelled
    /\ lesson' = With(lesson, l, LessonRow(c, class[c].teacher, class[c].room, FALSE,
                                           IF l \in DOMAIN lesson THEN lesson[l].from ELSE Blank,
                                           IF l \in DOMAIN lesson THEN lesson[l].to ELSE Blank))
    /\ Keeps /\ LessonsOnly
updateLesson(l, t, r) ==
    /\ l \in DOMAIN lesson /\ Open(lesson[l].class) /\ t \in DOMAIN teacher /\ r \in DOMAIN room
    /\ LET old == lesson[l] IN
         lesson' = With(lesson, l, LessonRow(old.class, t, r, old.cancelled, old.from, old.to))
    /\ Keeps /\ LessonsOnly
cancelLesson(l) ==
    /\ l \in DOMAIN lesson /\ ~lesson[l].cancelled
    /\ LET old == lesson[l] IN
         lesson' = With(lesson, l, LessonRow(old.class, old.teacher, old.room, TRUE, old.from, old.to))
    /\ Keeps /\ LessonsOnly
(* A move writes the session that replaces this one, and links the two.    *)
rescheduleLesson(l, k, t, r) ==
    /\ l \in DOMAIN lesson /\ ~lesson[l].cancelled /\ Open(lesson[l].class)
    /\ t \in DOMAIN teacher /\ r \in DOMAIN room /\ k \notin Recurring /\ Unused(lesson, k)
    /\ LET old == lesson[l] IN
         lesson' = With(With(lesson, k, LessonRow(old.class, t, r, FALSE, l, Blank)),
                        l, LessonRow(old.class, old.teacher, old.room, TRUE, old.from, k))
    /\ Keeps /\ LessonsOnly
(* The links of other sessions, obligations and attempts are not looked at.*)
deleteLesson(l) ==
    /\ l \in DOMAIN lesson /\ lesson' = Less(lesson, l)
    /\ used' = used \union ({l} \ Recurring) /\ Changes /\ LessonsOnly
(* A make-up is owed for a cancelled session to the one student who was    *)
(* expected there; which seats the date admits is left open.               *)
registerDebt(d, l, s) ==
    /\ Unused(debt, d) /\ l \in DOMAIN lesson /\ lesson[l].cancelled /\ lesson[l].class \in DOMAIN class
    /\ \A o \in DOMAIN debt : debt[o].original = l => debt[o].student # s
    /\ s \in DOMAIN student /\ \E e \in SeatsOf(lesson[l].class, "active") : seat[e].student = s
    /\ debt' = With(debt, d, [original |-> l, class |-> lesson[l].class, student |-> s])
    /\ Keeps /\ UNCHANGED <<lesson, score, practice, logged>> /\ FilesOnly

-----------------------------------------------------------------------------
(* Pieces, assignments and progress (Repertoire has the rest of them)      *)

ScoresOnly == UNCHANGED <<lesson, debt, practice, logged>> /\ FilesOnly
createScore(p, i) == Unused(score, p) /\ i \in DOMAIN instrument /\ score' = With(score, p, i) /\ Keeps /\ ScoresOnly
updateScore(p, i) == p \in DOMAIN score /\ i \in DOMAIN instrument /\ score' = With(score, p, i) /\ Keeps /\ ScoresOnly
deleteScore(p) == p \in DOMAIN score /\ (\A a \in DOMAIN practice : practice[a].score # p)
                  /\ score' = Less(score, p) /\ Removes(p) /\ ScoresOnly
assignScore(a, s, p) ==
    /\ Unused(practice, a) /\ s \in DOMAIN student /\ p \in DOMAIN score
    /\ practice' = With(practice, a, [student |-> s, score |-> p])
    /\ Keeps /\ UNCHANGED <<lesson, debt, score, logged>> /\ FilesOnly
logProgress(a) == a \in DOMAIN practice /\ logged' = logged \union {a}
                     /\ Keeps /\ UNCHANGED <<lesson, debt, score, practice>> /\ FilesOnly
deletePractice(a) == a \in DOMAIN practice /\ a \notin logged /\ practice' = Less(practice, a)
                     /\ Removes(a) /\ UNCHANGED <<lesson, debt, score, logged>> /\ FilesOnly

-----------------------------------------------------------------------------
(* A class with a student in its only seat and a session to come, taught   *)
(* by the teacher an account is linked to; `old` is what the sample names. *)
AcademyStart(s, t, r, c, u, i, e, l, name, phone, code, email, old) ==
    /\ student = With(<<>>, s, [code |-> code, instrument |-> i])
    /\ teacher = With(<<>>, t, [name |-> name, phone |-> phone, active |-> TRUE, instrument |-> i])
    /\ room = With(<<>>, r, [capacity |-> 1, active |-> TRUE]) /\ instrument = With(<<>>, i, TRUE)
    /\ class = With(<<>>, c, [ClassRow(t, r, 1, i) EXCEPT !.enrolled = 1, !.studentIds = {s}])
    /\ seat = With(<<>>, e, [student |-> s, class |-> c, status |-> "active"])
    /\ user = With(<<>>, u, [name |-> name, phone |-> phone, email |-> email, active |-> TRUE, teacher |-> t])
    /\ lesson = With(<<>>, l, LessonRow(c, t, r, FALSE, Blank, Blank))
    /\ debt = <<>> /\ score = <<>> /\ practice = <<>> /\ logged = {} /\ seeded = old
    /\ passphrase = {} /\ reopened = {} /\ used = {} /\ changes = 0
SampleRows(S, T, R, C) == [students |-> S, teachers |-> T, rooms |-> R, classes |-> C]
AcademyInit ==
    \E s \in Students, t \in Teachers, r \in Rooms, c \in Classes, u \in Users, i \in Instruments, e \in Seats,
       l \in Dated, name \in Names, phone \in Phones, code \in Codes, email \in Emails :
          \E S \in SUBSET {s}, T \in SUBSET {t}, R \in SUBSET {r}, C \in SUBSET {c} :
             AcademyStart(s, t, r, c, u, i, e, l, name, phone, code, email, SampleRows(S, T, R, C))
FilesNext ==
    \/ \E l \in Dated, t \in Teachers, r \in Rooms :
          \/ updateLesson(l, t, r) \/ \E c \in Classes : createLesson(l, c, t, r)
          \/ \E k \in Dated \ {l} : rescheduleLesson(l, k, t, r)
    \/ \E l \in Dated : cancelLesson(l) \/ deleteLesson(l) \/ \E c \in Classes : generateSession(l, c)
    \/ \E d \in Dues, l \in Dated, s \in Students : registerDebt(d, l, s)
    \/ \E p \in Scores : deleteScore(p) \/ \E i \in Instruments : createScore(p, i) \/ updateScore(p, i)
    \/ \E a \in Practices : \/ logProgress(a) \/ deletePractice(a)
                            \/ \E s \in Students, p \in Scores : assignScore(a, s, p)
AcademyNext ==
    \/ \E r \in Rooms, n \in Capacities : createRoom(r, n) \/ \E active \in BOOLEAN : updateRoom(r, n, active)
    \/ \E r \in Rooms : deleteRoom(r)
    \/ \E i \in Instruments : createInstrument(i) \/ deleteInstrument(i) \/ \E active \in BOOLEAN : setActive(i, active)
    \/ \E s \in Students, code \in Codes : updateStudent(s, code) \/ \E i \in Instruments : createStudent(s, code, i)
    \/ \E s \in Students : deleteStudent(s)
    \/ \E t \in Teachers, name \in Names, phone \in Phones :
          \/ \E i \in Instruments : createTeacher(t, name, phone, i)
          \/ \E active \in BOOLEAN : updateTeacher(t, name, phone, active)
    \/ \E t \in Teachers : deactivate(t) \/ deleteTeacher(t)
    \/ \E u \in Users, name \in Names, email \in Emails :
          \/ createUser(u, name, email)
          \/ \E phone \in Phones \union {Blank}, active \in BOOLEAN : updateUser(u, name, phone, email, active)
    \/ \E u \in Users : deleteUser(u) \/ \E own \in BOOLEAN : setPassword(u, own)
    \/ \E c \in Classes, t \in Teachers, r \in Rooms, n \in Capacities :
          \/ \E i \in Instruments : createClass(c, t, r, n, i)
          \/ \E archived \in BOOLEAN : updateClass(c, t, r, n, archived)
    \/ \E c \in Classes : archive(c) \/ deleteClass(c)
    \/ \E e \in Seats, s \in Students, c \in Classes, status \in {"active", "waitlist"} : enroll(e, s, c, status)
    \/ \E e \in Seats : withdraw(e) \/ deleteSeat(e)
                        \/ \E status \in {"active", "waitlist", "completed", "cancelled"} : updateSeat(e, status)
    \/ FilesNext
AcademySpec == AcademyInit /\ [][AcademyNext]_academyVars

-----------------------------------------------------------------------------
AcademyTypeOK ==
    /\ DOMAIN student \subseteq Students /\ DOMAIN teacher \subseteq Teachers /\ DOMAIN room \subseteq Rooms
    /\ DOMAIN class \subseteq Classes /\ DOMAIN seat \subseteq Seats /\ DOMAIN user \subseteq Users
    /\ DOMAIN instrument \subseteq Instruments /\ changes \in 0 .. MaxChanges
    /\ DOMAIN lesson \subseteq Dated /\ DOMAIN debt \subseteq Dues /\ DOMAIN score \subseteq Scores
    /\ DOMAIN practice \subseteq Practices /\ logged \subseteq Practices

(* No class holds more students than seats, and none twice, however seats  *)
(* are taken, promoted and given back and the capacity is edited.          *)
SeatsHold ==
    \A c \in DOMAIN class :
        /\ countActive(c) <= class[c].capacity
        /\ \A d, e \in SeatsOf(c, "active") \union SeatsOf(c, "waitlist") : seat[d].student = seat[e].student => d = e
(* What a class says of its seats is what the seats say.                   *)
ProjectionsAgree ==
    \A c \in DOMAIN class :
        /\ class[c].enrolled = countActive(c) /\ class[c].waitlist = Cardinality(SeatsOf(c, "waitlist"))
        /\ class[c].studentIds = {seat[e].student : e \in SeatsOf(c, "active")}
(* A teacher and the account that signs in for them are one person, on     *)
(* whichever of two screens they are edited; and whose contract ended does *)
(* not sign in unless the account was enabled since.                       *)
OnePersonOneName ==
    \A u \in DOMAIN user : LET t == user[u].teacher IN
        /\ t \in DOMAIN teacher => user[u].name = teacher[t].name /\ user[u].phone \in {Blank, teacher[t].phone}
        /\ ContractEnded(t) /\ user[u].active => u \in reopened
(* No class, no seat and no record is left without what it names, and what *)
(* must be unique is.                                                      *)
RecordsKeepTheirParents ==
    /\ \A c \in DOMAIN class : class[c].teacher \in DOMAIN teacher /\ class[c].room \in DOMAIN room
    /\ \A e \in DOMAIN seat : seat[e].class \in DOMAIN class
    /\ \A i \in Instruments : findReference(i) => i \in DOMAIN instrument
    /\ passphrase \subseteq DOMAIN user
    /\ \A a, b \in DOMAIN user : user[a].email = user[b].email => a = b
AcademyHolds == SeatsHold /\ ProjectionsAgree /\ OnePersonOneName /\ RecordsKeepTheirParents

(* What a restore demands of a file.  Left out, for the repositories write *)
(* nothing else: the shape of a date, an id or a national id, a known      *)
(* role, and that an attempt's session, drawn for it, is in no other.      *)
LessonsRestore ==
    \A l \in DOMAIN lesson :
        /\ lesson[l].class \in DOMAIN class /\ lesson[l].teacher \in DOMAIN teacher /\ lesson[l].room \in DOMAIN room
        /\ {lesson[l].from, lesson[l].to} \subseteq DOMAIN lesson \union {Blank}
DebtsRestore ==
    /\ \A d \in DOMAIN debt : debt[d].class \in DOMAIN class /\ debt[d].student \in DOMAIN student
    /\ \A d, o \in DOMAIN debt : debt[d].original = debt[o].original /\ debt[d].student = debt[o].student => d = o
ScoresRestore ==
    /\ \A p \in DOMAIN score : score[p] \in DOMAIN instrument
    /\ \A a \in DOMAIN practice : practice[a].student \in DOMAIN student /\ practice[a].score \in DOMAIN score
    /\ logged \subseteq DOMAIN practice
SeedRestores ==
    /\ seeded.students \subseteq DOMAIN student /\ seeded.classes \subseteq DOMAIN class
    /\ seeded.teachers \subseteq DOMAIN teacher /\ seeded.rooms \subseteq DOMAIN room
validateDataset ==
    /\ \A c \in DOMAIN class : class[c].teacher \in DOMAIN teacher /\ class[c].room \in DOMAIN room
    /\ \A e \in DOMAIN seat : seat[e].student \in DOMAIN student /\ seat[e].class \in DOMAIN class
    /\ LessonsRestore /\ DebtsRestore /\ ScoresRestore /\ SeedRestores
    /\ \A a, b \in DOMAIN student : student[a].code = student[b].code => a = b
    /\ \A u \in DOMAIN user : user[u].teacher = Blank \/ user[u].teacher \in DOMAIN teacher
(* A record is removed that others name, and its repository did not look:  *)
(* a student by seats, obligations, assignments (and their progress) or    *)
(* the sample's attendance, invoices and payments; a class by sessions,    *)
(* obligations or the sample's sessions; a teacher by sessions, an account *)
(* or the sample's sessions; a room by sessions, dated or the sample's; an *)
(* instrument by pieces; a session by the one it replaced or was moved to. *)
Orphaned ==
    \/ \E s \in DOMAIN student \ DOMAIN student' :
          \/ \E e \in DOMAIN seat : seat[e].student = s
          \/ \E d \in DOMAIN debt : debt[d].student = s
          \/ \E a \in DOMAIN practice : practice[a].student = s
          \/ s \in seeded.students
    \/ \E c \in DOMAIN class \ DOMAIN class' :
          \/ \E l \in DOMAIN lesson : lesson[l].class = c
          \/ \E d \in DOMAIN debt : debt[d].class = c
          \/ c \in seeded.classes
    \/ \E t \in DOMAIN teacher \ DOMAIN teacher' :
          \/ \E l \in DOMAIN lesson : lesson[l].teacher = t
          \/ \E u \in DOMAIN user : user[u].teacher = t
          \/ t \in seeded.teachers
    \/ \E r \in DOMAIN room \ DOMAIN room' :
          (\E l \in DOMAIN lesson : lesson[l].room = r) \/ r \in seeded.rooms
    \/ \E i \in DOMAIN instrument \ DOMAIN instrument' : \E p \in DOMAIN score : score[p] = i
    \/ \E l \in DOMAIN lesson \ DOMAIN lesson' :
          \E k \in DOMAIN lesson \ {l} : l \in {lesson[k].from, lesson[k].to}
(* A file exported from records that could be restored can be restored     *)
(* too, unless a record was removed that its repository let others name.   *)
ExportsCanBeRestored == [][validateDataset => validateDataset' \/ Orphaned]_academyVars
=============================================================================
