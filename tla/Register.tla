------------------------------ MODULE Register ------------------------------
(***************************************************************************)
(* The register of a lesson: the attendance view that follows a selected   *)
(* lesson, and the marks and corrections that it writes, in the            *)
(* demonstration or on a server where another client takes registers too.  *)
(* Reads and writes are answered late or never; transactions of the server *)
(* overlap where the engine has row locks.                                 *)
(***************************************************************************)
EXTENDS Naturals, Sequences, FiniteSets

CONSTANTS
    Sittings,     \* ids of lessons of one class
    Shown,        \* their order in the list
    Enrolled,     \* the students of the class
    Marks,        \* attendance statuses
    Engines,      \* who stores: "demo", "sqlite", "mysql"
    NoMark, Nil,
    Contested,    \* the records that another client writes: lesson and student
    Windows,      \* the lessons of a window of the list
    MaxEvents     \* bound on writes, failures, new windows and what others change

ASSUME RegisterAssumption ==
    /\ Shown \in Seq(Sittings) /\ Windows \subseteq SUBSET Sittings /\ Contested \subseteq Sittings \X Enrolled
    /\ {"present", "absent"} \subseteq Marks /\ NoMark \notin Marks
    /\ Nil \notin Sittings \union Enrolled \union [lesson : Sittings, student : Enrolled, sent : BOOLEAN]
    /\ Engines \subseteq {"demo", "sqlite", "mysql"} /\ MaxEvents \in Nat

VARIABLES
    engine,
    cancelled,    \* lessons that are called off
    seated,       \* students on the roster
    mark,         \* what is recorded of a student in a lesson
    trail,        \* history: the writes of each record, oldest first; the corrections are the log
    listed,       \* the lessons the list was answered with, and which of them as cancelled
    selectedId,
    attendance,   \* the register the page holds, or Nil
    reading,      \* its read: for which lesson, how far, and the answer on its way
    readError,
    busyStudentId, bulkBusy,
    correcting,   \* the record whose correction is edited, or Nil
    sent,         \* the requests that are not answered
    overtaken,    \* history: records that were written from a mark another request had changed
    missed,       \* history: changed by others since the last read was served
    events

registerVars == <<engine, cancelled, seated, mark, trail, listed, selectedId, attendance, reading, readError,
                  busyStudentId, bulkBusy, correcting, sent, overtaken, missed, events>>
storeVars == <<cancelled, seated, mark, trail, overtaken>>
screenVarsOf == <<listed, selectedId, attendance, reading, readError, busyStudentId, bulkBusy, correcting>>

Goes == events < MaxEvents /\ events' = events + 1

-----------------------------------------------------------------------------
(* What the view derives                                                   *)

(* The lesson chosen, or the first of the list.                            *)
SelectedIn(rows, id) ==
    LET first == {i \in DOMAIN Shown : Shown[i] \in DOMAIN rows /\ \A j \in 1 .. i - 1 : Shown[j] \notin DOMAIN rows}
    IN  IF id \in DOMAIN rows THEN id ELSE IF first = {} THEN Nil ELSE Shown[CHOOSE i \in first : TRUE]
selected == SelectedIn(listed, selectedId)
registerMatchesMutant == attendance # Nil /\ selected # Nil
registerMatches == attendance # Nil /\ selected # Nil /\ attendance.lesson = selected
Loading == reading.is \in {"asked", "answered", "failed"}
(* The branches of the page before the panel: loading, an error, loading.  *)
PanelShown == registerMatches /\ (readError => Loading)
locked == attendance.locked \/ listed[selected]
unmarked == {p \in DOMAIN attendance.rows : attendance.rows[p] = NoMark}
complete == DOMAIN attendance.rows # {} /\ unmarked = {}
recorded == Cardinality(DOMAIN attendance.rows \ unmarked)
(* What the panel says of the register and offers to do with it.           *)
RegisterPanel ==
    [badge    |-> IF locked THEN "cancelled" ELSE IF complete THEN "complete" ELSE "counted",
     bulk     |-> ~locked /\ unmarked # {} /\ ~bulkBusy,
     marks    |-> IF locked THEN {} ELSE unmarked \ {busyStudentId},
     corrects |-> IF locked THEN {} ELSE (DOMAIN attendance.rows \ unmarked) \ {busyStudentId}]

ReadRegister(l) == [lesson |-> l, is |-> IF l = Nil THEN "none" ELSE "asked", answer |-> Nil]

FirstEntry == [kind |-> "record", from |-> NoMark, to |-> "absent", open |-> TRUE]
RegisterInit ==
    /\ engine \in Engines /\ cancelled = {} /\ seated = Enrolled
    /\ \E taken \in SUBSET Contested :
         /\ mark = [l \in Sittings |-> [p \in Enrolled |-> IF <<l, p>> \in taken THEN "absent" ELSE NoMark]]
         /\ trail = [l \in Sittings |-> [p \in Enrolled |-> IF <<l, p>> \in taken THEN <<FirstEntry>> ELSE <<>>]]
    /\ listed = [l \in Sittings |-> FALSE] /\ selectedId = Nil /\ attendance = Nil /\ reading = ReadRegister(SelectedIn([l \in Sittings |-> FALSE], Nil)) /\ readError = FALSE
    /\ busyStudentId = Nil /\ bulkBusy = FALSE /\ correcting = Nil
    /\ sent = {} /\ overtaken = {} /\ missed = FALSE /\ events = 0

-----------------------------------------------------------------------------
(* The list, the selection and the read of the register                    *)

(* The effect of a new selection: a new read; the register stays until it  *)
(* is answered.                                                            *)
Follow ==
    LET now == SelectedIn(listed', selectedId')
    IN  IF now = selected THEN UNCHANGED <<attendance, reading, readError>>
        ELSE /\ reading' = ReadRegister(now)
             /\ IF now = Nil THEN attendance' = Nil /\ readError' = FALSE ELSE UNCHANGED <<attendance, readError>>
(* The list is answered: of another window, or after a write.              *)
ListAnswered(rows) ==
    /\ listed' = [l \in rows |-> l \in cancelled] /\ UNCHANGED selectedId /\ Follow /\ listed' # listed /\ Goes
    /\ UNCHANGED <<engine, storeVars, busyStudentId, bulkBusy, correcting, sent, missed>>
Select(l) ==
    /\ l \in DOMAIN listed /\ l # selectedId /\ selectedId' = l /\ UNCHANGED listed /\ Follow
    /\ UNCHANGED <<engine, storeVars, busyStudentId, bulkBusy, correcting, sent, missed, events>>

sessionAttendance(l) == [lesson |-> l, rows |-> [p \in seated |-> mark[l][p]], locked |-> l \in cancelled]
ServeRegister ==
    /\ reading.is = "asked" /\ missed' = FALSE
    /\ reading' = [reading EXCEPT !.is = "answered", !.answer = sessionAttendance(reading.lesson)]
    /\ UNCHANGED <<engine, storeVars, listed, selectedId, attendance, readError, busyStudentId, bulkBusy, correcting, sent, events>>
RegisterFails ==
    /\ engine # "demo" /\ reading.is \in {"asked", "answered"} /\ Goes /\ reading' = [reading EXCEPT !.is = "failed"]
    /\ UNCHANGED <<engine, storeVars, listed, selectedId, attendance, readError, busyStudentId, bulkBusy, correcting, sent, missed>>
(* A failure keeps the register of before.                                 *)
GotRegister ==
    /\ reading.is \in {"answered", "failed"}
    /\ IF reading.is = "answered" THEN attendance' = reading.answer /\ readError' = FALSE
       ELSE readError' = TRUE /\ UNCHANGED attendance
    /\ reading' = [reading EXCEPT !.is = "none", !.answer = Nil]
    /\ UNCHANGED <<engine, storeVars, listed, selectedId, busyStudentId, bulkBusy, correcting, sent, missed, events>>
reread == reading' = ReadRegister(selected)
Retry ==
    /\ readError /\ ~Loading /\ reread
    /\ UNCHANGED <<engine, storeVars, listed, selectedId, attendance, readError, busyStudentId, bulkBusy, correcting, sent, missed, events>>

-----------------------------------------------------------------------------
(* What is asked for                                                       *)

Post(by, kind, l, entries) ==
    [by |-> by, kind |-> kind, lesson |-> l, entries |-> entries, is |-> "asked",
     seen |-> NoMark, screen |-> IF by = "page" THEN selected ELSE l, id |-> events]
Send(q) == Goes /\ sent' = sent \union {q}

recordMark(p, s) ==
    /\ PanelShown /\ p \in RegisterPanel.marks
    /\ Send(Post("page", "record", attendance.lesson, [x \in {p} |-> s])) /\ busyStudentId' = p
    /\ UNCHANGED <<engine, storeVars, listed, selectedId, attendance, reading, readError, bulkBusy, correcting, missed>>
bulkPresent ==
    /\ PanelShown /\ RegisterPanel.bulk
    /\ Send(Post("page", "bulk", attendance.lesson, [p \in unmarked |-> "present"])) /\ bulkBusy' = TRUE
    /\ UNCHANGED <<engine, storeVars, listed, selectedId, attendance, reading, readError, busyStudentId, correcting, missed>>
(* The dialog stays with the record it was opened for.                     *)
OpenCorrection(p) ==
    /\ PanelShown /\ p \in RegisterPanel.corrects /\ correcting = Nil
    /\ correcting' = [lesson |-> attendance.lesson, student |-> p, sent |-> FALSE]
    /\ UNCHANGED <<engine, storeVars, listed, selectedId, attendance, reading, readError, busyStudentId, bulkBusy, sent, missed, events>>
submitCorrection(s) ==
    /\ correcting # Nil /\ ~correcting.sent /\ correcting' = [correcting EXCEPT !.sent = TRUE]
    /\ Send([Post("page", "correct", correcting.lesson, [x \in {correcting.student} |-> s]) EXCEPT !.screen = correcting.lesson])
    /\ UNCHANGED <<engine, storeVars, listed, selectedId, attendance, reading, readError, busyStudentId, bulkBusy, missed>>
CloseCorrection ==
    /\ correcting # Nil /\ ~correcting.sent /\ correcting' = Nil
    /\ UNCHANGED <<engine, storeVars, listed, selectedId, attendance, reading, readError, busyStudentId, bulkBusy, sent, missed, events>>
(* Another client asks the server.                                         *)
OthersAsk(kind, l, p, s) ==
    /\ engine # "demo" /\ (\A q \in sent : q.by = "page") /\ Send(Post("other", kind, l, [x \in {p} |-> s]))
    /\ UNCHANGED <<engine, storeVars, screenVarsOf, missed>>

-----------------------------------------------------------------------------
(* What the repositories do                                                *)

Targets(q) == DOMAIN q.entries
Replace(q, changed) == sent' = (sent \ {q}) \union {changed}
Entry(q, from, p) == [kind |-> q.kind, from |-> from, to |-> q.entries[p], open |-> q.lesson \notin cancelled]
(* Write the entries of q for the students of S; seen is what each held    *)
(* when q looked.  On a server a write of the same mark changes nothing.   *)
WriteMarks(q, S, seen) ==
    LET changed == {p \in S : engine = "demo" \/ seen[p] # q.entries[p]}
        l == q.lesson
    IN  /\ mark' = [mark EXCEPT ![l] = [p \in Enrolled |-> IF p \in changed THEN q.entries[p] ELSE @[p]]]
        /\ trail' = [trail EXCEPT ![l] = [p \in Enrolled |-> IF p \in changed THEN Append(@[p], Entry(q, seen[p], p)) ELSE @[p]]]
        /\ overtaken' = overtaken \union {<<l, p>> : p \in {p \in changed : mark[l][p] # seen[p]}}
        /\ UNCHANGED <<cancelled, seated>>
Held(q) == [p \in Targets(q) |-> mark[q.lesson][p]]

(* LocalAttendanceRepository: a mark is written once, while the lesson     *)
(* stands; a correction reads the record, waits, logs and writes.          *)
findMarkMutant(l, p) == FALSE
findMark(l, p) == mark[l][p] # NoMark
bulkRecord(q) == q.lesson \notin cancelled /\ \A p \in Targets(q) : p \in seated /\ ~findMark(q.lesson, p)
LocalCorrect(q) == \A p \in Targets(q) : findMark(q.lesson, p)
(* AttendanceService: write() records anew what is recorded, with a        *)
(* correction of its own; a correction that changes nothing is refused.    *)
ServedWrite(q) == Targets(q) \subseteq seated
ServedCorrect(q) == \A p \in Targets(q) : mark[q.lesson][p] \notin {NoMark, q.entries[p]}
Accepts(q) ==
    IF engine = "demo" THEN IF q.kind = "correct" THEN LocalCorrect(q) ELSE bulkRecord(q)
    ELSE IF q.kind = "correct" THEN ServedCorrect(q) ELSE ServedWrite(q)

(* Row locks of the server: of the lesson for marks, of the record for a   *)
(* correction.                                                             *)
Begun(kinds) == {q \in sent : q.is = "begun" /\ q.kind \in kinds}
Locked(q) ==
    IF q.kind = "correct" THEN \E o \in Begun({"correct"}) : o.lesson = q.lesson /\ Targets(o) = Targets(q)
    ELSE \E o \in Begun({"record", "bulk"}) : o.lesson = q.lesson
(* Two steps: where the method waits, or where transactions overlap.       *)
InTwoSteps(q) == IF engine = "demo" THEN q.kind = "correct" ELSE engine = "mysql"
Missed(q) == missed' = (missed \/ q.by = "other")
Refuse(q) == Replace(q, [q EXCEPT !.is = "refused"]) /\ UNCHANGED <<storeVars, missed>>
ServeWrite(q) ==
    /\ q.is = "asked" /\ (engine = "mysql" => ~Locked(q))
    /\ IF ~Accepts(q) THEN Refuse(q)
       ELSE IF InTwoSteps(q) THEN Replace(q, [q EXCEPT !.is = "begun", !.seen = Held(q)]) /\ UNCHANGED <<storeVars, missed>>
       ELSE WriteMarks(q, Targets(q), Held(q)) /\ Replace(q, [q EXCEPT !.is = "done"]) /\ Missed(q)
    /\ UNCHANGED <<engine, screenVarsOf, events>>
(* The rows to be written are waited for; an insert that came second is    *)
(* refused by the unique key.                                              *)
FinishWrite(q) ==
    /\ q.is = "begun"
    /\ engine = "mysql" /\ q.kind # "correct" => \A o \in Begun({"correct"}) : o.lesson # q.lesson \/ Targets(o) \cap Targets(q) = {}
    /\ WriteMarks(q, Targets(q), q.seen) /\ Replace(q, [q EXCEPT !.is = "done", !.seen = NoMark]) /\ Missed(q)
    /\ UNCHANGED <<engine, screenVarsOf, events>>

(* The answer comes, or is lost: the page then shows an error and does not *)
(* read again.                                                             *)
Answered(q, lost) ==
    /\ q.is \in {"done", "refused"} /\ (lost => engine # "demo" /\ q.by = "page") /\ sent' = sent \ {q}
    /\ LET took == q.is = "done" /\ ~lost
       IN  /\ IF took /\ q.by = "page" THEN reread ELSE UNCHANGED reading
           /\ correcting' = IF q.by = "page" /\ q.kind = "correct" THEN IF took THEN Nil ELSE [correcting EXCEPT !.sent = FALSE]
                            ELSE correcting
    /\ busyStudentId' = IF q.by = "page" /\ q.kind = "record" THEN Nil ELSE busyStudentId
    /\ bulkBusy' = IF q.by = "page" /\ q.kind = "bulk" THEN FALSE ELSE bulkBusy
    /\ missed' = (missed \/ (lost /\ q.is = "done"))
    /\ UNCHANGED <<engine, storeVars, listed, selectedId, attendance, readError, events>>

(* Elsewhere a lesson is called off, a student leaves the class.           *)
CancelLesson(l) ==
    /\ l \notin cancelled /\ Goes
    /\ cancelled' = cancelled \union {l} /\ missed' = TRUE
    /\ UNCHANGED <<engine, seated, mark, trail, overtaken, screenVarsOf, sent>>
Withdraw(p) ==
    /\ p \in seated /\ Goes
    /\ seated' = seated \ {p} /\ missed' = TRUE
    /\ UNCHANGED <<engine, cancelled, mark, trail, overtaken, screenVarsOf, sent>>

RegisterNext ==
    \/ \E rows \in Windows : ListAnswered(rows)
    \/ \E l \in Sittings : Select(l) \/ CancelLesson(l)
    \/ ServeRegister \/ RegisterFails \/ GotRegister \/ Retry \/ bulkPresent \/ CloseCorrection
    \/ \E p \in Enrolled : Withdraw(p) \/ OpenCorrection(p) \/ \E s \in Marks : recordMark(p, s)
    \/ \E s \in Marks : submitCorrection(s)
    \/ \E kind \in {"record", "correct"}, c \in Contested, s \in Marks : OthersAsk(kind, c[1], c[2], s)
    \/ \E q \in sent : ServeWrite(q) \/ FinishWrite(q) \/ \E lost \in BOOLEAN : Answered(q, lost)
RegisterSpec == RegisterInit /\ [][RegisterNext]_registerVars

RegisterTypeOK ==
    /\ engine \in Engines /\ cancelled \subseteq Sittings /\ seated \subseteq Enrolled
    /\ mark \in [Sittings -> [Enrolled -> Marks \union {NoMark}]]
    /\ DOMAIN listed \subseteq Sittings /\ selectedId \in Sittings \union {Nil}
    /\ attendance # Nil => attendance.lesson \in Sittings /\ DOMAIN attendance.rows \subseteq Enrolled
    /\ reading.is \in {"none", "asked", "answered", "failed"} /\ reading.lesson \in Sittings \union {Nil}
    /\ busyStudentId \in Enrolled \union {Nil} /\ {readError, bulkBusy, missed} \subseteq BOOLEAN
    /\ \A q \in sent : q.is \in {"asked", "begun", "done", "refused"} /\ q.lesson \in Sittings /\ Targets(q) \subseteq Enrolled
    /\ events \in 0 .. MaxEvents

-----------------------------------------------------------------------------
(* A mark goes into the register that was on the screen when it was given, *)
(* never into that of a lesson selected before or after: "the one mistake  *)
(* here that writes a falsehood into a real record".                       *)
MarksLandWhereShown == \A q \in sent : q.lesson = q.screen

(* At rest the panel shows the roster, the marks and the lock of the       *)
(* lesson that is selected; it calls a register complete, and counts it,   *)
(* only if nobody is left out.                                             *)
PanelTellsItsLesson ==
    PanelShown /\ ~Loading /\ ~missed /\ (\A q \in sent : q.by = "page" => q.is = "asked") =>
        /\ attendance = sessionAttendance(selected)
        /\ RegisterPanel.badge = "cancelled" <=> selected \in cancelled
        /\ RegisterPanel.badge = "complete" => \A p \in seated : mark[selected][p] # NoMark
        /\ recorded = Cardinality({p \in seated : mark[selected][p] # NoMark})

(* The log tells how each mark came to be: it begins with nothing, every   *)
(* entry starts where the one before ended, the last is the mark.  The     *)
(* exceptions are marks of an engine with row locks that were recorded     *)
(* again while a correction of theirs was under way.                       *)
TrailTellsTheMark ==
    \A l \in Sittings, p \in Enrolled : <<l, p>> \notin overtaken =>
        LET t == trail[l][p]
            Ended(i) == IF i = 0 THEN NoMark ELSE t[i].to
        IN  mark[l][p] = Ended(Len(t)) /\ \A i \in DOMAIN t : t[i].from = Ended(i - 1)
OnlyOvertaking == engine # "mysql" => overtaken = {}

(* In the demonstration a mark is recorded once, while the lesson stands;  *)
(* everything later is a correction with a reason.                         *)
MarksAreCorrected ==
    engine = "demo" => \A l \in Sittings, p \in Enrolled : \A i \in DOMAIN trail[l][p] :
        (trail[l][p][i].kind = "correct" <=> i > 1) /\ (i = 1 => trail[l][p][i].open)

RegisterHolds == RegisterTypeOK /\ MarksLandWhereShown /\ PanelTellsItsLesson /\ TrailTellsTheMark /\ OnlyOvertaking /\ MarksAreCorrected
=============================================================================
