---------------------------- MODULE RegisterProofs ----------------------------
(* Proofs about two pages that write through dialogs.  The register of a   *)
(* lesson: where a mark lands, what the panel tells and what the log of    *)
(* corrections tells.  The make-ups: what the drawer and the table may     *)
(* show, and that decisions meet the make-up they are about.               *)
EXTENDS Register, MakeupDesk, SequenceTheorems, FiniteSetTheorems, WellFoundedInduction, TLAPS

-----------------------------------------------------------------------------
Kinds == {"record", "bulk", "correct"}
MarksOrNone == Marks \cup {NoMark}
Entries == [kind : Kinds, from : MarksOrNone, to : Marks, open : BOOLEAN]
Partial(S) == UNION {[P -> S] : P \in SUBSET Enrolled}
Registers == [lesson : Sittings, rows : Partial(MarksOrNone), locked : BOOLEAN]
Readings ==
    [lesson : Sittings \cup {Nil}, is : {"none", "asked", "answered", "failed"}, answer : Registers \cup {Nil}]
Posts ==
    [by : {"page", "other"}, kind : Kinds, lesson : Sittings, entries : Partial(Marks),
     is : {"asked", "begun", "done", "refused"}, seen : Partial(MarksOrNone) \cup {NoMark}, screen : Sittings \cup {Nil},
     id : 0 .. MaxEvents]

\* A request that has begun holds what it saw; the engines differ in which
\* requests take two steps.
PostOK(q) ==
    /\ q \in Posts
    /\ q.is = "begun" => q.seen \in [Targets(q) -> MarksOrNone]
    /\ engine = "demo" => q.by = "page" /\ (q.is = "begun" => q.kind = "correct")
    /\ engine = "sqlite" => q.is # "begun"

RegisterTypes ==
    /\ engine \in Engines /\ cancelled \subseteq Sittings /\ seated \subseteq Enrolled
    /\ mark \in [Sittings -> [Enrolled -> MarksOrNone]]
    /\ trail \in [Sittings -> [Enrolled -> Seq(Entries)]]
    /\ DOMAIN listed \subseteq Sittings /\ selectedId \in Sittings \cup {Nil}
    /\ readError \in BOOLEAN /\ bulkBusy \in BOOLEAN /\ missed \in BOOLEAN
    /\ busyStudentId \in Enrolled \cup {Nil}
    /\ attendance \in Registers \cup {Nil}
    /\ correcting \in [lesson : Sittings, student : Enrolled, sent : BOOLEAN] \cup {Nil}
    /\ \A q \in sent : PostOK(q)
    /\ events \in 0 .. MaxEvents

\* The read that is under way is that of the lesson selected.
ReadingFollows ==
    /\ reading \in Readings /\ reading.lesson = selected
    /\ selected = Nil => reading.is = "none"
\* The list calls a lesson cancelled that is.
ListedCancelled == \A l \in DOMAIN listed : listed[l] => l \in cancelled

\* No write of the page waits to be heard of.
Heard == \A q \in sent : q.by = "page" => q.is # "done"
ReadTells ==
    ~missed /\ Heard =>
        /\ reading.is = "answered" => reading.answer = sessionAttendance(reading.lesson)
        /\ reading.is = "none" /\ ~readError /\ selected # Nil => attendance = sessionAttendance(selected)

\* One correction of the page is under way at a time, while its dialog is
\* open.
Corrections == {q \in sent : q.by = "page" /\ q.kind = "correct"}
OneCorrection ==
    /\ Corrections # {} => correcting # Nil /\ correcting.sent
    /\ \A q, o \in Corrections : q = o
\* In the demonstration nothing comes between what a correction read and
\* what it writes.
CorrectionStands ==
    engine = "demo" => \A q \in sent : q.is = "begun" =>
        \A p \in Targets(q) : mark[q.lesson][p] # NoMark /\ q.seen[p] = mark[q.lesson][p]

RegisterInv ==
    /\ RegisterTypes /\ ReadingFollows /\ ListedCancelled /\ ReadTells /\ OneCorrection /\ CorrectionStands
    /\ MarksLandWhereShown /\ TrailTellsTheMark /\ OnlyOvertaking /\ MarksAreCorrected

LEMMA SelectedShape ==
  \A rows, id : /\ SelectedIn(rows, id) \in DOMAIN rows \cup {Nil}
                /\ id \in DOMAIN rows => SelectedIn(rows, id) = id
<1> SUFFICES ASSUME NEW rows, NEW id
             PROVE  /\ SelectedIn(rows, id) \in DOMAIN rows \cup {Nil}
                    /\ id \in DOMAIN rows => SelectedIn(rows, id) = id
  OBVIOUS
<1> DEFINE first == {i \in DOMAIN Shown : Shown[i] \in DOMAIN rows /\ \A j \in 1 .. i - 1 : Shown[j] \notin DOMAIN rows}
<1>1. SelectedIn(rows, id) = IF id \in DOMAIN rows THEN id ELSE IF first = {} THEN Nil ELSE Shown[CHOOSE i \in first : TRUE]
  BY DEF SelectedIn
<1>2. first # {} => (CHOOSE i \in first : TRUE) \in first
  OBVIOUS
<1>3. \A i \in first : Shown[i] \in DOMAIN rows
  OBVIOUS
<1> HIDE DEF first
<1> QED
  BY <1>1, <1>2, <1>3

LEMMA Selected ==
  ASSUME RegisterTypes
  PROVE  selected \in Sittings \cup {Nil} /\ (selected # Nil => selected \in DOMAIN listed)
  BY SelectedShape DEF selected, RegisterTypes

\* Nothing that a request refers to is Nil.
LEMMA Names ==
  /\ Nil \notin Sittings /\ Nil \notin Enrolled /\ NoMark \notin Marks /\ "present" \in Marks /\ "absent" \in Marks
  /\ \A l \in Windows : l \subseteq Sittings
  /\ \A c \in Contested : c[1] \in Sittings /\ c[2] \in Enrolled
  BY RegisterAssumption

LEMMA RegisterShape ==
  ASSUME RegisterTypes, NEW l \in Sittings
  PROVE  /\ sessionAttendance(l) \in Registers /\ sessionAttendance(l).lesson = l
         /\ sessionAttendance(l).rows = [p \in seated |-> mark[l][p]]
         /\ sessionAttendance(l).locked = (l \in cancelled)
<1>1. [p \in seated |-> mark[l][p]] \in [seated -> MarksOrNone] /\ seated \in SUBSET Enrolled
  BY DEF RegisterTypes
<1>2. [p \in seated |-> mark[l][p]] \in Partial(MarksOrNone)
  BY <1>1 DEF Partial
<1> QED
  BY <1>2 DEF sessionAttendance, Registers

LEMMA ReadRegisterShape ==
  ASSUME NEW l \in Sittings \cup {Nil}
  PROVE  /\ ReadRegister(l) \in Readings /\ ReadRegister(l).lesson = l
         /\ ReadRegister(l).is = IF l = Nil THEN "none" ELSE "asked"
  BY DEF ReadRegister, Readings

LEMMA InitRegisterInv == RegisterInit => RegisterInv
<1> SUFFICES ASSUME RegisterInit PROVE RegisterInv
  OBVIOUS
<1>1. PICK taken \in SUBSET Contested :
        /\ mark = [l \in Sittings |-> [p \in Enrolled |-> IF <<l, p>> \in taken THEN "absent" ELSE NoMark]]
        /\ trail = [l \in Sittings |-> [p \in Enrolled |-> IF <<l, p>> \in taken THEN <<FirstEntry>> ELSE <<>>]]
  BY DEF RegisterInit
<1>2. FirstEntry \in Entries /\ FirstEntry.kind = "record" /\ FirstEntry.from = NoMark /\ FirstEntry.to = "absent"
      /\ FirstEntry.open
  BY Names DEF FirstEntry, Entries, Kinds, MarksOrNone
<1>3. <<FirstEntry>> \in Seq(Entries) /\ <<>> \in Seq(Entries) /\ Len(<<FirstEntry>>) = 1 /\ Len(<<>>) = 0
      /\ DOMAIN <<FirstEntry>> = {1} /\ DOMAIN <<>> = {} /\ <<FirstEntry>>[1] = FirstEntry
  BY <1>2
<1>4. /\ engine \in Engines /\ cancelled = {} /\ seated = Enrolled /\ listed = [l \in Sittings |-> FALSE] /\ selectedId = Nil
      /\ attendance = Nil /\ reading = ReadRegister(selected) /\ readError = FALSE /\ busyStudentId = Nil
      /\ bulkBusy = FALSE /\ correcting = Nil /\ sent = {} /\ overtaken = {} /\ missed = FALSE /\ events = 0
  BY DEF RegisterInit, selected
<1>5. RegisterTypes
  <2>1. mark \in [Sittings -> [Enrolled -> MarksOrNone]]
    BY <1>1, Names DEF MarksOrNone
  <2>2. trail \in [Sittings -> [Enrolled -> Seq(Entries)]]
    BY <1>1, <1>3
  <2>3. 0 \in 0 .. MaxEvents
    BY RegisterAssumption
  <2> QED
    BY <1>4, <2>1, <2>2, <2>3 DEF RegisterTypes
<1>6. ReadingFollows /\ ReadTells
  BY <1>4, <1>5, Selected, ReadRegisterShape DEF ReadingFollows, ReadTells
<1>7. ListedCancelled /\ OneCorrection /\ CorrectionStands /\ MarksLandWhereShown /\ OnlyOvertaking
  BY <1>4 DEF ListedCancelled, OneCorrection, CorrectionStands, MarksLandWhereShown, OnlyOvertaking, Corrections
<1>8. ASSUME NEW l \in Sittings, NEW p \in Enrolled
      PROVE  \/ mark[l][p] = "absent" /\ trail[l][p] = <<FirstEntry>>
             \/ mark[l][p] = NoMark /\ trail[l][p] = <<>>
  BY <1>1
<1>9. TrailTellsTheMark
  BY <1>2, <1>3, <1>8, SMTT(30) DEF TrailTellsTheMark
<1>10. MarksAreCorrected
  BY <1>2, <1>3, <1>8 DEF MarksAreCorrected
<1> QED
  BY <1>5, <1>6, <1>7, <1>9, <1>10 DEF RegisterInv

-----------------------------------------------------------------------------
\* What is stored, and what was asked for.
StoreInv ==
    /\ OneCorrection /\ CorrectionStands /\ MarksLandWhereShown /\ TrailTellsTheMark /\ OnlyOvertaking
    /\ MarksAreCorrected

LEMMA StoreRests ==
  ASSUME StoreInv, UNCHANGED <<engine, storeVars, correcting, sent>>
  PROVE  StoreInv'
<1>1. OneCorrection' /\ CorrectionStands' /\ MarksLandWhereShown'
  BY DEF StoreInv, storeVars, OneCorrection, CorrectionStands, MarksLandWhereShown, Corrections, Targets
<1>2. TrailTellsTheMark' /\ OnlyOvertaking' /\ MarksAreCorrected'
  BY DEF StoreInv, storeVars, TrailTellsTheMark, OnlyOvertaking, MarksAreCorrected
<1> QED
  BY <1>1, <1>2 DEF StoreInv

\* A new selection starts the read of its register.
LEMMA FollowKeeps ==
  ASSUME RegisterTypes, ReadingFollows, ReadTells, Follow, UNCHANGED <<cancelled, seated, mark, missed, sent>>,
         DOMAIN listed' \subseteq Sittings
  PROVE  /\ ReadingFollows' /\ ReadTells' /\ readError' \in BOOLEAN
         /\ attendance' \in Registers \cup {Nil}
<1>1. selected' = SelectedIn(listed', selectedId')
  BY DEF selected
<1>2. selected' \in Sittings \cup {Nil}
  BY <1>1, SelectedShape
<1>3. CASE selected' = selected
  <2>1. UNCHANGED <<attendance, reading, readError>>
    BY <1>1, <1>3 DEF Follow
  <2> QED
    BY <1>3, <2>1 DEF RegisterTypes, ReadingFollows, ReadTells, Heard, sessionAttendance
<1>4. CASE selected' # selected
  <2>1. /\ reading' = ReadRegister(selected')
        /\ IF selected' = Nil THEN attendance' = Nil /\ readError' = FALSE ELSE UNCHANGED <<attendance, readError>>
    BY <1>1, <1>4 DEF Follow
  <2>2. /\ reading' \in Readings /\ reading'.lesson = selected'
        /\ reading'.is = IF selected' = Nil THEN "none" ELSE "asked"
    BY <1>2, <2>1, ReadRegisterShape
  <2> QED
    BY <1>2, <2>1, <2>2 DEF RegisterTypes, ReadingFollows, ReadTells
<1> QED
  BY <1>3, <1>4

LEMMA SelectionKeeps ==
  ASSUME RegisterInv, (\E rows \in Windows : ListAnswered(rows)) \/ (\E l \in Sittings : Select(l))
  PROVE  RegisterInv'
<1>1. /\ Follow /\ events' \in 0 .. MaxEvents
      /\ UNCHANGED <<engine, storeVars, busyStudentId, bulkBusy, correcting, sent, missed>>
      /\ selectedId' \in Sittings \cup {Nil}
      /\ DOMAIN listed' \subseteq Sittings /\ ListedCancelled'
  <2>1. CASE \E rows \in Windows : ListAnswered(rows)
    <3>1. PICK rows \in Windows : ListAnswered(rows)
      BY <2>1
    <3>2. DOMAIN listed' \subseteq Sittings /\ ListedCancelled'
      BY <3>1, Names DEF ListAnswered, ListedCancelled, storeVars
    <3> QED
      BY <3>1, <3>2, RegisterAssumption DEF ListAnswered, RegisterInv, RegisterTypes, Goes
  <2>2. CASE \E l \in Sittings : Select(l)
    BY <2>2 DEF Select, RegisterInv, RegisterTypes, ListedCancelled, storeVars
  <2> QED
    BY <2>1, <2>2
<1>2. /\ ReadingFollows' /\ ReadTells' /\ readError' \in BOOLEAN
      /\ attendance' \in Registers \cup {Nil}
  BY <1>1, FollowKeeps DEF RegisterInv, storeVars
<1>3. RegisterTypes'
  BY <1>1, <1>2 DEF RegisterInv, RegisterTypes, storeVars, PostOK, Targets
<1>4. StoreInv'
  BY <1>1, StoreRests DEF RegisterInv, StoreInv
<1> QED
  BY <1>1, <1>2, <1>3, <1>4 DEF RegisterInv, StoreInv

\* A step of the read alone.
LEMMA ReadKeeps ==
  ASSUME RegisterInv,
         UNCHANGED <<engine, storeVars, listed, selectedId, busyStudentId, bulkBusy, correcting, sent>>,
         events' \in 0 .. MaxEvents, missed' \in BOOLEAN, readError' \in BOOLEAN,
         attendance' \in Registers \cup {Nil},
         ReadingFollows', ReadTells'
  PROVE  RegisterInv'
<1>1. RegisterTypes'
  BY DEF RegisterInv, RegisterTypes, storeVars, PostOK, Targets
<1>2. ListedCancelled'
  BY DEF RegisterInv, ListedCancelled, storeVars
<1>3. StoreInv'
  BY StoreRests DEF RegisterInv, StoreInv
<1> QED
  BY <1>1, <1>2, <1>3 DEF RegisterInv, StoreInv

LEMMA ServeRegisterKeeps == ASSUME RegisterInv, ServeRegister PROVE RegisterInv'
<1>1. /\ reading.is = "asked" /\ missed' = FALSE
      /\ reading' = [reading EXCEPT !.is = "answered", !.answer = sessionAttendance(reading.lesson)]
      /\ UNCHANGED <<engine, storeVars, listed, selectedId, attendance, readError, busyStudentId, bulkBusy, correcting, sent, events>>
  BY DEF ServeRegister
<1>2. reading.lesson = selected /\ selected' = selected /\ selected \in Sittings
  BY <1>1, Selected DEF RegisterInv, ReadingFollows, selected
<1>3. sessionAttendance(selected) \in Registers
  BY <1>2, RegisterShape DEF RegisterInv
<1>4. /\ reading' \in Readings /\ reading'.lesson = selected /\ reading'.is = "answered"
      /\ reading'.answer = sessionAttendance(selected)
  BY <1>1, <1>2, <1>3 DEF RegisterInv, ReadingFollows, Readings
<1>5. ReadingFollows'
  BY <1>2, <1>4, Names DEF ReadingFollows
<1>6. ReadTells'
  BY <1>1, <1>2, <1>4 DEF ReadTells, sessionAttendance, storeVars
<1> QED
  BY <1>1, <1>5, <1>6, ReadKeeps DEF RegisterInv, RegisterTypes

LEMMA RegisterFailsKeeps == ASSUME RegisterInv, RegisterFails PROVE RegisterInv'
<1>1. /\ reading.is \in {"asked", "answered"} /\ reading' = [reading EXCEPT !.is = "failed"] /\ Goes
      /\ UNCHANGED <<engine, storeVars, listed, selectedId, attendance, readError, busyStudentId, bulkBusy, correcting, sent, missed>>
  BY DEF RegisterFails
<1>2. selected' = selected
  BY <1>1 DEF selected
<1>3. reading' \in Readings /\ reading'.lesson = selected' /\ reading'.is = "failed" /\ selected # Nil
  BY <1>1, <1>2 DEF RegisterInv, ReadingFollows, Readings
<1>4. ReadingFollows' /\ ReadTells'
  BY <1>2, <1>3 DEF ReadingFollows, ReadTells
<1>5. events' \in 0 .. MaxEvents
  BY <1>1, RegisterAssumption DEF Goes, RegisterInv, RegisterTypes
<1> QED
  BY <1>1, <1>4, <1>5, ReadKeeps DEF RegisterInv, RegisterTypes

LEMMA GotRegisterKeeps == ASSUME RegisterInv, GotRegister PROVE RegisterInv'
<1>1. /\ reading.is \in {"answered", "failed"} /\ reading' = [reading EXCEPT !.is = "none", !.answer = Nil]
      /\ UNCHANGED <<engine, storeVars, listed, selectedId, busyStudentId, bulkBusy, correcting, sent, missed, events>>
      /\ IF reading.is = "answered" THEN attendance' = reading.answer /\ readError' = FALSE
         ELSE readError' = TRUE /\ UNCHANGED attendance
  BY DEF GotRegister
<1>2. selected' = selected
  BY <1>1 DEF selected
<1>3. reading' \in Readings /\ reading'.lesson = selected' /\ reading'.is = "none" /\ reading.lesson = selected
  BY <1>1, <1>2 DEF RegisterInv, ReadingFollows, Readings
<1>4. ReadingFollows'
  BY <1>2, <1>3 DEF ReadingFollows
<1>5. ReadTells'
  <2> SUFFICES ASSUME ~missed', Heard', ~readError' PROVE attendance' = sessionAttendance(selected)'
    BY <1>3 DEF ReadTells
  <2>1. reading.is = "answered" /\ attendance' = reading.answer
    BY <1>1
  <2>2. attendance' = sessionAttendance(selected)
    BY <1>1, <1>3, <2>1 DEF RegisterInv, ReadTells, Heard
  <2> QED
    BY <1>1, <1>2, <2>2 DEF sessionAttendance, storeVars
<1>6. attendance' \in Registers \cup {Nil}
  BY <1>1 DEF RegisterInv, RegisterTypes, ReadingFollows, Readings
<1> QED
  BY <1>1, <1>4, <1>5, <1>6, ReadKeeps DEF RegisterInv, RegisterTypes

\* A read of the lesson selected starts.
LEMMA RereadTells ==
  ASSUME RegisterTypes, reread, selected' = selected
  PROVE  ReadingFollows' /\ ReadTells'
<1>1. /\ reading' \in Readings /\ reading'.lesson = selected'
      /\ reading'.is = IF selected' = Nil THEN "none" ELSE "asked"
  BY Selected, ReadRegisterShape DEF reread
<1> QED
  BY <1>1 DEF ReadingFollows, ReadTells

LEMMA RetryKeeps == ASSUME RegisterInv, Retry PROVE RegisterInv'
<1>1. /\ reread
      /\ UNCHANGED <<engine, storeVars, listed, selectedId, attendance, readError, busyStudentId, bulkBusy, correcting, sent, missed, events>>
  BY DEF Retry
<1>2. ReadingFollows' /\ ReadTells'
  BY <1>1, RereadTells DEF RegisterInv, selected
<1> QED
  BY <1>1, <1>2, ReadKeeps DEF RegisterInv, RegisterTypes

-----------------------------------------------------------------------------
\* A request that is sent has seen nothing and names the lesson on the
\* screen.
LEMMA SendKeeps ==
  ASSUME RegisterInv, NEW q \in Posts, Send(q), q.is = "asked", q.lesson = q.screen, engine = "demo" => q.by = "page",
         UNCHANGED <<engine, storeVars, listed, selectedId, attendance, reading, readError, missed>>,
         busyStudentId' \in Enrolled \cup {Nil}, bulkBusy' \in BOOLEAN,
         correcting' \in [lesson : Sittings, student : Enrolled, sent : BOOLEAN] \cup {Nil},
         IF q.by = "page" /\ q.kind = "correct"
           THEN Corrections = {} /\ correcting' # Nil /\ correcting'.sent
           ELSE correcting' = correcting
  PROVE  RegisterInv'
<1>1. sent' = sent \cup {q} /\ events' \in 0 .. MaxEvents
  BY RegisterAssumption DEF Send, Goes, RegisterInv, RegisterTypes
<1>2. PostOK(q)' /\ \A o \in sent : PostOK(o)'
  BY DEF PostOK, RegisterInv, RegisterTypes, Targets
<1>3. RegisterTypes'
  BY <1>1, <1>2 DEF RegisterInv, RegisterTypes, storeVars
<1>4. ReadingFollows' /\ ListedCancelled'
  BY DEF RegisterInv, ReadingFollows, ListedCancelled, selected, storeVars
<1>5. ReadTells'
  BY <1>1 DEF RegisterInv, ReadTells, Heard, sessionAttendance, selected, storeVars
<1>6. OneCorrection'
  <2>1. Corrections' = Corrections \cup (IF q.by = "page" /\ q.kind = "correct" THEN {q} ELSE {})
    BY <1>1 DEF Corrections
  <2> QED
    BY <2>1 DEF RegisterInv, OneCorrection
<1>7. CorrectionStands' /\ MarksLandWhereShown'
  BY <1>1 DEF RegisterInv, CorrectionStands, MarksLandWhereShown, storeVars, Targets
<1>8. TrailTellsTheMark' /\ OnlyOvertaking' /\ MarksAreCorrected'
  BY DEF RegisterInv, storeVars, TrailTellsTheMark, OnlyOvertaking, MarksAreCorrected
<1> QED
  BY <1>3, <1>4, <1>5, <1>6, <1>7, <1>8 DEF RegisterInv

LEMMA PostShape ==
  ASSUME RegisterTypes, NEW by \in {"page", "other"}, NEW kind \in Kinds, NEW l \in Sittings, NEW S \in SUBSET Enrolled,
         NEW entries \in [S -> Marks]
  PROVE  /\ Post(by, kind, l, entries) \in Posts /\ Post(by, kind, l, entries).is = "asked"
         /\ Post(by, kind, l, entries).by = by /\ Post(by, kind, l, entries).kind = kind
         /\ Post(by, kind, l, entries).lesson = l
         /\ Post(by, kind, l, entries).screen = IF by = "page" THEN selected ELSE l
<1>1. entries \in Partial(Marks)
  BY DEF Partial
<1>2. selected \in Sittings \cup {Nil} /\ events \in 0 .. MaxEvents
  BY Selected DEF RegisterTypes
<1> QED
  BY <1>1, <1>2 DEF Post, Posts

\* What the panel offers is of the lesson selected.
LEMMA PanelShape ==
  ASSUME RegisterInv, PanelShown
  PROVE  /\ attendance.lesson \in Sittings /\ attendance.lesson = selected
         /\ unmarked \in SUBSET Enrolled /\ DOMAIN attendance.rows \subseteq Enrolled
         /\ RegisterPanel.marks \subseteq Enrolled /\ RegisterPanel.corrects \subseteq Enrolled
<1>1. attendance \in Registers /\ attendance.lesson = selected
  BY DEF RegisterInv, RegisterTypes, PanelShown, registerMatches
<1>2. attendance.lesson \in Sittings /\ DOMAIN attendance.rows \subseteq Enrolled
  BY <1>1 DEF Registers, Partial
<1> QED
  BY <1>1, <1>2 DEF unmarked, RegisterPanel

LEMMA RecordMarkKeeps == ASSUME RegisterInv, NEW p \in Enrolled, NEW s \in Marks, recordMark(p, s) PROVE RegisterInv'
<1> DEFINE q == Post("page", "record", attendance.lesson, [x \in {p} |-> s])
<1>1. /\ PanelShown /\ Send(q) /\ busyStudentId' = p
      /\ UNCHANGED <<engine, storeVars, listed, selectedId, attendance, reading, readError, bulkBusy, correcting, missed>>
  BY DEF recordMark
<1>2. attendance.lesson \in Sittings /\ attendance.lesson = selected
  BY <1>1, PanelShape
<1>3. q \in Posts /\ q.is = "asked" /\ q.by = "page" /\ q.kind = "record" /\ q.lesson = q.screen
  BY <1>2, PostShape DEF RegisterInv, Kinds
<1> HIDE DEF q
<1> QED
  BY <1>1, <1>3, SendKeeps DEF RegisterInv, RegisterTypes

LEMMA BulkPresentKeeps == ASSUME RegisterInv, bulkPresent PROVE RegisterInv'
<1> DEFINE q == Post("page", "bulk", attendance.lesson, [p \in unmarked |-> "present"])
<1>1. /\ PanelShown /\ Send(q) /\ bulkBusy' = TRUE
      /\ UNCHANGED <<engine, storeVars, listed, selectedId, attendance, reading, readError, busyStudentId, correcting, missed>>
  BY DEF bulkPresent
<1>2. attendance.lesson \in Sittings /\ attendance.lesson = selected /\ unmarked \in SUBSET Enrolled
  BY <1>1, PanelShape
<1>3. q \in Posts /\ q.is = "asked" /\ q.by = "page" /\ q.kind = "bulk" /\ q.lesson = q.screen
  BY <1>2, PostShape, Names DEF RegisterInv, Kinds
<1> HIDE DEF q
<1> QED
  BY <1>1, <1>3, SendKeeps DEF RegisterInv, RegisterTypes

LEMMA SubmitCorrectionKeeps == ASSUME RegisterInv, NEW s \in Marks, submitCorrection(s) PROVE RegisterInv'
<1> DEFINE o == Post("page", "correct", correcting.lesson, [x \in {correcting.student} |-> s])
           q == [o EXCEPT !.screen = correcting.lesson]
<1>1. /\ correcting # Nil /\ ~correcting.sent /\ correcting' = [correcting EXCEPT !.sent = TRUE] /\ Send(q)
      /\ UNCHANGED <<engine, storeVars, listed, selectedId, attendance, reading, readError, busyStudentId, bulkBusy, missed>>
  BY DEF submitCorrection
<1>2. correcting \in [lesson : Sittings, student : Enrolled, sent : BOOLEAN]
  BY <1>1 DEF RegisterInv, RegisterTypes
<1>3. o \in Posts /\ o.is = "asked" /\ o.by = "page" /\ o.kind = "correct" /\ o.lesson = correcting.lesson
  BY <1>2, PostShape DEF RegisterInv, Kinds
<1> HIDE DEF o
<1>4. q \in Posts /\ q.is = "asked" /\ q.by = "page" /\ q.kind = "correct" /\ q.lesson = q.screen
  BY <1>2, <1>3 DEF Posts
<1> HIDE DEF q
<1>5. correcting' \in [lesson : Sittings, student : Enrolled, sent : BOOLEAN] /\ correcting'.sent
  BY <1>1, <1>2
<1>6. correcting' # Nil
  BY <1>5, RegisterAssumption
<1>7. Corrections = {}
  BY <1>1 DEF RegisterInv, OneCorrection
<1> QED
  BY <1>1, <1>4, <1>5, <1>6, <1>7, SendKeeps DEF RegisterInv, RegisterTypes

LEMMA OthersAskKeeps ==
  ASSUME RegisterInv, NEW kind \in {"record", "correct"}, NEW c \in Contested, NEW s \in Marks, OthersAsk(kind, c[1], c[2], s)
  PROVE  RegisterInv'
<1> DEFINE q == Post("other", kind, c[1], [x \in {c[2]} |-> s])
<1>1. engine # "demo" /\ Send(q) /\ UNCHANGED <<engine, storeVars, screenVarsOf, missed>>
  BY DEF OthersAsk
<1>2. q \in Posts /\ q.is = "asked" /\ q.by = "other" /\ q.lesson = q.screen
  BY Names, PostShape DEF RegisterInv, Kinds
<1> HIDE DEF q
<1> QED
  BY <1>1, <1>2, SendKeeps DEF RegisterInv, RegisterTypes, screenVarsOf

\* The dialog of a correction opens when none is under way.
LEMMA CorrectionDialogKeeps ==
  ASSUME RegisterInv, (\E p \in Enrolled : OpenCorrection(p)) \/ CloseCorrection
  PROVE  RegisterInv'
<1>1. /\ UNCHANGED <<engine, storeVars, listed, selectedId, attendance, reading, readError, busyStudentId, bulkBusy, sent, missed, events>>
      /\ correcting' \in [lesson : Sittings, student : Enrolled, sent : BOOLEAN] \cup {Nil} /\ Corrections = {}
  <2>1. CASE \E p \in Enrolled : OpenCorrection(p)
    <3>1. PICK p \in Enrolled : OpenCorrection(p)
      BY <2>1
    <3>2. attendance.lesson \in Sittings
      BY <3>1, PanelShape DEF OpenCorrection
    <3> QED
      BY <3>1, <3>2 DEF OpenCorrection, RegisterInv, OneCorrection
  <2>2. CASE CloseCorrection
    BY <2>2 DEF CloseCorrection, RegisterInv, OneCorrection
  <2> QED
    BY <2>1, <2>2
<1>2. RegisterTypes'
  BY <1>1 DEF RegisterInv, RegisterTypes, storeVars, PostOK, Targets
<1>3. ReadingFollows' /\ ListedCancelled' /\ ReadTells'
  BY <1>1 DEF RegisterInv, ReadingFollows, ListedCancelled, ReadTells, Heard, sessionAttendance, selected, storeVars
<1>4. OneCorrection'
  BY <1>1 DEF OneCorrection, Corrections
<1>5. CorrectionStands' /\ MarksLandWhereShown'
  BY <1>1 DEF RegisterInv, CorrectionStands, MarksLandWhereShown, storeVars, Targets
<1>6. TrailTellsTheMark' /\ OnlyOvertaking' /\ MarksAreCorrected'
  BY <1>1 DEF RegisterInv, storeVars, TrailTellsTheMark, OnlyOvertaking, MarksAreCorrected
<1> QED
  BY <1>2, <1>3, <1>4, <1>5, <1>6 DEF RegisterInv

-----------------------------------------------------------------------------
\* A log that begins with nothing, whose entries follow each other and end
\* with the mark.
EndOf(t, i) == IF i = 0 THEN NoMark ELSE t[i].to
Chained(t, m) == m = EndOf(t, Len(t)) /\ \A i \in DOMAIN t : t[i].from = EndOf(t, i - 1)

LEMMA TrailIsChained ==
  TrailTellsTheMark <=>
    \A l \in Sittings, p \in Enrolled : <<l, p>> \notin overtaken => Chained(trail[l][p], mark[l][p])
  BY DEF TrailTellsTheMark, Chained, EndOf

LEMMA ChainedAppend ==
  ASSUME NEW t \in Seq(Entries), NEW e \in Entries, Chained(t, e.from)
  PROVE  Append(t, e) \in Seq(Entries) /\ Chained(Append(t, e), e.to)
<1>1. /\ Append(t, e) \in Seq(Entries) /\ Len(Append(t, e)) = Len(t) + 1 /\ Len(t) \in Nat
      /\ \A i \in 1 .. Len(t) : Append(t, e)[i] = t[i]
      /\ Append(t, e)[Len(t) + 1] = e
      /\ DOMAIN t = 1 .. Len(t) /\ DOMAIN Append(t, e) = 1 .. Len(t) + 1
  BY AppendProperties, LenProperties
<1>2. \A i \in 0 .. Len(t) : EndOf(Append(t, e), i) = EndOf(t, i)
  BY <1>1 DEF EndOf
<1>3. EndOf(Append(t, e), Len(t) + 1) = e.to
  BY <1>1 DEF EndOf
<1>4. \A i \in 1 .. Len(t) : Append(t, e)[i].from = EndOf(Append(t, e), i - 1)
  <2> TAKE i \in 1 .. Len(t)
  <2>1. t[i].from = EndOf(t, i - 1) /\ i - 1 \in 0 .. Len(t)
    BY <1>1 DEF Chained
  <2> QED
    BY <1>1, <1>2, <2>1
<1>5. Append(t, e)[Len(t) + 1].from = EndOf(Append(t, e), (Len(t) + 1) - 1)
  <2>1. (Len(t) + 1) - 1 = Len(t) /\ Len(t) \in 0 .. Len(t)
    BY <1>1
  <2>2. e.from = EndOf(t, Len(t))
    BY DEF Chained
  <2> QED
    BY <1>1, <1>2, <2>1, <2>2
<1>6. \A i \in DOMAIN Append(t, e) : i \in 1 .. Len(t) \/ i = Len(t) + 1
  BY <1>1
<1> QED
  BY <1>1, <1>3, <1>4, <1>5, <1>6 DEF Chained

\* The students whose record a request changes.
Changes(q, S, seen) == {p \in S : engine = "demo" \/ seen[p] # q.entries[p]}

LEMMA WrittenMarks ==
  ASSUME RegisterTypes, NEW q \in sent, NEW seen, \A p \in Targets(q) : seen[p] \in MarksOrNone, WriteMarks(q, Targets(q), seen)
  PROVE  /\ Targets(q) \subseteq Enrolled /\ Changes(q, Targets(q), seen) \subseteq Targets(q)
         /\ \A p \in Changes(q, Targets(q), seen) : q.entries[p] \in Marks /\ Entry(q, seen[p], p) \in Entries
         /\ UNCHANGED <<cancelled, seated>>
         /\ mark' \in [Sittings -> [Enrolled -> MarksOrNone]]
         /\ \A l \in Sittings, p \in Enrolled :
              IF l = q.lesson /\ p \in Changes(q, Targets(q), seen)
                THEN mark'[l][p] = q.entries[p] /\ trail'[l][p] = Append(trail[l][p], Entry(q, seen[p], p))
                ELSE mark'[l][p] = mark[l][p] /\ trail'[l][p] = trail[l][p]
         /\ trail' \in [Sittings -> [Enrolled -> Seq(Entries)]]
         /\ overtaken' = overtaken \cup {<<q.lesson, p>> : p \in {o \in Changes(q, Targets(q), seen) : mark[q.lesson][o] # seen[o]}}
<1> DEFINE S == Targets(q)
           changed == Changes(q, S, seen)
           l == q.lesson
<1>1. /\ mark' = [mark EXCEPT ![l] = [p \in Enrolled |-> IF p \in changed THEN q.entries[p] ELSE mark[l][p]]]
      /\ trail' = [trail EXCEPT ![l] = [p \in Enrolled |-> IF p \in changed THEN Append(trail[l][p], Entry(q, seen[p], p)) ELSE trail[l][p]]]
      /\ overtaken' = overtaken \cup {<<l, p>> : p \in {o \in changed : mark[l][o] # seen[o]}}
      /\ UNCHANGED <<cancelled, seated>>
  BY DEF WriteMarks, Changes
<1>2. q \in Posts /\ l \in Sittings /\ q.kind \in Kinds
  BY DEF RegisterTypes, PostOK, Posts
<1>3. S \subseteq Enrolled /\ \A p \in S : q.entries[p] \in Marks
  BY <1>2 DEF Posts, Partial, Targets
<1>4. changed \subseteq S
  BY DEF Changes
<1>5. \A p \in changed : Entry(q, seen[p], p) \in Entries
  BY <1>2, <1>3, <1>4 DEF Entry, Entries
<1> HIDE DEF changed
<1>6. mark' \in [Sittings -> [Enrolled -> MarksOrNone]]
  BY <1>1, <1>2, <1>3, <1>4 DEF RegisterTypes, MarksOrNone
<1>7. [p \in Enrolled |-> IF p \in changed THEN Append(trail[l][p], Entry(q, seen[p], p)) ELSE trail[l][p]]
        \in [Enrolled -> Seq(Entries)]
  <2> SUFFICES ASSUME NEW p \in Enrolled
               PROVE  (IF p \in changed THEN Append(trail[l][p], Entry(q, seen[p], p)) ELSE trail[l][p]) \in Seq(Entries)
    OBVIOUS
  <2>1. trail[l][p] \in Seq(Entries)
    BY <1>2 DEF RegisterTypes
  <2> QED
    BY <1>5, <2>1, AppendProperties
<1>8. trail' \in [Sittings -> [Enrolled -> Seq(Entries)]]
  BY <1>1, <1>2, <1>7 DEF RegisterTypes
<1>9. ASSUME NEW m \in Sittings, NEW p \in Enrolled
      PROVE  IF m = l /\ p \in changed
               THEN mark'[m][p] = q.entries[p] /\ trail'[m][p] = Append(trail[m][p], Entry(q, seen[p], p))
               ELSE mark'[m][p] = mark[m][p] /\ trail'[m][p] = trail[m][p]
  BY <1>1, <1>2 DEF RegisterTypes
<1> QED
  BY <1>1, <1>3, <1>4, <1>5, <1>6, <1>8, <1>9 DEF changed

\* What is written continues the log of its record, unless another wrote
\* in between, which only an engine with row locks lets happen.
LEMMA WriteKeepsLogs ==
  ASSUME RegisterInv, NEW q \in sent, NEW seen, \A p \in Targets(q) : seen[p] \in MarksOrNone,
         WriteMarks(q, Targets(q), seen), UNCHANGED engine,
         engine # "mysql" => \A p \in Targets(q) : seen[p] = mark[q.lesson][p],
         engine = "demo" => \A p \in Targets(q) :
           IF q.kind = "correct" THEN mark[q.lesson][p] # NoMark ELSE mark[q.lesson][p] = NoMark /\ q.lesson \notin cancelled
  PROVE  TrailTellsTheMark' /\ OnlyOvertaking' /\ MarksAreCorrected'
<1> DEFINE changed == Changes(q, Targets(q), seen)
           l == q.lesson
<1>1. /\ Targets(q) \subseteq Enrolled /\ changed \subseteq Targets(q)
      /\ \A p \in changed : q.entries[p] \in Marks /\ Entry(q, seen[p], p) \in Entries
      /\ \A m \in Sittings, p \in Enrolled :
           IF m = l /\ p \in changed
             THEN mark'[m][p] = q.entries[p] /\ trail'[m][p] = Append(trail[m][p], Entry(q, seen[p], p))
             ELSE mark'[m][p] = mark[m][p] /\ trail'[m][p] = trail[m][p]
      /\ overtaken' = overtaken \cup {<<l, p>> : p \in {o \in changed : mark[l][o] # seen[o]}}
  BY WrittenMarks DEF RegisterInv
<1>2. l \in Sittings /\ q.kind \in Kinds
  BY DEF RegisterInv, RegisterTypes, PostOK, Posts
<1>3. \A p \in changed : /\ Entry(q, seen[p], p).from = seen[p] /\ Entry(q, seen[p], p).to = q.entries[p]
                         /\ Entry(q, seen[p], p).kind = q.kind
                         /\ Entry(q, seen[p], p).open = (l \notin cancelled)
  BY DEF Entry
<1> HIDE DEF changed
<1>4. ASSUME NEW m \in Sittings, NEW p \in Enrolled, <<m, p>> \notin overtaken'
      PROVE  Chained(trail'[m][p], mark'[m][p])
  <2>1. <<m, p>> \notin overtaken /\ Chained(trail[m][p], mark[m][p])
    BY <1>1, <1>4, TrailIsChained DEF RegisterInv
  <2>2. CASE m = l /\ p \in changed
    <3>1. seen[p] = mark[m][p]
      BY <1>1, <1>4, <2>2
    <3>2. trail[m][p] \in Seq(Entries)
      BY DEF RegisterInv, RegisterTypes
    <3>3. Chained(Append(trail[m][p], Entry(q, seen[p], p)), Entry(q, seen[p], p).to)
      BY <1>1, <1>3, <2>1, <2>2, <3>1, <3>2, ChainedAppend
    <3> QED
      BY <1>1, <1>3, <2>2, <3>3
  <2>3. CASE ~(m = l /\ p \in changed)
    BY <1>1, <2>1, <2>3
  <2> QED
    BY <2>2, <2>3
<1>5. TrailTellsTheMark'
  BY <1>4 DEF TrailTellsTheMark, Chained, EndOf
<1>6. OnlyOvertaking'
  BY <1>1 DEF RegisterInv, OnlyOvertaking
<1>7. MarksAreCorrected'
  <2> SUFFICES ASSUME engine = "demo", NEW m \in Sittings, NEW p \in Enrolled, NEW i \in DOMAIN trail'[m][p]
               PROVE  /\ trail'[m][p][i].kind = "correct" <=> i > 1
                      /\ i = 1 => trail'[m][p][i].open
    BY DEF MarksAreCorrected
  <2>1. \A j \in DOMAIN trail[m][p] : /\ trail[m][p][j].kind = "correct" <=> j > 1
                                      /\ j = 1 => trail[m][p][j].open
    BY DEF RegisterInv, MarksAreCorrected
  <2>2. CASE ~(m = l /\ p \in changed)
    BY <1>1, <2>1, <2>2
  <2>3. CASE m = l /\ p \in changed
    <3> DEFINE t == trail[m][p]
               e == Entry(q, seen[p], p)
    <3>1. t \in Seq(Entries) /\ e \in Entries /\ trail'[m][p] = Append(t, e)
      BY <1>1, <2>3 DEF RegisterInv, RegisterTypes
    <3>2. e.kind = q.kind /\ e.open = (l \notin cancelled)
      BY <1>3, <2>3
    <3>3. Chained(t, mark[m][p])
      BY TrailIsChained DEF RegisterInv, OnlyOvertaking
    <3>4. /\ DOMAIN t = 1 .. Len(t) /\ Len(t) \in Nat /\ DOMAIN Append(t, e) = 1 .. Len(t) + 1
          /\ \A j \in 1 .. Len(t) : Append(t, e)[j] = t[j]
          /\ Append(t, e)[Len(t) + 1] = e
      BY <3>1, AppendProperties, LenProperties
    <3>5. Len(t) = 0 <=> mark[m][p] = NoMark
      <4>1. CASE Len(t) = 0
        BY <3>3, <4>1 DEF Chained, EndOf
      <4>2. CASE Len(t) # 0
        <5>1. t[Len(t)] \in Entries
          BY <3>1, <3>4, <4>2
        <5>2. t[Len(t)].to \in Marks
          BY <5>1 DEF Entries
        <5> QED
          BY <3>3, <4>2, <5>2, Names DEF Chained, EndOf
      <4> QED
        BY <4>1, <4>2
    <3>6. IF q.kind = "correct" THEN mark[m][p] # NoMark ELSE mark[m][p] = NoMark /\ l \notin cancelled
      BY <1>1, <2>3
    <3> HIDE DEF t, e
    <3>7. CASE i \in 1 .. Len(t)
      BY <2>1, <3>1, <3>4, <3>7 DEF t
    <3>8. CASE i = Len(t) + 1
      <4>1. trail'[m][p][i] = e
        BY <3>1, <3>4, <3>8
      <4>2. i > 1 <=> Len(t) # 0
        BY <3>4, <3>8
      <4>3. i = 1 <=> Len(t) = 0
        BY <3>4, <3>8
      <4>4. e.kind = "correct" <=> mark[m][p] # NoMark
        BY <3>2, <3>6
      <4>5. mark[m][p] = NoMark => e.open
        BY <3>2, <3>6
      <4> QED
        BY <3>5, <4>1, <4>2, <4>3, <4>4, <4>5
    <3> QED
      BY <3>1, <3>4, <3>7, <3>8
  <2> QED
    BY <2>2, <2>3
<1> QED
  BY <1>5, <1>6, <1>7

-----------------------------------------------------------------------------
\* A request goes a step further.
LEMMA Replaced ==
  ASSUME RegisterInv, NEW q \in sent, NEW r, PostOK(r), Replace(q, r),
         r.by = q.by, r.kind = q.kind, r.lesson = q.lesson, r.screen = q.screen,
         UNCHANGED <<engine, screenVarsOf, events, cancelled, seated>>,
         mark' \in [Sittings -> [Enrolled -> MarksOrNone]], trail' \in [Sittings -> [Enrolled -> Seq(Entries)]],
         missed' \in BOOLEAN
  PROVE  /\ sent' = (sent \ {q}) \cup {r} /\ selected' = selected
         /\ RegisterTypes' /\ ReadingFollows' /\ ListedCancelled' /\ OneCorrection' /\ MarksLandWhereShown'
<1>1. sent' = (sent \ {q}) \cup {r} /\ selected' = selected
  BY DEF Replace, selected, screenVarsOf
<1>2. \A o \in sent' : PostOK(o)'
  BY <1>1 DEF PostOK, RegisterInv, RegisterTypes, Targets
<1>3. RegisterTypes'
  BY <1>2 DEF RegisterInv, RegisterTypes, screenVarsOf
<1>4. ReadingFollows' /\ ListedCancelled'
  BY <1>1 DEF RegisterInv, ReadingFollows, ListedCancelled, screenVarsOf
<1>5. OneCorrection'
  <2>1. CASE q \in Corrections
    <3>1. Corrections = {q} /\ Corrections' = {r}
      BY <1>1, <2>1 DEF RegisterInv, OneCorrection, Corrections
    <3> QED
      BY <2>1, <3>1 DEF RegisterInv, OneCorrection, screenVarsOf
  <2>2. CASE q \notin Corrections
    <3>1. Corrections' = Corrections
      BY <1>1, <2>2 DEF Corrections
    <3> QED
      BY <3>1 DEF RegisterInv, OneCorrection, screenVarsOf
  <2> QED
    BY <2>1, <2>2
<1>6. MarksLandWhereShown'
  BY <1>1 DEF RegisterInv, MarksLandWhereShown
<1> QED
  BY <1>1, <1>3, <1>4, <1>5, <1>6

\* The records of a request, as it finds them.
LEMMA HeldShape ==
  ASSUME RegisterInv, NEW q \in sent
  PROVE  /\ Targets(q) \subseteq Enrolled /\ q.lesson \in Sittings
         /\ Held(q) \in [Targets(q) -> MarksOrNone] /\ Held(q) \in Partial(MarksOrNone)
         /\ \A p \in Targets(q) : Held(q)[p] = mark[q.lesson][p]
<1>1. q \in Posts
  BY DEF RegisterInv, RegisterTypes, PostOK
<1>2. Targets(q) \subseteq Enrolled /\ q.lesson \in Sittings
  BY <1>1 DEF Posts, Partial, Targets
<1>3. Held(q) \in [Targets(q) -> MarksOrNone]
  BY <1>2 DEF Held, RegisterInv, RegisterTypes
<1> QED
  BY <1>2, <1>3 DEF Partial, Held

LEMMA ServeWriteKeeps == ASSUME RegisterInv, NEW q \in sent, ServeWrite(q) PROVE RegisterInv'
<1>1. q.is = "asked" /\ UNCHANGED <<engine, screenVarsOf, events>>
  BY DEF ServeWrite
<1>2. q \in Posts /\ (engine = "demo" => q.by = "page") /\ q.seen \in Partial(MarksOrNone) \cup {NoMark}
  BY DEF RegisterInv, RegisterTypes, PostOK, Posts
<1>3. CASE ~Accepts(q)
  <2> DEFINE r == [q EXCEPT !.is = "refused"]
  <2>1. Replace(q, r) /\ UNCHANGED <<storeVars, missed>>
    BY <1>3 DEF ServeWrite, Refuse
  <2>2. /\ r \in Posts /\ r.is = "refused" /\ r.by = q.by /\ r.kind = q.kind /\ r.lesson = q.lesson
        /\ r.screen = q.screen
    BY <1>2 DEF Posts
  <2> HIDE DEF r
  <2>3. PostOK(r)
    BY <1>2, <2>2 DEF PostOK
  <2>4. /\ sent' = (sent \ {q}) \cup {r} /\ selected' = selected
        /\ RegisterTypes' /\ ReadingFollows' /\ ListedCancelled' /\ OneCorrection' /\ MarksLandWhereShown'
    BY <1>1, <2>1, <2>2, <2>3, Replaced DEF RegisterInv, RegisterTypes, storeVars
  <2>5. ReadTells'
    BY <1>1, <2>1, <2>2, <2>4 DEF RegisterInv, ReadTells, Heard, sessionAttendance, screenVarsOf, storeVars
  <2>6. CorrectionStands'
    BY <1>1, <2>1, <2>2, <2>4 DEF RegisterInv, CorrectionStands, storeVars, Targets
  <2>7. TrailTellsTheMark' /\ OnlyOvertaking' /\ MarksAreCorrected'
    BY <1>1, <2>1 DEF RegisterInv, storeVars, TrailTellsTheMark, OnlyOvertaking, MarksAreCorrected
  <2> QED
    BY <2>4, <2>5, <2>6, <2>7 DEF RegisterInv
<1>4. CASE Accepts(q) /\ InTwoSteps(q)
  <2> DEFINE r == [q EXCEPT !.is = "begun", !.seen = Held(q)]
  <2>1. Replace(q, r) /\ UNCHANGED <<storeVars, missed>>
    BY <1>4 DEF ServeWrite
  <2>2. /\ r \in Posts /\ r.is = "begun" /\ r.seen = Held(q) /\ r.by = q.by /\ r.kind = q.kind /\ r.lesson = q.lesson
        /\ r.screen = q.screen /\ r.entries = q.entries
    <3>1. Held(q) \in Partial(MarksOrNone) \cup {NoMark} /\ "begun" \in {"asked", "begun", "done", "refused"}
      BY HeldShape
    <3> QED
      BY <1>2, <3>1 DEF Posts
  <2> HIDE DEF r
  <2>3. PostOK(r)
    <3>1. Targets(r) = Targets(q)
      BY <2>2 DEF Targets
    <3> QED
      BY <1>2, <1>4, <2>2, <3>1, HeldShape DEF PostOK, InTwoSteps
  <2>4. /\ sent' = (sent \ {q}) \cup {r} /\ selected' = selected
        /\ RegisterTypes' /\ ReadingFollows' /\ ListedCancelled' /\ OneCorrection' /\ MarksLandWhereShown'
    BY <1>1, <2>1, <2>2, <2>3, Replaced DEF RegisterInv, RegisterTypes, storeVars
  <2>5. ReadTells'
    BY <1>1, <2>1, <2>2, <2>4 DEF RegisterInv, ReadTells, Heard, sessionAttendance, screenVarsOf, storeVars
  <2>6. CorrectionStands'
    <3> SUFFICES ASSUME engine = "demo", NEW o \in sent', o.is = "begun", NEW p \in Targets(o)
                 PROVE  mark[o.lesson][p] # NoMark /\ o.seen[p] = mark[o.lesson][p]
      BY <1>1, <2>1 DEF CorrectionStands, storeVars, Targets
    <3>1. CASE o \in sent
      BY <3>1 DEF RegisterInv, CorrectionStands
    <3>2. CASE o = r
      BY <1>4, <2>2, <3>2, HeldShape DEF Accepts, InTwoSteps, LocalCorrect, findMark, Targets
    <3> QED
      BY <2>4, <3>1, <3>2
  <2>7. TrailTellsTheMark' /\ OnlyOvertaking' /\ MarksAreCorrected'
    BY <1>1, <2>1 DEF RegisterInv, storeVars, TrailTellsTheMark, OnlyOvertaking, MarksAreCorrected
  <2> QED
    BY <2>4, <2>5, <2>6, <2>7 DEF RegisterInv
<1>5. CASE Accepts(q) /\ ~InTwoSteps(q)
  <2> DEFINE r == [q EXCEPT !.is = "done"]
  <2>1. WriteMarks(q, Targets(q), Held(q)) /\ Replace(q, r) /\ Missed(q)
    BY <1>5 DEF ServeWrite
  <2>2. /\ r \in Posts /\ r.is = "done" /\ r.by = q.by /\ r.kind = q.kind /\ r.lesson = q.lesson
        /\ r.screen = q.screen
    BY <1>2 DEF Posts
  <2> HIDE DEF r
  <2>3. PostOK(r)
    BY <1>2, <2>2 DEF PostOK
  <2>4. /\ UNCHANGED <<cancelled, seated>> /\ Targets(q) \subseteq Enrolled
        /\ mark' \in [Sittings -> [Enrolled -> MarksOrNone]] /\ trail' \in [Sittings -> [Enrolled -> Seq(Entries)]]
        /\ \A l \in Sittings, p \in Enrolled : l # q.lesson \/ p \notin Targets(q) => mark'[l][p] = mark[l][p]
    BY <2>1, HeldShape, WrittenMarks DEF RegisterInv
  <2>5. missed' \in BOOLEAN /\ (q.by = "other" => missed')
    BY <2>1 DEF Missed, RegisterInv, RegisterTypes
  <2>6. /\ sent' = (sent \ {q}) \cup {r} /\ selected' = selected
        /\ RegisterTypes' /\ ReadingFollows' /\ ListedCancelled' /\ OneCorrection' /\ MarksLandWhereShown'
    BY <1>1, <2>1, <2>2, <2>3, <2>4, <2>5, Replaced
  <2>7. ReadTells'
    BY <1>2, <2>2, <2>5, <2>6 DEF ReadTells, Heard, Posts
  <2>8. engine = "demo" => q.kind # "correct" /\ bulkRecord(q)
    BY <1>5 DEF Accepts, InTwoSteps
  <2>9. TrailTellsTheMark' /\ OnlyOvertaking' /\ MarksAreCorrected'
    BY <1>1, <2>1, <2>8, HeldShape, WriteKeepsLogs DEF bulkRecord, findMark
  <2>10. CorrectionStands'
    <3> SUFFICES ASSUME engine = "demo", NEW o \in sent', o.is = "begun", NEW p \in Targets(o)
                 PROVE  mark'[o.lesson][p] # NoMark /\ o.seen[p] = mark'[o.lesson][p]
      BY <1>1 DEF CorrectionStands, Targets
    <3>1. o \in sent /\ mark[o.lesson][p] # NoMark /\ o.seen[p] = mark[o.lesson][p]
      BY <2>2, <2>6 DEF RegisterInv, CorrectionStands
    <3>2. o.lesson \in Sittings /\ p \in Enrolled
      BY <3>1, HeldShape
    <3>3. o.lesson # q.lesson \/ p \notin Targets(q)
      BY <2>8, <3>1 DEF bulkRecord, findMark
    <3> QED
      BY <2>4, <3>1, <3>2, <3>3
  <2> QED
    BY <2>6, <2>7, <2>9, <2>10 DEF RegisterInv
<1> QED
  BY <1>3, <1>4, <1>5

LEMMA FinishWriteKeeps == ASSUME RegisterInv, NEW q \in sent, FinishWrite(q) PROVE RegisterInv'
<1> DEFINE r == [q EXCEPT !.is = "done", !.seen = NoMark]
<1>1. /\ q.is = "begun" /\ UNCHANGED <<engine, screenVarsOf, events>>
      /\ WriteMarks(q, Targets(q), q.seen) /\ Replace(q, r) /\ Missed(q)
  BY DEF FinishWrite
<1>2. /\ q \in Posts /\ (engine = "demo" => q.by = "page" /\ q.kind = "correct") /\ engine # "sqlite"
      /\ q.seen \in [Targets(q) -> MarksOrNone]
  BY <1>1 DEF RegisterInv, RegisterTypes, PostOK
<1>3. /\ r \in Posts /\ r.is = "done" /\ r.by = q.by /\ r.kind = q.kind /\ r.lesson = q.lesson
      /\ r.screen = q.screen
  BY <1>2 DEF Posts
<1> HIDE DEF r
<1>4. PostOK(r)
  BY <1>2, <1>3 DEF PostOK
<1>5. /\ UNCHANGED <<cancelled, seated>>
      /\ mark' \in [Sittings -> [Enrolled -> MarksOrNone]] /\ trail' \in [Sittings -> [Enrolled -> Seq(Entries)]]
  BY <1>1, <1>2, WrittenMarks DEF RegisterInv
<1>6. missed' \in BOOLEAN /\ (q.by = "other" => missed')
  BY <1>1 DEF Missed, RegisterInv, RegisterTypes
<1>7. /\ sent' = (sent \ {q}) \cup {r} /\ selected' = selected
      /\ RegisterTypes' /\ ReadingFollows' /\ ListedCancelled' /\ OneCorrection' /\ MarksLandWhereShown'
  BY <1>1, <1>3, <1>4, <1>5, <1>6, Replaced
<1>8. ReadTells'
  BY <1>2, <1>3, <1>6, <1>7 DEF ReadTells, Heard, Posts
<1>9. engine # "mysql" => engine = "demo"
  BY <1>2, RegisterAssumption DEF RegisterInv, RegisterTypes
<1>10. engine = "demo" => \A p \in Targets(q) : mark[q.lesson][p] # NoMark /\ q.seen[p] = mark[q.lesson][p]
  BY <1>1 DEF RegisterInv, CorrectionStands
<1>11. TrailTellsTheMark' /\ OnlyOvertaking' /\ MarksAreCorrected'
  BY <1>1, <1>2, <1>9, <1>10, WriteKeepsLogs
<1>12. CorrectionStands'
  <2> SUFFICES ASSUME engine = "demo", NEW o \in sent', o.is = "begun" PROVE FALSE
    BY <1>1 DEF CorrectionStands
  <2>1. o \in sent /\ o # q
    BY <1>3, <1>7
  <2>2. o \in Corrections /\ q \in Corrections
    BY <1>2, <2>1 DEF Corrections, RegisterInv, RegisterTypes, PostOK
  <2> QED
    BY <2>1, <2>2 DEF RegisterInv, OneCorrection
<1> QED
  BY <1>7, <1>8, <1>11, <1>12 DEF RegisterInv

\* An answer is heard, or lost.
LEMMA AnsweredKeeps == ASSUME RegisterInv, NEW q \in sent, NEW lost \in BOOLEAN, Answered(q, lost) PROVE RegisterInv'
<1> DEFINE took == q.is = "done" /\ ~lost
           corrects == q.by = "page" /\ q.kind = "correct"
<1>1. /\ sent' = sent \ {q} /\ UNCHANGED <<engine, storeVars, listed, selectedId, attendance, readError, events>>
      /\ IF took /\ q.by = "page" THEN reread ELSE UNCHANGED reading
      /\ correcting' = IF corrects THEN IF took THEN Nil ELSE [correcting EXCEPT !.sent = FALSE] ELSE correcting
      /\ busyStudentId' = (IF q.by = "page" /\ q.kind = "record" THEN Nil ELSE busyStudentId)
      /\ bulkBusy' = (IF q.by = "page" /\ q.kind = "bulk" THEN FALSE ELSE bulkBusy)
      /\ missed' = (missed \/ (lost /\ q.is = "done"))
  BY DEF Answered
<1> HIDE DEF took
<1>2. selected' = selected
  BY <1>1 DEF selected
<1>3. corrects => Corrections = {q} /\ correcting \in [lesson : Sittings, student : Enrolled, sent : BOOLEAN]
  BY DEF Corrections, RegisterInv, OneCorrection, RegisterTypes
<1>4. correcting' \in [lesson : Sittings, student : Enrolled, sent : BOOLEAN] \cup {Nil}
  BY <1>1, <1>3 DEF RegisterInv, RegisterTypes
<1>5. OneCorrection'
  <2>1. CASE corrects
    <3>1. Corrections' = {}
      BY <1>1, <1>3, <2>1 DEF Corrections
    <3> QED
      BY <3>1 DEF OneCorrection
  <2>2. CASE ~corrects
    <3>1. Corrections' = Corrections /\ correcting' = correcting
      BY <1>1, <2>2 DEF Corrections
    <3> QED
      BY <3>1 DEF RegisterInv, OneCorrection
  <2> QED
    BY <2>1, <2>2
<1>6. RegisterTypes'
  BY <1>1, <1>4 DEF RegisterInv, RegisterTypes, storeVars, PostOK, Targets
<1>7. ReadingFollows' /\ ReadTells'
  <2>1. CASE took /\ q.by = "page"
    BY <1>1, <1>2, <2>1, RereadTells DEF RegisterInv
  <2>2. CASE ~(took /\ q.by = "page")
    <3>1. reading' = reading
      BY <1>1, <2>2
    <3>2. ~missed' /\ Heard' => ~missed /\ Heard
      BY <1>1, <2>2 DEF Heard, took
    <3> QED
      BY <1>1, <1>2, <3>1, <3>2 DEF RegisterInv, ReadingFollows, ReadTells, sessionAttendance, storeVars
  <2> QED
    BY <2>1, <2>2
<1>8. ListedCancelled' /\ CorrectionStands' /\ MarksLandWhereShown'
  BY <1>1 DEF RegisterInv, ListedCancelled, CorrectionStands, MarksLandWhereShown, storeVars, Targets
<1>9. TrailTellsTheMark' /\ OnlyOvertaking' /\ MarksAreCorrected'
  BY <1>1 DEF RegisterInv, storeVars, TrailTellsTheMark, OnlyOvertaking, MarksAreCorrected
<1> QED
  BY <1>5, <1>6, <1>7, <1>8, <1>9 DEF RegisterInv

\* Elsewhere a lesson is called off, or a student leaves.
LEMMA ElsewhereKeeps ==
  ASSUME RegisterInv, (\E l \in Sittings : CancelLesson(l)) \/ (\E p \in Enrolled : Withdraw(p))
  PROVE  RegisterInv'
<1>1. /\ cancelled \subseteq cancelled' /\ cancelled' \subseteq Sittings /\ seated' \subseteq Enrolled
      /\ missed' = TRUE /\ Goes
      /\ UNCHANGED <<engine, mark, trail, overtaken, screenVarsOf, sent>>
  BY DEF CancelLesson, Withdraw, RegisterInv, RegisterTypes
<1>2. events' \in 0 .. MaxEvents
  BY <1>1, RegisterAssumption DEF Goes, RegisterInv, RegisterTypes
<1>3. RegisterTypes'
  BY <1>1, <1>2 DEF RegisterInv, RegisterTypes, screenVarsOf, PostOK, Targets
<1>4. ReadingFollows' /\ ListedCancelled' /\ ReadTells'
  BY <1>1 DEF RegisterInv, ReadingFollows, ListedCancelled, ReadTells, screenVarsOf, selected
<1>5. OneCorrection' /\ CorrectionStands' /\ MarksLandWhereShown'
  BY <1>1 DEF RegisterInv, OneCorrection, CorrectionStands, MarksLandWhereShown, Corrections, screenVarsOf, Targets
<1>6. TrailTellsTheMark' /\ OnlyOvertaking' /\ MarksAreCorrected'
  BY <1>1 DEF RegisterInv, TrailTellsTheMark, OnlyOvertaking, MarksAreCorrected
<1> QED
  BY <1>3, <1>4, <1>5, <1>6 DEF RegisterInv

LEMMA NextRegisterInv == RegisterInv /\ [RegisterNext]_registerVars => RegisterInv'
<1> SUFFICES ASSUME RegisterInv, [RegisterNext]_registerVars PROVE RegisterInv'
  OBVIOUS
<1>1. CASE UNCHANGED registerVars
  <2>1. ReadingFollows' /\ ReadTells'
    BY <1>1 DEF RegisterInv, registerVars, ReadingFollows, ReadTells, Heard, sessionAttendance, selected
  <2> QED
    BY <1>1, <2>1, ReadKeeps DEF RegisterInv, RegisterTypes, registerVars, storeVars
<1>2. CASE RegisterNext
  BY <1>2, SelectionKeeps, ElsewhereKeeps, ServeRegisterKeeps, RegisterFailsKeeps, GotRegisterKeeps, RetryKeeps,
     BulkPresentKeeps, CorrectionDialogKeeps, RecordMarkKeeps, SubmitCorrectionKeeps, OthersAskKeeps, ServeWriteKeeps,
     FinishWriteKeeps, AnsweredKeeps, Zenon
  DEF RegisterNext
<1> QED
  BY <1>1, <1>2

LEMMA RegisterInvMeans == RegisterInv => RegisterHolds
<1> SUFFICES ASSUME RegisterInv PROVE RegisterHolds
  OBVIOUS
<1>1. RegisterTypeOK
  <2>1. attendance # Nil => attendance.lesson \in Sittings /\ DOMAIN attendance.rows \subseteq Enrolled
    BY DEF RegisterInv, RegisterTypes, Registers, Partial
  <2>2. reading.is \in {"none", "asked", "answered", "failed"} /\ reading.lesson \in Sittings \cup {Nil}
    BY DEF RegisterInv, ReadingFollows, Readings
  <2>3. \A q \in sent : q.is \in {"asked", "begun", "done", "refused"} /\ q.lesson \in Sittings /\ Targets(q) \subseteq Enrolled
    BY DEF RegisterInv, RegisterTypes, PostOK, Posts, Partial, Targets
  <2> QED
    BY <2>1, <2>2, <2>3 DEF RegisterInv, RegisterTypes, RegisterTypeOK, MarksOrNone
<1>2. PanelTellsItsLesson
  <2> SUFFICES ASSUME PanelShown, ~Loading, ~missed, \A q \in sent : q.by = "page" => q.is = "asked"
               PROVE  /\ attendance = sessionAttendance(selected)
                      /\ RegisterPanel.badge = "cancelled" <=> selected \in cancelled
                      /\ RegisterPanel.badge = "complete" => \A p \in seated : mark[selected][p] # NoMark
                      /\ recorded = Cardinality({p \in seated : mark[selected][p] # NoMark})
    BY DEF PanelTellsItsLesson
  <2>1. selected \in Sittings /\ selected \in DOMAIN listed
    BY Selected DEF RegisterInv, PanelShown, registerMatches
  <2>2. reading.is = "none" /\ ~readError /\ selected # Nil
    BY DEF RegisterInv, ReadingFollows, Readings, Loading, PanelShown, registerMatches, RegisterTypes
  <2>3. attendance = sessionAttendance(selected)
    BY <2>2 DEF RegisterInv, ReadTells, Heard
  <2>4. attendance.rows = [p \in seated |-> mark[selected][p]] /\ attendance.locked = (selected \in cancelled)
    BY <2>1, <2>3, RegisterShape DEF RegisterInv
  <2>5. unmarked = {p \in seated : mark[selected][p] = NoMark} /\ DOMAIN attendance.rows = seated
    BY <2>4 DEF unmarked
  <2>6. locked <=> selected \in cancelled
    BY <2>1, <2>4 DEF locked, RegisterInv, ListedCancelled
  <2>7. RegisterPanel.badge = IF locked THEN "cancelled" ELSE IF complete THEN "complete" ELSE "counted"
    BY DEF RegisterPanel
  <2>8. complete => \A p \in seated : mark[selected][p] # NoMark
    BY <2>5 DEF complete
  <2>9. DOMAIN attendance.rows \ unmarked = {p \in seated : mark[selected][p] # NoMark}
    BY <2>5
  <2>10. recorded = Cardinality({p \in seated : mark[selected][p] # NoMark})
    BY <2>9 DEF recorded
  <2> QED
    BY <2>3, <2>6, <2>7, <2>8, <2>10
<1> QED
  BY <1>1, <1>2 DEF RegisterInv, RegisterHolds

(* A mark goes into the register that was on the screen; at rest the panel *)
(* tells the lesson that is selected; the log of corrections tells how     *)
(* each mark came to be, but where an engine with row locks let another    *)
(* request in between; in the demonstration a mark is recorded once        *)
(* (Attendance view, attendance repositories and AttendanceService).       *)
THEOREM RegistersTellTheLesson == RegisterSpec => []RegisterHolds
  BY InitRegisterInv, NextRegisterInv, RegisterInvMeans, PTL DEF RegisterSpec

-----------------------------------------------------------------------------
(* The links of the calendar that the page of the make-ups follows.        *)

\* Induction on a set, from the least number outside it.
LEMMA SetInduction ==
  ASSUME NEW S, 0 \in S, \A n \in Nat : n \in S => n + 1 \in S
  PROVE  Nat \subseteq S
<1> SUFFICES ASSUME Nat \ S # {} PROVE FALSE
  OBVIOUS
<1> DEFINE T == Nat \ S
<1>1. T \subseteq Nat /\ T # {}
  OBVIOUS
<1>2. PICK x \in T : \A y \in T : ~(<<y, x>> \in OpToRel(<, Nat))
  <2> HIDE DEF T
  <2> QED
    BY <1>1, NatLessThanWellFounded, WFMin
<1>3. \A y \in T : ~(y < x)
  BY <1>1, <1>2 DEF OpToRel
<1>4. x # 0 /\ x - 1 \in Nat /\ (x - 1) + 1 = x
  OBVIOUS
<1>5. x - 1 \in T
  BY <1>4
<1> QED
  BY <1>3, <1>4, <1>5

DiaryEntries == [status : {"none", "scheduled", "cancelled", "gone"},
                 to : Bookable \cup {NoLink}, from : Bookable \cup {NoLink}]
(* The links of the calendar: a moved row and its replacement name each     *)
(* other, a row is replaced once, and a lesson that is not drawn is in no   *)
(* link.                                                                    *)
Linked(d) ==
  /\ d \in [DiaryIds -> DiaryEntries]
  /\ \A o \in Originals : d[o].status \in {"cancelled", "gone"} /\ d[o].to = NoLink /\ d[o].from = NoLink
  /\ \A l \in Bookable : d[l].status = "none" => d[l] = NotDrawn
  /\ \A l \in Bookable : d[l].to # NoLink => d[l].status = "cancelled" /\ d[d[l].to].from = l
  /\ \A m \in Bookable : d[m].from # NoLink =>
        LET l == d[m].from IN d[l].status \in {"cancelled", "gone"} /\ (d[l].status = "cancelled" => d[l].to = m)
  /\ \A m, k \in Bookable : d[m].from # NoLink /\ d[m].from = d[k].from => m = k
Succeeds(d, l, m) == m \in Bookable /\ d[m].from = l /\ (d[l].status = "cancelled" \/ d[m].status # "gone")

\* Where the walk goes on from a lesson: to the one that succeeds it.
LEMMA OnwardIs ==
  ASSUME MakeupDeskAssumption, NEW d, Linked(d), NEW l \in Bookable
  PROVE  /\ \A m : Succeeds(d, l, m) => OnwardFrom(d, l) = m
         /\ OnwardFrom(d, l) # NoLink => Succeeds(d, l, OnwardFrom(d, l))
         /\ OnwardFrom(d, l) \in Bookable \cup {NoLink}
<1>1. NoLink \notin Bookable /\ l \in DiaryIds /\ Bookable \subseteq DiaryIds
  BY DEF MakeupDeskAssumption, DiaryIds
<1>2. d[l] \in DiaryEntries /\ \A m \in Bookable : d[m] \in DiaryEntries
  BY <1>1 DEF Linked
<1>3. ASSUME NEW m \in Bookable
      PROVE  /\ d[m].from = l => d[m].status # "none" /\ d[l].status \in {"cancelled", "gone"} /\ (d[l].status = "cancelled" => d[l].to = m)
             /\ d[m].from = l => \A k \in Bookable : d[k].from = l => k = m
  <2>1. d[m].status = "none" => d[m].from = NoLink
    BY DEF Linked, NotDrawn, DiaryEntry
  <2> QED
    BY <2>1, <1>1 DEF Linked
<1>4. CASE d[l].to # NoLink
  <2>1. d[l].status = "cancelled" /\ d[d[l].to].from = l /\ d[l].to \in Bookable
    BY <1>2, <1>4 DEF Linked, DiaryEntries
  <2>2. OnwardFrom(d, l) = d[l].to
    BY <1>4, <2>1 DEF OnwardFrom, OnDiary
  <2> QED
    BY <2>1, <2>2, <1>3 DEF Succeeds
<1>5. CASE d[l].to = NoLink
  <2> DEFINE Has(m) == m \in Bookable /\ OnDiary(d, m) /\ d[m].from = l
             c == CHOOSE m \in Bookable : OnDiary(d, m) /\ d[m].from = l
  <2>1. \A m \in Bookable : d[m].from = l => d[l].status = "gone" /\ (d[m].status # "gone" <=> OnDiary(d, m))
    BY <1>1, <1>2, <1>3, <1>5 DEF OnDiary, DiaryEntries
  <2>2. CASE \E m \in Bookable : Has(m)
    <3>1. c \in Bookable /\ OnDiary(d, c) /\ d[c].from = l
      BY <2>2
    <3>2. d[l].status = "gone"
      BY <2>1, <3>1
    <3>3. attemptStateOf(d, l) = "missing"
      BY <3>2 DEF attemptStateOf, OnDiary
    <3>4. OnwardFrom(d, l) = c
      BY <1>5, <2>2, <3>3 DEF OnwardFrom
    <3> HIDE DEF c
    <3> QED
      BY <3>1, <3>4, <2>1, <1>3 DEF Succeeds
  <2>3. CASE ~\E m \in Bookable : Has(m)
    <3>1. OnwardFrom(d, l) = NoLink
      BY <1>5, <2>3 DEF OnwardFrom
    <3> QED
      BY <3>1, <2>1, <2>3 DEF Succeeds
  <2> QED
    BY <2>2, <2>3
<1> QED
  BY <1>4, <1>5

-----------------------------------------------------------------------------
(* The walk, as far as k.                                                   *)
Steps(f, d, a, k) ==
  f = [n \in 0..k |-> IF n = 0 THEN a ELSE IF OnwardFrom(d, f[n - 1]) = NoLink THEN f[n - 1] ELSE OnwardFrom(d, f[n - 1])]
Treads(f, d, a, k) ==
  /\ f[0] = a /\ f \in [0..k -> Bookable]
  /\ \A n \in 1..k : f[n] = f[n - 1] \/ Succeeds(d, f[n - 1], f[n])
  /\ \A n \in 1..k : OnwardFrom(d, f[n - 1]) = NoLink => f[n] = f[n - 1]
  /\ \A n \in 1..k : OnwardFrom(d, f[n - 1]) # NoLink => f[n] = OnwardFrom(d, f[n - 1])

\* The walk can be taken as far as any number.
LEMMA StepsExist == ASSUME NEW d, NEW a, NEW K \in Nat PROVE \E f : Steps(f, d, a, K)
<1> DEFINE Step(f, n) == IF n = 0 THEN a ELSE IF OnwardFrom(d, f[n - 1]) = NoLink THEN f[n - 1] ELSE OnwardFrom(d, f[n - 1])
           S == {k \in Nat : \E f : Steps(f, d, a, k)}
<1>1. 0 \in S
  <2> DEFINE f == [n \in 0..0 |-> a]
  <2>1. Steps(f, d, a, 0)
    BY DEF Steps
  <2> QED
    BY <2>1
<1>2. ASSUME NEW k \in Nat, k \in S PROVE k + 1 \in S
  <2>1. PICK g : Steps(g, d, a, k)
    BY <1>2
  <2> DEFINE h == [n \in 0..(k + 1) |-> IF n = k + 1 THEN Step(g, n) ELSE g[n]]
  <2>2. h = [n \in 0..(k + 1) |-> h[n]]
    OBVIOUS
  <2>3. \A n \in 0..k : h[n] = g[n] /\ g[n] = Step(g, n)
    BY <2>1 DEF Steps
  <2>4. h[k + 1] = Step(g, k + 1)
    OBVIOUS
  <2> HIDE DEF h
  <2>5. \A n \in 0..(k + 1) : Step(h, n) = Step(g, n)
    BY <2>3
  <2>6. \A n \in 0..(k + 1) : h[n] = Step(h, n)
    BY <2>3, <2>4, <2>5
  <2>7. Steps(h, d, a, k + 1)
    BY <2>2, <2>6 DEF Steps
  <2> QED
    BY <2>7
<1> HIDE DEF S
<1>3. K \in S
  BY <1>1, <1>2, SetInduction
<1> QED
  BY <1>3 DEF S

\* The walk of the ledger is one, and its end the last of it.
LEMMA WalkTreads ==
  ASSUME MakeupDeskAssumption, NEW d, Linked(d), NEW a \in Bookable
  PROVE  \E f : Treads(f, d, a, Cardinality(Bookable)) /\ Walk(d, a).ends = f[Cardinality(Bookable)]
<1> DEFINE K == Cardinality(Bookable)
           Rec(f) == f = [n \in 0..Cardinality(Bookable) |->
              IF n = 0 THEN a ELSE IF OnwardFrom(d, f[n - 1]) = NoLink THEN f[n - 1] ELSE OnwardFrom(d, f[n - 1])]
           f == CHOOSE g : Rec(g)
<1>1. K \in Nat
  BY FS_CardinalityType DEF MakeupDeskAssumption
<1>2. PICK g : Steps(g, d, a, K)
  BY <1>1, StepsExist
<1>3. Rec(f)
  <2>1. Rec(g)
    BY <1>2 DEF Steps
  <2> QED
    BY <2>1, Zenon
<1>4. Walk(d, a).ends = f[K]
  BY DEF Walk
<1>5. \A n \in 0..K : f[n] = IF n = 0 THEN a ELSE IF OnwardFrom(d, f[n - 1]) = NoLink THEN f[n - 1] ELSE OnwardFrom(d, f[n - 1])
  <2> HIDE DEF f, K
  <2> QED
    BY <1>3 DEF K
<1>6. f = [n \in 0..K |-> f[n]]
  <2> HIDE DEF f
  <2> QED
    BY <1>3
<1> HIDE DEF f, Rec, K
<1>7. f[0] = a /\ \A n \in 1..K : f[n] = IF OnwardFrom(d, f[n - 1]) = NoLink THEN f[n - 1] ELSE OnwardFrom(d, f[n - 1])
  BY <1>1, <1>5
<1> DEFINE S == {n \in Nat : n <= K => f[n] \in Bookable}
<1>8. 0 \in S
  BY <1>7
<1>9. ASSUME NEW n \in Nat, n \in S PROVE n + 1 \in S
  <2>1. n + 1 <= K => f[n] \in Bookable /\ f[n + 1] = IF OnwardFrom(d, f[n]) = NoLink THEN f[n] ELSE OnwardFrom(d, f[n])
    BY <1>1, <1>7, <1>9
  <2>2. n + 1 <= K => OnwardFrom(d, f[n]) \in Bookable \cup {NoLink}
    BY <2>1, OnwardIs
  <2> QED
    BY <2>1, <2>2
<1>10. \A n \in 0..K : f[n] \in Bookable
  <2> HIDE DEF S
  <2>1. Nat \subseteq S
    BY <1>8, <1>9, SetInduction
  <2> QED
    BY <2>1, <1>1 DEF S
<1>11. \A n \in 1..K : f[n] = f[n - 1] \/ Succeeds(d, f[n - 1], f[n])
  <2> TAKE n \in 1..K
  <2>1. f[n - 1] \in Bookable
    BY <1>1, <1>10
  <2> QED
    BY <2>1, <1>7, OnwardIs
<1>12. f \in [0..K -> Bookable]
  BY <1>10, <1>6
<1>13. Treads(f, d, a, K)
  BY <1>7, <1>11, <1>12 DEF Treads
<1> QED
  BY <1>4, <1>13 DEF K

(* Where a walk came from. *)
LEMMA TreadsBack ==
  ASSUME MakeupDeskAssumption, NEW d, NEW b \in Bookable, NEW K \in Nat, NEW g, Treads(g, d, b, K)
  PROVE  \A j \in 0..K : g[j] = b \/ \E k \in 0..K : d[g[j]].from = g[k]
<1> DEFINE S == {j \in Nat : j <= K => g[j] = b \/ \E k \in 0..K : d[g[j]].from = g[k]}
<1>1. 0 \in S
  BY DEF Treads
<1>2. ASSUME NEW j \in Nat, j \in S PROVE j + 1 \in S
  <2> SUFFICES ASSUME j + 1 <= K PROVE g[j + 1] = b \/ \E k \in 0..K : d[g[j + 1]].from = g[k]
    OBVIOUS
  <2>1. g[j + 1] = g[j] \/ Succeeds(d, g[j], g[j + 1])
    <3>1. j + 1 \in 1..K /\ (j + 1) - 1 = j
      OBVIOUS
    <3> QED
      BY <3>1 DEF Treads
  <2>2. j \in 0..K /\ j <= K
    OBVIOUS
  <2> QED
    BY <1>2, <2>1, <2>2 DEF Succeeds
<1> HIDE DEF S
<1>3. Nat \subseteq S
  BY <1>1, <1>2, SetInduction
<1> QED
  BY <1>3 DEF S

(* Two walks from two bookings never meet.                                  *)
LEMMA WalksApart ==
  ASSUME MakeupDeskAssumption, NEW d, NEW a \in Bookable, NEW b \in Bookable, d[a].from = NoLink, d[b].from = NoLink,
         NEW K \in Nat, NEW f, NEW g, Treads(f, d, a, K), Treads(g, d, b, K), NEW i \in 0..K, NEW j \in 0..K, f[i] = g[j]
  PROVE  a = b
<1> DEFINE S == {n \in Nat : n <= K => \A k \in 0..K : f[n] = g[k] => a = b}
<1>1. /\ \A k \in 0..K : g[k] \in Bookable /\ f[k] \in Bookable /\ g[k] # NoLink /\ f[k] # NoLink
      /\ \A k \in 0..K : g[k] = b \/ \E m \in 0..K : d[g[k]].from = g[m]
  <2>1. \A k \in 0..K : g[k] = b \/ \E m \in 0..K : d[g[k]].from = g[m]
    BY TreadsBack
  <2>2. NoLink \notin Bookable /\ \A k \in 0..K : g[k] \in Bookable /\ f[k] \in Bookable
    BY DEF Treads, MakeupDeskAssumption
  <2> QED
    BY <2>1, <2>2
<1>2. 0 \in S
  BY <1>1 DEF Treads
<1>3. ASSUME NEW n \in Nat, n \in S PROVE n + 1 \in S
  <2> SUFFICES ASSUME n + 1 <= K, NEW k \in 0..K, f[n + 1] = g[k] PROVE a = b
    OBVIOUS
  <2>1. f[n + 1] = f[n] \/ Succeeds(d, f[n], f[n + 1])
    <3>1. n + 1 \in 1..K /\ (n + 1) - 1 = n
      OBVIOUS
    <3> QED
      BY <3>1 DEF Treads
  <2>2. n \in 0..K /\ n <= K
    OBVIOUS
  <2>3. CASE f[n + 1] = f[n]
    BY <1>3, <2>2, <2>3
  <2>4. CASE d[f[n + 1]].from = f[n]
    BY <1>1, <1>3, <2>2, <2>4
  <2> QED
    BY <2>1, <2>3, <2>4 DEF Succeeds
<1> HIDE DEF S
<1>4. Nat \subseteq S
  BY <1>2, <1>3, SetInduction
<1> QED
  BY <1>4 DEF S

(* The walk is as long as the calendar, and arrives.                        *)
LEMMA WalkArrives ==
  ASSUME MakeupDeskAssumption, NEW d, Linked(d), NEW a \in Bookable, d[a].from = NoLink,
         NEW f, Treads(f, d, a, Cardinality(Bookable))
  PROVE  OnwardFrom(d, f[Cardinality(Bookable)]) = NoLink
<1> DEFINE K == Cardinality(Bookable)
<1> SUFFICES ASSUME OnwardFrom(d, f[K]) # NoLink PROVE FALSE
  OBVIOUS
<1>1. K \in Nat
  BY FS_CardinalityType DEF MakeupDeskAssumption
<1>2. Treads(f, d, a, K) /\ IsFiniteSet(Bookable) /\ NoLink \notin Bookable
  BY DEF MakeupDeskAssumption
<1>3. \A S : S = Bookable => Cardinality(S) = K
  OBVIOUS
<1> HIDE DEF K
<1>4. \A n \in 0..K : OnwardFrom(d, f[n]) # NoLink
  <2> SUFFICES ASSUME NEW n \in 0..K, OnwardFrom(d, f[n]) = NoLink PROVE FALSE
    OBVIOUS
  <2> DEFINE S == {k \in Nat : n + k <= K => f[n + k] = f[n]}
  <2>1. 0 \in S
    OBVIOUS
  <2>2. ASSUME NEW k \in Nat, k \in S PROVE k + 1 \in S
    <3> SUFFICES ASSUME n + (k + 1) <= K PROVE f[n + (k + 1)] = f[n]
      OBVIOUS
    <3>1. n + (k + 1) \in 1..K /\ (n + (k + 1)) - 1 = n + k /\ n + k <= K
      BY <1>1
    <3>2. f[n + k] = f[n]
      BY <2>2, <3>1
    <3> QED
      BY <1>2, <3>1, <3>2 DEF Treads
  <2> HIDE DEF S
  <2>3. Nat \subseteq S
    BY <2>1, <2>2, SetInduction
  <2>4. K - n \in Nat /\ n + (K - n) = K
    BY <1>1
  <2>5. f[K] = f[n]
    BY <2>3, <2>4 DEF S
  <2> QED
    BY <2>5
<1>5. \A n \in 1..K : d[f[n]].from = f[n - 1] /\ f[n - 1] # NoLink
  <2> TAKE n \in 1..K
  <2>1. n - 1 \in 0..K
    BY <1>1
  <2>2. f[n - 1] \in Bookable
    BY <1>2, <2>1 DEF Treads
  <2>3. OnwardFrom(d, f[n - 1]) # NoLink
    BY <1>4, <2>1
  <2>4. Succeeds(d, f[n - 1], OnwardFrom(d, f[n - 1]))
    BY <2>2, <2>3, OnwardIs
  <2>5. f[n] = OnwardFrom(d, f[n - 1])
    BY <1>2, <2>3 DEF Treads
  <2> QED
    BY <1>2, <2>2, <2>4, <2>5 DEF Succeeds
<1> DEFINE S == {n \in Nat : \A j \in 0..K : n < j => f[n] # f[j]}
<1>6. 0 \in S
  <2> SUFFICES ASSUME NEW j \in 0..K, 0 < j PROVE f[0] # f[j]
    OBVIOUS
  <2>1. j \in 1..K
    BY <1>1
  <2> QED
    BY <1>5, <1>2, <2>1 DEF Treads
<1>7. ASSUME NEW n \in Nat, n \in S PROVE n + 1 \in S
  <2> SUFFICES ASSUME NEW j \in 0..K, n + 1 < j PROVE f[n + 1] # f[j]
    OBVIOUS
  <2>1. n + 1 \in 1..K /\ (n + 1) - 1 = n /\ j \in 1..K /\ j - 1 \in 0..K /\ n < j - 1
    BY <1>1
  <2>2. f[n] # f[j - 1]
    BY <1>7, <2>1
  <2> QED
    BY <1>5, <2>1, <2>2
<1> HIDE DEF S
<1>8. Nat \subseteq S
  BY <1>6, <1>7, SetInduction
<1>9. IsFiniteSet(0..K) /\ Cardinality(0..K) = K + 1
  <2>1. 0 \in Int /\ K \in Int
    BY <1>1
  <2>2. IsFiniteSet(0..K) /\ Cardinality(0..K) = IF 0 > K THEN 0 ELSE K - 0 + 1
    BY <2>1, FS_Interval
  <2> QED
    BY <2>2, <1>1
<1>10. f \in [0..K -> Bookable] /\ Cardinality(Bookable) < Cardinality(0..K)
  BY <1>1, <1>2, <1>9, <1>3 DEF Treads
<1>11. PICK x \in 0..K, y \in 0..K : x # y /\ f[x] = f[y]
  <2> DEFINE I == 0..K
  <2>1. IsFiniteSet(I) /\ IsFiniteSet(Bookable) /\ f \in [I -> Bookable] /\ Cardinality(Bookable) < Cardinality(I)
    BY <1>9, <1>10, <1>2
  <2> HIDE DEF I
  <2>2. \E x, y \in I : x # y /\ f[x] = f[y]
    BY <2>1, FS_PigeonHole
  <2> QED
    BY <2>2 DEF I
<1>12. x \in Nat /\ y \in Nat /\ (x < y \/ y < x)
  BY <1>11
<1>13. x \in S /\ y \in S
  BY <1>8, <1>12
<1> QED
  BY <1>11, <1>12, <1>13 DEF S

-----------------------------------------------------------------------------
(* What a booking leads to: a set of lessons through which the links go    *)
(* on to the last one.                                                      *)
Leads(d, a, e) ==
  \E S \in SUBSET Bookable :
    a \in S /\ e \in S /\ OnwardFrom(d, e) = NoLink /\ \A x \in S \ {e} : OnwardFrom(d, x) \in S
(* A booking whose lessons are all over.                                    *)
Spent(d, a) ==
  \E S \in SUBSET Bookable :
    /\ a \in S
    /\ \A x \in S : d[x].status \in {"cancelled", "gone"} /\ OnwardFrom(d, x) \in S \cup {NoLink}
Booked(d, a) == a \in Bookable /\ d[a].status # "none" /\ d[a].from = NoLink

\* A booking leads to the end of its walk, which is a lesson that was drawn.
LEMMA WalkLeads ==
  ASSUME MakeupDeskAssumption, NEW d, Linked(d), NEW a, Booked(d, a)
  PROVE  /\ Leads(d, a, Walk(d, a).ends)
         /\ Walk(d, a).ends \in Bookable /\ d[Walk(d, a).ends].status # "none"
<1> DEFINE K == Cardinality(Bookable)
           w == Walk(d, a).ends
<1>1. a \in Bookable /\ d[a].from = NoLink /\ d[a].status # "none"
  BY DEF Booked
<1>2. PICK f : Treads(f, d, a, Cardinality(Bookable)) /\ Walk(d, a).ends = f[Cardinality(Bookable)]
  BY <1>1, WalkTreads
<1>3. OnwardFrom(d, w) = NoLink
  BY <1>1, <1>2, WalkArrives
<1>4. K \in Nat /\ NoLink \notin Bookable
  BY FS_CardinalityType DEF MakeupDeskAssumption
<1>5. Treads(f, d, a, K) /\ w = f[K]
  BY <1>2
<1>6. \A j \in 0..K : f[j] = a \/ \E k \in 0..K : d[f[j]].from = f[k]
  BY <1>1, <1>4, <1>5, TreadsBack
<1> HIDE DEF K, w
<1> DEFINE S == {f[n] : n \in 0..K}
<1>7. 0 \in 0..K /\ K \in 0..K
  BY <1>4
<1>8. S \in SUBSET Bookable /\ a \in S /\ w \in S
  BY <1>5, <1>7 DEF Treads
<1>9. ASSUME NEW x \in S \ {w} PROVE OnwardFrom(d, x) \in S
  <2>1. PICK n \in 0..K : x = f[n]
    BY <1>9
  <2>2. n # K
    BY <1>5, <2>1
  <2>3. n + 1 \in 1..K /\ n + 1 \in 0..K /\ (n + 1) - 1 = n
    BY <1>4, <2>2
  <2> DEFINE Q == {k \in Nat : n + k <= K => f[n + k] = x}
  <2>4. CASE OnwardFrom(d, x) = NoLink
    <3>1. 0 \in Q
      BY <2>1
    <3>2. ASSUME NEW k \in Nat, k \in Q PROVE k + 1 \in Q
      <4> SUFFICES ASSUME n + (k + 1) <= K PROVE f[n + (k + 1)] = x
        OBVIOUS
      <4>1. n + (k + 1) \in 1..K /\ (n + (k + 1)) - 1 = n + k /\ n + k <= K
        BY <1>4
      <4>2. f[n + k] = x
        BY <3>2, <4>1
      <4> QED
        BY <1>5, <2>4, <4>1, <4>2 DEF Treads
    <3> HIDE DEF Q
    <3>3. Nat \subseteq Q
      BY <3>1, <3>2, SetInduction
    <3>4. K - n \in Nat /\ n + (K - n) = K
      BY <1>4
    <3>5. f[K] = x
      BY <3>3, <3>4 DEF Q
    <3> QED
      BY <3>5, <1>5
  <2>5. CASE OnwardFrom(d, x) # NoLink
    BY <1>5, <2>1, <2>3, <2>5 DEF Treads
  <2> QED
    BY <2>4, <2>5
<1>10. Leads(d, a, w)
  <2> HIDE DEF S
  <2> QED
    BY <1>3, <1>8, <1>9 DEF Leads
<1>11. w \in Bookable /\ d[w].status # "none"
  <2>1. w \in Bookable /\ (w = a \/ \E k \in 0..K : d[w].from = f[k])
    BY <1>5, <1>6, <1>7, <1>8
  <2>2. w = a \/ d[w].from # NoLink
    BY <1>4, <1>5, <2>1 DEF Treads
  <2> QED
    BY <1>1, <2>1, <2>2 DEF Linked, NotDrawn, DiaryEntry
<1> QED
  BY <1>10, <1>11 DEF w

(* A set that the links do not leave holds the end of the walk.             *)
LEMMA WalkStays ==
  ASSUME MakeupDeskAssumption, NEW d, Linked(d), NEW a \in Bookable, NEW S, a \in S,
         \A x \in S : OnwardFrom(d, x) \in S \cup {NoLink}
  PROVE  Walk(d, a).ends \in S
<1> DEFINE K == Cardinality(Bookable)
<1>1. PICK f : Treads(f, d, a, Cardinality(Bookable)) /\ Walk(d, a).ends = f[Cardinality(Bookable)]
  BY WalkTreads
<1>2. K \in Nat
  BY FS_CardinalityType DEF MakeupDeskAssumption
<1>3. Treads(f, d, a, K) /\ Walk(d, a).ends = f[K]
  BY <1>1
<1> HIDE DEF K
<1> DEFINE Q == {n \in Nat : n <= K => f[n] \in S}
<1>4. 0 \in Q
  BY <1>3 DEF Treads
<1>5. ASSUME NEW n \in Nat, n \in Q PROVE n + 1 \in Q
  <2> SUFFICES ASSUME n + 1 <= K PROVE f[n + 1] \in S
    OBVIOUS
  <2>1. n + 1 \in 1..K /\ (n + 1) - 1 = n /\ n <= K
    BY <1>2
  <2>2. f[n] \in S
    BY <1>5, <2>1
  <2>3. f[n + 1] = f[n] \/ (OnwardFrom(d, f[n]) # NoLink /\ f[n + 1] = OnwardFrom(d, f[n]))
    BY <1>3, <2>1 DEF Treads
  <2> QED
    BY <2>2, <2>3
<1> HIDE DEF Q
<1>6. Nat \subseteq Q
  BY <1>4, <1>5, SetInduction
<1> QED
  BY <1>2, <1>3, <1>6 DEF Q

\* What a booking leads to is the end of its walk.
LEMMA LeadsIsWalk ==
  ASSUME MakeupDeskAssumption, NEW d, Linked(d), NEW a, Booked(d, a), NEW e, Leads(d, a, e)
  PROVE  Walk(d, a).ends = e
<1>1. PICK S \in SUBSET Bookable :
        a \in S /\ e \in S /\ OnwardFrom(d, e) = NoLink /\ \A x \in S \ {e} : OnwardFrom(d, x) \in S
  BY DEF Leads
<1>2. Walk(d, a).ends \in S
  BY <1>1, WalkStays
<1>3. OnwardFrom(d, Walk(d, a).ends) = NoLink
  <2>1. PICK f : Treads(f, d, a, Cardinality(Bookable)) /\ Walk(d, a).ends = f[Cardinality(Bookable)]
    BY WalkTreads DEF Booked
  <2> QED
    BY <2>1, WalkArrives DEF Booked
<1> QED
  BY <1>1, <1>2, <1>3 DEF MakeupDeskAssumption

\* Walks of two bookings end apart.
LEMMA EndsApart ==
  ASSUME MakeupDeskAssumption, NEW d, Linked(d), NEW a, NEW b, Booked(d, a), Booked(d, b),
         Walk(d, a).ends = Walk(d, b).ends
  PROVE  a = b
<1>1. Cardinality(Bookable) \in Nat
  BY FS_CardinalityType DEF MakeupDeskAssumption
<1>2. Cardinality(Bookable) \in 0..Cardinality(Bookable)
  BY <1>1
<1>3. PICK f : Treads(f, d, a, Cardinality(Bookable)) /\ Walk(d, a).ends = f[Cardinality(Bookable)]
  BY WalkTreads DEF Booked
<1>4. PICK g : Treads(g, d, b, Cardinality(Bookable)) /\ Walk(d, b).ends = g[Cardinality(Bookable)]
  BY WalkTreads DEF Booked
<1> DEFINE K == Cardinality(Bookable)
<1>5. K \in Nat /\ K \in 0..K /\ Treads(f, d, a, K) /\ Treads(g, d, b, K) /\ f[K] = g[K]
  BY <1>1, <1>2, <1>3, <1>4
<1> HIDE DEF K
<1> QED
  BY <1>5, WalksApart DEF Booked

\* A booking whose walk ends on no scheduled lesson is over,
LEMMA NotLiveIsSpent ==
  ASSUME MakeupDeskAssumption, NEW d, Linked(d), NEW a, Booked(d, a), d[Walk(d, a).ends].status # "scheduled"
  PROVE  Spent(d, a)
<1> DEFINE w == Walk(d, a).ends
<1>1. Leads(d, a, w) /\ w \in Bookable /\ d[w].status # "none"
  BY WalkLeads
<1>2. d[w].status \in {"cancelled", "gone"}
  <2>1. w \in DiaryIds
    BY <1>1 DEF DiaryIds
  <2>2. d[w] \in DiaryEntries
    BY <2>1 DEF Linked
  <2> QED
    BY <1>1, <2>2 DEF DiaryEntries
<1> HIDE DEF w
<1>3. PICK S \in SUBSET Bookable :
        a \in S /\ w \in S /\ OnwardFrom(d, w) = NoLink /\ \A x \in S \ {w} : OnwardFrom(d, x) \in S
  BY <1>1 DEF Leads
<1>4. \A x \in S : d[x].status \in {"cancelled", "gone"}
  <2> TAKE x \in S
  <2>1. CASE x = w
    BY <1>2, <2>1
  <2>2. CASE x # w
    <3>1. OnwardFrom(d, x) # NoLink
      BY <1>3, <2>2 DEF MakeupDeskAssumption
    <3>2. Succeeds(d, x, OnwardFrom(d, x))
      BY <3>1, OnwardIs
    <3> QED
      BY <3>2 DEF Succeeds, Linked, MakeupDeskAssumption
  <2> QED
    BY <2>1, <2>2
<1> QED
  BY <1>3, <1>4 DEF Spent

\* and one that is over has a walk that ends on none.
LEMMA SpentIsNotLive ==
  ASSUME MakeupDeskAssumption, NEW d, Linked(d), NEW a \in Bookable, Spent(d, a)
  PROVE  d[Walk(d, a).ends].status # "scheduled"
<1>1. PICK S \in SUBSET Bookable :
        a \in S /\ \A x \in S : d[x].status \in {"cancelled", "gone"} /\ OnwardFrom(d, x) \in S \cup {NoLink}
  BY DEF Spent
<1>2. Walk(d, a).ends \in S
  BY <1>1, WalkStays
<1> QED
  BY <1>1, <1>2

(* What a write may do to the calendar: what is over stays over, and its    *)
(* links go where they went, or nowhere.                                    *)
Carries(d, e) ==
  /\ Linked(e)
  /\ \A x \in Bookable :
       /\ d[x].status # "none" => e[x].status # "none" /\ e[x].from = d[x].from
       /\ d[x].status \in {"cancelled", "gone"} =>
             e[x].status \in {"cancelled", "gone"} /\ OnwardFrom(e, x) \in {OnwardFrom(d, x), NoLink}
       /\ e[x].status = "scheduled" => d[x].status \in {"scheduled", "none"}
SameLinks(d, e) == \A x \in Bookable : OnwardFrom(e, x) = OnwardFrom(d, x)
Kept(d) == \A l \in Bookable :
    d[l].status = "gone" /\ d[l].from \in Bookable => d[d[l].from].status # "gone"

\* The entries of the calendar.
LEMMA EntryFacts ==
  ASSUME MakeupDeskAssumption, NEW d, Linked(d)
  PROVE  /\ NoLink \notin Bookable /\ Bookable \subseteq DiaryIds /\ NoLink \notin DiaryIds
         /\ \A l \in DiaryIds : d[l] \in DiaryEntries
         /\ \A l \in DiaryIds : d[l].status = "scheduled" => l \in Bookable /\ d[l].to = NoLink
         /\ \A m \in Bookable : d[m].from # NoLink => d[m].from \in Bookable
         /\ \A m \in Bookable : d[m].status \in {"scheduled", "none"} => \A k \in Bookable : d[k].from # m
         /\ \A m \in Bookable : d[m].status \in {"scheduled", "none"} => OnwardFrom(d, m) = NoLink
<1>1. NoLink \notin Bookable /\ Bookable \subseteq DiaryIds /\ NoLink \notin DiaryIds
  BY DEF MakeupDeskAssumption, DiaryIds
<1>2. \A l \in DiaryIds : d[l] \in DiaryEntries
  BY DEF Linked
<1>3. \A l \in DiaryIds : d[l].status = "scheduled" => l \in Bookable /\ d[l].to = NoLink
  BY DEF Linked, DiaryIds
<1>4. \A m \in Bookable : d[m].from # NoLink => d[m].from \in Bookable
  BY <1>1, <1>2 DEF DiaryEntries
<1>5. \A m \in Bookable : d[m].status \in {"scheduled", "none"} => \A k \in Bookable : d[k].from # m
  BY <1>1 DEF Linked
<1>6. ASSUME NEW m \in Bookable, d[m].status \in {"scheduled", "none"} PROVE OnwardFrom(d, m) = NoLink
  BY <1>5, <1>6, OnwardIs DEF Succeeds
<1> QED
  BY <1>1, <1>2, <1>3, <1>4, <1>5, <1>6

\* A lesson nothing came from leads nowhere.
LEMMA NoLinkOnward ==
  ASSUME MakeupDeskAssumption, NEW d, Linked(d), NEW m \in Bookable, d[m].status = "scheduled" \/ d[m].status = "none"
  PROVE  OnwardFrom(d, m) = NoLink
  BY EntryFacts

(* Onward links are what two calendars agree on when they agree on what succeeds what. *)
LEMMA SameSuccession ==
  ASSUME MakeupDeskAssumption, NEW d, NEW e, Linked(d), Linked(e), NEW x \in Bookable,
         \A m \in Bookable : Succeeds(e, x, m) <=> Succeeds(d, x, m)
  PROVE  OnwardFrom(e, x) = OnwardFrom(d, x)
<1>1. CASE \E m \in Bookable : Succeeds(d, x, m)
  BY <1>1, OnwardIs
<1>2. CASE ~\E m \in Bookable : Succeeds(d, x, m)
  <2>1. OnwardFrom(d, x) = NoLink /\ OnwardFrom(e, x) = NoLink
    BY <1>2, OnwardIs DEF Succeeds
  <2> QED
    BY <2>1
<1> QED
  BY <1>1, <1>2

(* The calendar after a booking, a move, a cancellation, a deletion.        *)
Drawn(d, l) == [d EXCEPT ![l] = DiaryEntry("scheduled", NoLink)]
Moved(d, l, x) == [d EXCEPT ![l] = DiaryEntry("scheduled", x), ![x].status = "cancelled", ![x].to = l]
CalledOff(d, x) == [d EXCEPT ![x].status = "cancelled"]
Removed(d, x) == [d EXCEPT ![x] = DiaryEntry("gone", d[x].from)]

\* A lesson is drawn.
LEMMA DrawKeepsLinks ==
  ASSUME MakeupDeskAssumption, NEW d, Linked(d), NEW l \in Bookable, d[l] = NotDrawn,
         NEW e, e = Drawn(d, l)
  PROVE  Carries(d, e) /\ SameLinks(d, e) /\ Booked(e, l) /\ (Kept(e) => Kept(d))
<1> USE DEF Drawn
<1>1. d \in [DiaryIds -> DiaryEntries] /\ l \in DiaryIds
  BY EntryFacts DEF Linked
<1>2. /\ e[l].status = "scheduled" /\ e[l].to = NoLink /\ e[l].from = NoLink
      /\ \A x \in DiaryIds \ {l} : e[x] = d[x]
  BY <1>1 DEF DiaryEntry
<1>3. d[l].status = "none" /\ d[l].from = NoLink /\ d[l].to = NoLink
  BY DEF NotDrawn, DiaryEntry
<1>4. \A m \in Bookable : d[m].to # l /\ d[m].from # l
  BY <1>3, EntryFacts DEF Linked
<1>5. Linked(e)
  <2>1. e \in [DiaryIds -> DiaryEntries]
    BY <1>1 DEF DiaryEntries, DiaryEntry
  <2>2. \A o \in Originals : o # l /\ e[o] = d[o]
    BY <1>2 DEF MakeupDeskAssumption, DiaryIds
  <2>3. Bookable \subseteq DiaryIds /\ \A m \in Bookable : e[m].from = d[m].from /\ e[m].to = d[m].to
    BY <1>2, <1>3, EntryFacts
  <2>4. \A m \in Bookable : d[m].from # NoLink => d[m].from \in Bookable /\ d[m].from # l
    BY <1>4, EntryFacts
  <2>5. \A m \in Bookable : d[m].to # NoLink => d[m].to \in Bookable
    BY EntryFacts DEF DiaryEntries
  <2>6. \A o \in Originals : e[o].status \in {"cancelled", "gone"} /\ e[o].to = NoLink /\ e[o].from = NoLink
    <3>1. \A o \in Originals : d[o].status \in {"cancelled", "gone"} /\ d[o].to = NoLink /\ d[o].from = NoLink
      BY DEF Linked
    <3> QED
      BY <2>2, <3>1
  <2>7. \A m \in Bookable : e[m].status = "none" => e[m] = NotDrawn
    BY <1>2, <2>3 DEF Linked
  <2>8. \A m \in Bookable : e[m].to # NoLink => e[m].status = "cancelled" /\ e[e[m].to].from = m
    BY <1>2, <1>3, <2>3, <2>5 DEF Linked
  <2>9. \A m \in Bookable : e[m].from # NoLink =>
           e[e[m].from].status \in {"cancelled", "gone"} /\ (e[e[m].from].status = "cancelled" => e[e[m].from].to = m)
    BY <1>2, <2>3, <2>4 DEF Linked
  <2>10. \A m, k \in Bookable : e[m].from # NoLink /\ e[m].from = e[k].from => m = k
    BY <2>3 DEF Linked
  <2> QED
    BY <2>1, <2>6, <2>7, <2>8, <2>9, <2>10 DEF Linked
<1>6. SameLinks(d, e)
  <2> SUFFICES ASSUME NEW x \in Bookable PROVE OnwardFrom(e, x) = OnwardFrom(d, x)
    BY DEF SameLinks
  <2>1. CASE x = l
    <3>1. OnwardFrom(e, l) = NoLink
      BY <1>2, <1>5, EntryFacts
    <3>2. OnwardFrom(d, l) = NoLink
      BY <1>3, EntryFacts
    <3> QED
      BY <2>1, <3>1, <3>2
  <2>2. CASE x # l
    <3>1. \A m \in Bookable : Succeeds(e, x, m) <=> Succeeds(d, x, m)
      BY <1>1, <1>2, <1>3, <2>2, EntryFacts DEF Succeeds
    <3> QED
      BY <3>1, <1>5, SameSuccession
  <2> QED
    BY <2>1, <2>2
<1>7. Carries(d, e)
  BY <1>2, <1>3, <1>5, <1>6, EntryFacts DEF Carries, SameLinks
<1>8. Kept(e) => Kept(d)
  BY <1>2, <1>3, <1>4, EntryFacts DEF Kept
<1> QED
  BY <1>2, <1>6, <1>7, <1>8 DEF Booked

\* A lesson is moved to a new one.
LEMMA MoveKeepsLinks ==
  ASSUME MakeupDeskAssumption, NEW d, Linked(d), NEW l \in Bookable, d[l] = NotDrawn,
         NEW x \in DiaryIds, d[x].status = "scheduled",
         NEW e, e = Moved(d, l, x)
  PROVE  /\ Carries(d, e) /\ (Kept(e) => Kept(d))
         /\ x \in Bookable /\ e[x].status = "cancelled" /\ e[l].status = "scheduled"
         /\ OnwardFrom(e, x) = l /\ OnwardFrom(e, l) = NoLink /\ OnwardFrom(d, x) = NoLink
         /\ \A y \in Bookable \ {x} : OnwardFrom(e, y) = OnwardFrom(d, y)
<1> USE DEF Moved
<1>1. d \in [DiaryIds -> DiaryEntries] /\ l \in DiaryIds /\ x \in Bookable /\ d[x].to = NoLink
  BY EntryFacts DEF Linked
<1>2. d[l].status = "none" /\ d[l].from = NoLink /\ d[l].to = NoLink /\ x # l
  BY DEF NotDrawn, DiaryEntry
<1>3. /\ e[l].status = "scheduled" /\ e[l].to = NoLink /\ e[l].from = x
      /\ e[x].status = "cancelled" /\ e[x].to = l /\ e[x].from = d[x].from
      /\ \A y \in DiaryIds \ {l, x} : e[y] = d[y]
  BY <1>1, <1>2 DEF DiaryEntry, DiaryEntries
<1>4. Bookable \subseteq DiaryIds /\ NoLink \notin Bookable /\ (\A m \in Bookable : d[m].from # NoLink => d[m].from \in Bookable)
  BY EntryFacts
<1>5. \A m \in Bookable : d[m].from # l /\ d[m].from # x
  BY <1>1, <1>2, EntryFacts
<1>6. \A m \in Bookable : d[m].to # NoLink => d[m].to \in Bookable /\ m # x /\ m # l /\ d[m].to # l
  <2>1. \A m \in Bookable : d[m].to # l
    BY <1>2, EntryFacts DEF Linked
  <2>2. \A m \in Bookable : d[m].to \in Bookable \cup {NoLink}
    BY EntryFacts DEF DiaryEntries
  <2> QED
    BY <1>1, <1>2, <2>1, <2>2
<1>7. Linked(e)
  <2>1. e \in [DiaryIds -> DiaryEntries]
    BY <1>1, <1>2 DEF DiaryEntries, DiaryEntry
  <2>2. \A o \in Originals : o # l /\ o # x /\ e[o] = d[o]
    BY <1>1, <1>3 DEF MakeupDeskAssumption, DiaryIds
  <2>3. \A o \in Originals : e[o].status \in {"cancelled", "gone"} /\ e[o].to = NoLink /\ e[o].from = NoLink
    <3>1. \A o \in Originals : d[o].status \in {"cancelled", "gone"} /\ d[o].to = NoLink /\ d[o].from = NoLink
      BY DEF Linked
    <3> QED
      BY <2>2, <3>1
  <2>4. \A m \in Bookable : e[m].status = "none" => e[m] = NotDrawn
    BY <1>3, <1>4 DEF Linked
  <2>5. \A m \in Bookable : e[m].to # NoLink => e[m].status = "cancelled" /\ e[e[m].to].from = m
    <3> TAKE m \in Bookable
    <3>1. CASE m = x
      BY <3>1, <1>3
    <3>2. CASE m = l
      BY <3>2, <1>3
    <3>3. CASE m \notin {x, l}
      <4>1. e[m] = d[m]
        BY <1>3, <1>4, <3>3
      <4>2. d[m].to # NoLink => d[m].status = "cancelled" /\ d[d[m].to].from = m /\ d[m].to \in Bookable /\ d[m].to # l
        BY <1>6 DEF Linked
      <4>3. d[m].to # NoLink => e[d[m].to].from = d[d[m].to].from
        BY <1>3, <1>4, <4>2
      <4> QED
        BY <4>1, <4>2, <4>3
    <3> QED
      BY <3>1, <3>2, <3>3
  <2>6. \A m \in Bookable : e[m].from # NoLink =>
           e[e[m].from].status \in {"cancelled", "gone"} /\ (e[e[m].from].status = "cancelled" => e[e[m].from].to = m)
    <3> TAKE m \in Bookable
    <3>1. CASE m = l
      BY <3>1, <1>3
    <3>2. CASE m # l
      <4>1. e[m].from = d[m].from
        BY <1>3, <1>4, <3>2
      <4>2. d[m].from # NoLink => d[m].from \in DiaryIds \ {l, x}
        BY <1>4, <1>5
      <4>3. d[m].from # NoLink => e[d[m].from] = d[d[m].from]
        BY <1>3, <4>2
      <4> QED
        BY <4>1, <4>3 DEF Linked
    <3> QED
      BY <3>1, <3>2
  <2>7. \A m, k \in Bookable : e[m].from # NoLink /\ e[m].from = e[k].from => m = k
    <3>1. ASSUME NEW m \in Bookable PROVE e[m].from = IF m = l THEN x ELSE d[m].from
      <4>1. CASE m \in {x, l}
        BY <4>1, <1>3, <1>2
      <4>2. CASE m \notin {x, l}
        <5>1. e[m] = d[m] /\ m # l
          BY <4>2, <1>3, <1>4
        <5> QED
          BY <5>1
      <4> QED
        BY <4>1, <4>2
    <3> QED
      BY <3>1, <1>5 DEF Linked
  <2> QED
    BY <2>1, <2>3, <2>4, <2>5, <2>6, <2>7 DEF Linked
<1>8. OnwardFrom(e, l) = NoLink /\ OnwardFrom(d, x) = NoLink /\ OnwardFrom(d, l) = NoLink
  <2>1. OnwardFrom(e, l) = NoLink
    <3>1. e[l].status = "scheduled"
      BY <1>3
    <3>2. \A c : (Linked(c) /\ c[l].status = "scheduled") => OnwardFrom(c, l) = NoLink
      BY NoLinkOnward
    <3> QED
      BY <1>7, <3>1, <3>2, Zenon
  <2>2. OnwardFrom(d, x) = NoLink /\ OnwardFrom(d, l) = NoLink
    BY <1>1, <1>2, EntryFacts
  <2> QED
    BY <2>1, <2>2
<1>9. OnwardFrom(e, x) = l
  <2>1. Succeeds(e, x, l)
    BY <1>3 DEF Succeeds
  <2> QED
    BY <2>1, <1>1, <1>7, OnwardIs
<1>10. ASSUME NEW y \in Bookable \ {x} PROVE OnwardFrom(e, y) = OnwardFrom(d, y)
  <2>1. CASE y = l
    BY <2>1, <1>8
  <2>2. CASE y # l
    <3>1. \A m \in Bookable : Succeeds(e, y, m) <=> Succeeds(d, y, m)
      <4> TAKE m \in Bookable
      <4>1. e[y] = d[y] /\ y # x /\ y \in Bookable
        BY <1>3, <1>4, <1>10, <2>2
      <4>2. CASE m = l
        BY <4>1, <4>2, <1>3, <1>2, <1>4 DEF Succeeds
      <4>3. CASE m = x
        BY <4>1, <4>3, <1>3 DEF Succeeds
      <4>4. CASE m \notin {x, l}
        <5>1. e[m] = d[m]
          BY <1>3, <1>4, <4>4
        <5> QED
          BY <5>1, <4>1 DEF Succeeds
      <4> QED
        BY <4>2, <4>3, <4>4
    <3> QED
      BY <3>1, <1>7, SameSuccession
  <2> QED
    BY <2>1, <2>2
<1>11. Carries(d, e)
  <2> SUFFICES ASSUME NEW y \in Bookable
               PROVE  /\ d[y].status # "none" => e[y].status # "none" /\ e[y].from = d[y].from
                      /\ d[y].status \in {"cancelled", "gone"} =>
                           e[y].status \in {"cancelled", "gone"} /\ OnwardFrom(e, y) \in {OnwardFrom(d, y), NoLink}
                      /\ e[y].status = "scheduled" => d[y].status \in {"scheduled", "none"}
    BY <1>7 DEF Carries
  <2>1. CASE y \in {x, l}
    BY <2>1, <1>3, <1>2
  <2>2. CASE y \notin {x, l}
    BY <2>2, <1>3, <1>4, <1>10
  <2> QED
    BY <2>1, <2>2
<1>12. Kept(e) => Kept(d)
  <2> SUFFICES ASSUME Kept(e), NEW y \in Bookable, d[y].status = "gone", d[y].from \in Bookable
               PROVE  d[d[y].from].status # "gone"
    BY DEF Kept
  <2>1. e[y] = d[y]
    BY <1>3, <1>2, <1>4
  <2>2. e[d[y].from] = d[d[y].from]
    BY <1>3, <1>4, <1>5
  <2> QED
    BY <2>1, <2>2 DEF Kept
<1> QED
  BY <1>1, <1>3, <1>8, <1>9, <1>10, <1>11, <1>12

\* A lesson is called off.
LEMMA CallOffKeepsLinks ==
  ASSUME MakeupDeskAssumption, NEW d, Linked(d), NEW x \in DiaryIds, d[x].status = "scheduled",
         NEW e, e = CalledOff(d, x)
  PROVE  Carries(d, e) /\ SameLinks(d, e) /\ (Kept(e) => Kept(d))
<1> USE DEF CalledOff
<1>1. d \in [DiaryIds -> DiaryEntries] /\ x \in Bookable /\ d[x].to = NoLink
  BY EntryFacts DEF Linked
<1>2. /\ e[x].status = "cancelled" /\ e[x].to = NoLink /\ e[x].from = d[x].from
      /\ \A y \in DiaryIds \ {x} : e[y] = d[y]
  BY <1>1 DEF DiaryEntries
<1>3. /\ Bookable \subseteq DiaryIds /\ NoLink \notin Bookable /\ NoLink \notin DiaryIds
      /\ \A m \in Bookable : d[m].from # NoLink => d[m].from \in Bookable
  BY EntryFacts
<1>4. \A m \in Bookable : d[m].from # x
  BY <1>1, EntryFacts
<1>5. \A m \in Bookable : /\ e[m].from = d[m].from /\ e[m].to = d[m].to
                          /\ m # x => e[m] = d[m]
  BY <1>1, <1>2, <1>3
<1>6. Linked(e)
  <2>1. e \in [DiaryIds -> DiaryEntries]
    BY <1>1 DEF DiaryEntries
  <2>2. \A o \in Originals : e[o].status \in {"cancelled", "gone"} /\ e[o].to = NoLink /\ e[o].from = NoLink
    <3>1. \A o \in Originals : d[o].status \in {"cancelled", "gone"} /\ d[o].to = NoLink /\ d[o].from = NoLink
      BY DEF Linked
    <3>2. \A o \in Originals : o # x /\ e[o] = d[o]
      BY <1>1, <1>2 DEF MakeupDeskAssumption, DiaryIds
    <3> QED
      BY <3>1, <3>2
  <2>3. \A m \in Bookable : e[m].status = "none" => e[m] = NotDrawn
    BY <1>2, <1>5 DEF Linked
  <2>4. \A m \in Bookable : e[m].to # NoLink => e[m].status = "cancelled" /\ e[e[m].to].from = m
    <3> TAKE m \in Bookable
    <3>1. d[m].to # NoLink => d[m].status = "cancelled" /\ d[d[m].to].from = m /\ d[m].to \in Bookable
      <4>1. d[m].to \in Bookable \cup {NoLink}
        BY <1>1, <1>3 DEF DiaryEntries
      <4> QED
        BY <4>1 DEF Linked
    <3>2. d[m].to # NoLink => m # x
      BY <1>1
    <3> QED
      BY <1>5, <3>1, <3>2
  <2>5. \A m \in Bookable : e[m].from # NoLink =>
           e[e[m].from].status \in {"cancelled", "gone"} /\ (e[e[m].from].status = "cancelled" => e[e[m].from].to = m)
    <3> TAKE m \in Bookable
    <3>1. d[m].from # NoLink => d[m].from \in Bookable /\ d[m].from # x
      BY <1>3, <1>4
    <3>2. d[m].from # NoLink => e[d[m].from] = d[d[m].from]
      BY <1>5, <3>1
    <3> QED
      BY <1>5, <3>2 DEF Linked
  <2>6. \A m, k \in Bookable : e[m].from # NoLink /\ e[m].from = e[k].from => m = k
    BY <1>5 DEF Linked
  <2> QED
    BY <2>1, <2>2, <2>3, <2>4, <2>5, <2>6 DEF Linked
<1>7. ASSUME NEW y \in Bookable PROVE OnwardFrom(e, y) = OnwardFrom(d, y)
  <2>1. \A m \in Bookable : Succeeds(e, y, m) <=> Succeeds(d, y, m)
    <3> TAKE m \in Bookable
    <3>1. CASE y = x
      BY <3>1, <1>4, <1>5 DEF Succeeds
    <3>2. CASE y # x
      <4>1. e[m].status # "gone" <=> d[m].status # "gone"
        BY <1>1, <1>2, <1>5
      <4> QED
        BY <3>2, <4>1, <1>5 DEF Succeeds
    <3> QED
      BY <3>1, <3>2
  <2> QED
    BY <2>1, <1>6, SameSuccession
<1>8. Carries(d, e)
  <2> SUFFICES ASSUME NEW y \in Bookable
               PROVE  /\ d[y].status # "none" => e[y].status # "none" /\ e[y].from = d[y].from
                      /\ d[y].status \in {"cancelled", "gone"} =>
                           e[y].status \in {"cancelled", "gone"} /\ OnwardFrom(e, y) \in {OnwardFrom(d, y), NoLink}
                      /\ e[y].status = "scheduled" => d[y].status \in {"scheduled", "none"}
    BY <1>6 DEF Carries
  <2>1. CASE y = x
    BY <2>1, <1>2
  <2>2. CASE y # x
    <3>1. e[y] = d[y] /\ OnwardFrom(e, y) = OnwardFrom(d, y)
      BY <2>2, <1>5, <1>7
    <3> QED
      BY <3>1
  <2> QED
    BY <2>1, <2>2
<1>9. Kept(e) => Kept(d)
  <2>1. \A m \in Bookable : e[m].status = "gone" <=> d[m].status = "gone"
    BY <1>1, <1>2, <1>5
  <2> QED
    BY <2>1, <1>5 DEF Kept
<1> QED
  BY <1>7, <1>8, <1>9 DEF SameLinks

\* A lesson is deleted: its links are gone, and where lineages are still kept
\* no walk needed them.
LEMMA RemoveKeepsLinks ==
  ASSUME MakeupDeskAssumption, NEW d, Linked(d), NEW x \in DiaryIds, OnDiary(d, x),
         NEW e, e = Removed(d, x)
  PROVE  Carries(d, e) /\ (Kept(e) => SameLinks(d, e) /\ Kept(d))
<1> USE DEF Removed
<1>1. d \in [DiaryIds -> DiaryEntries]
  BY DEF Linked
<1>2. /\ e[x].status = "gone" /\ e[x].to = NoLink /\ e[x].from = d[x].from
      /\ \A y \in DiaryIds \ {x} : e[y] = d[y]
  BY <1>1 DEF DiaryEntry
<1>3. /\ Bookable \subseteq DiaryIds /\ NoLink \notin Bookable /\ NoLink \notin DiaryIds
      /\ \A m \in Bookable : d[m].from # NoLink => d[m].from \in Bookable
  BY EntryFacts
<1>4. \A m \in DiaryIds : e[m].from = d[m].from /\ (m # x => e[m] = d[m])
  BY <1>2
<1>5. d[x].status \in {"scheduled", "cancelled"}
  BY DEF OnDiary
<1>6. Linked(e)
  <2>1. e \in [DiaryIds -> DiaryEntries]
    <3>1. d[x].from \in Bookable \cup {NoLink}
      BY <1>1 DEF DiaryEntries
    <3>2. DiaryEntry("gone", d[x].from) \in DiaryEntries
      BY <3>1 DEF DiaryEntries, DiaryEntry
    <3> QED
      BY <1>1, <3>2
  <2>2. \A o \in Originals : e[o].status \in {"cancelled", "gone"} /\ e[o].to = NoLink /\ e[o].from = NoLink
    <3>1. \A o \in Originals : o \in DiaryIds /\ d[o].status \in {"cancelled", "gone"} /\ d[o].to = NoLink /\ d[o].from = NoLink
      BY DEF Linked, DiaryIds
    <3> TAKE o \in Originals
    <3>2. CASE o = x
      BY <3>1, <3>2, <1>2
    <3>3. CASE o # x
      BY <3>1, <3>3, <1>4
    <3> QED
      BY <3>2, <3>3
  <2>3. \A m \in Bookable : e[m].status = "none" => e[m] = NotDrawn
    BY <1>2, <1>3, <1>4 DEF Linked
  <2>4. \A m \in Bookable : e[m].to # NoLink => e[m].status = "cancelled" /\ e[e[m].to].from = m
    <3> TAKE m \in Bookable
    <3>1. CASE m = x
      BY <3>1, <1>2
    <3>2. CASE m # x
      <4>1. e[m] = d[m]
        BY <3>2, <1>3, <1>4
      <4>2. d[m].to \in Bookable \cup {NoLink}
        BY <1>1, <1>3 DEF DiaryEntries
      <4>3. d[m].to # NoLink => d[m].status = "cancelled" /\ d[d[m].to].from = m
        BY DEF Linked
      <4>4. d[m].to # NoLink => e[d[m].to].from = d[d[m].to].from
        BY <4>2, <1>3, <1>4
      <4> QED
        BY <4>1, <4>3, <4>4
    <3> QED
      BY <3>1, <3>2
  <2>5. \A m \in Bookable : e[m].from # NoLink =>
           e[e[m].from].status \in {"cancelled", "gone"} /\ (e[e[m].from].status = "cancelled" => e[e[m].from].to = m)
    <3> TAKE m \in Bookable
    <3>1. e[m].from = d[m].from
      BY <1>3, <1>4
    <3>2. d[m].from # NoLink => d[m].from \in DiaryIds
      BY <1>3
    <3>3. d[m].from # NoLink => e[d[m].from] = d[d[m].from] \/ e[d[m].from].status = "gone"
      BY <1>2, <1>4, <3>2
    <3> QED
      BY <3>1, <3>3 DEF Linked
  <2>6. \A m, k \in Bookable : e[m].from # NoLink /\ e[m].from = e[k].from => m = k
    <3>1. \A m \in Bookable : e[m].from = d[m].from
      BY <1>3, <1>4
    <3> QED
      BY <3>1 DEF Linked
  <2> QED
    BY <2>1, <2>2, <2>3, <2>4, <2>5, <2>6 DEF Linked
<1>7. ASSUME NEW y \in Bookable, d[y].status # "scheduled"
      PROVE  OnwardFrom(e, y) \in {OnwardFrom(d, y), NoLink}
  <2> SUFFICES ASSUME OnwardFrom(e, y) # NoLink PROVE OnwardFrom(d, y) = OnwardFrom(e, y)
    OBVIOUS
  <2> DEFINE m == OnwardFrom(e, y)
  <2>1. Succeeds(e, y, m)
    BY <1>6, OnwardIs
  <2> HIDE DEF m
  <2>2. m \in Bookable /\ d[m].from = y
    BY <2>1, <1>3, <1>4 DEF Succeeds
  <2>3. d[y].status \in {"cancelled", "gone"}
    BY <2>2, <1>3 DEF Linked
  <2>4. d[y].status = "cancelled" \/ d[m].status # "gone"
    <3>1. CASE y = x
      BY <1>5, <2>3, <3>1
    <3>2. CASE y # x
      <4>1. e[y] = d[y]
        BY <3>2, <1>3, <1>4
      <4>2. e[y].status = "cancelled" \/ e[m].status # "gone"
        BY <2>1 DEF Succeeds
      <4>3. e[m].status # "gone" => m # x /\ e[m] = d[m]
        BY <1>2, <1>3, <1>4, <2>2
      <4> QED
        BY <4>1, <4>2, <4>3
    <3> QED
      BY <3>1, <3>2
  <2>5. Succeeds(d, y, m)
    BY <2>2, <2>4 DEF Succeeds
  <2> QED
    BY <2>5, OnwardIs DEF m
<1>8. Carries(d, e)
  <2> SUFFICES ASSUME NEW y \in Bookable
               PROVE  /\ d[y].status # "none" => e[y].status # "none" /\ e[y].from = d[y].from
                      /\ d[y].status \in {"cancelled", "gone"} =>
                           e[y].status \in {"cancelled", "gone"} /\ OnwardFrom(e, y) \in {OnwardFrom(d, y), NoLink}
                      /\ e[y].status = "scheduled" => d[y].status \in {"scheduled", "none"}
    BY <1>6 DEF Carries
  <2>1. e[y].from = d[y].from /\ (y # x => e[y] = d[y])
    BY <1>3, <1>4
  <2>2. d[y].status \in {"cancelled", "gone"} => OnwardFrom(e, y) \in {OnwardFrom(d, y), NoLink}
    BY <1>7
  <2>3. CASE y = x
    BY <2>1, <2>2, <2>3, <1>2
  <2>4. CASE y # x
    BY <2>1, <2>2, <2>4
  <2> QED
    BY <2>3, <2>4
<1>9. ASSUME Kept(e) PROVE Kept(d)
  <2> SUFFICES ASSUME NEW m \in Bookable, d[m].status = "gone", d[m].from \in Bookable PROVE d[d[m].from].status # "gone"
    BY DEF Kept
  <2>1. e[m] = d[m]
    BY <1>5, <1>3, <1>4
  <2>2. e[d[m].from].status # "gone"
    BY <1>9, <2>1 DEF Kept
  <2>3. d[m].from # x
    BY <1>2, <2>2
  <2> QED
    BY <2>2, <2>3, <1>3, <1>4
<1>10. ASSUME Kept(e), NEW y \in Bookable PROVE OnwardFrom(e, y) = OnwardFrom(d, y)
  <2>1. ASSUME NEW m, Succeeds(d, y, m) PROVE Succeeds(e, y, m)
    <3>1. m \in Bookable /\ d[m].from = y /\ e[m].from = y
      BY <2>1, <1>3, <1>4 DEF Succeeds
    <3>2. d[y].status \in {"cancelled", "gone"}
      BY <3>1, <1>3 DEF Linked
    <3>3. e[y].status = "cancelled" \/ e[m].status # "gone"
      <4> SUFFICES ASSUME e[m].status = "gone", e[y].status # "cancelled" PROVE FALSE
        OBVIOUS
      <4>1. e[y].status # "gone"
        BY <1>10, <3>1 DEF Kept
      <4>2. y # x
        BY <4>1, <1>2
      <4>3. e[y] = d[y]
        BY <4>2, <1>3, <1>4
      <4> QED
        BY <4>1, <4>3, <3>2
    <3> QED
      BY <3>1, <3>3 DEF Succeeds
  <2>2. CASE OnwardFrom(d, y) # NoLink
    <3>1. Succeeds(e, y, OnwardFrom(d, y))
      BY <2>1, <2>2, OnwardIs
    <3> QED
      BY <3>1, <1>6, OnwardIs
  <2>3. CASE OnwardFrom(d, y) = NoLink
    <3>1. CASE d[y].status = "scheduled"
      <4>1. \A m : ~Succeeds(e, y, m)
        <5> SUFFICES ASSUME NEW m, Succeeds(e, y, m) PROVE FALSE
          OBVIOUS
        <5>1. m \in Bookable /\ d[m].from = y
          BY <1>3, <1>4 DEF Succeeds
        <5> QED
          BY <5>1, <3>1, EntryFacts
      <4> QED
        BY <4>1, <2>3, <1>6, OnwardIs
    <3>2. CASE d[y].status # "scheduled"
      BY <3>2, <2>3, <1>7
    <3> QED
      BY <3>1, <3>2
  <2> QED
    BY <2>2, <2>3
<1> QED
  BY <1>8, <1>9, <1>10 DEF SameLinks

(* What follows for bookings. *)
LEMMA BookedStays == ASSUME NEW d, NEW e, Carries(d, e), NEW a, Booked(d, a) PROVE Booked(e, a)
  BY DEF Carries, Booked

LEMMA SpentStays == ASSUME NEW d, NEW e, Carries(d, e), NEW a, Spent(d, a) PROVE Spent(e, a)
<1>1. PICK S \in SUBSET Bookable :
        /\ a \in S
        /\ \A x \in S : d[x].status \in {"cancelled", "gone"} /\ OnwardFrom(d, x) \in S \cup {NoLink}
  BY DEF Spent
<1>2. \A x \in S : e[x].status \in {"cancelled", "gone"} /\ OnwardFrom(e, x) \in S \cup {NoLink}
  <2> TAKE x \in S
  <2>1. x \in Bookable /\ d[x].status \in {"cancelled", "gone"} /\ OnwardFrom(d, x) \in S \cup {NoLink}
    BY <1>1
  <2>2. e[x].status \in {"cancelled", "gone"} /\ OnwardFrom(e, x) \in {OnwardFrom(d, x), NoLink}
    BY <2>1 DEF Carries
  <2> QED
    BY <2>1, <2>2
<1> QED
  BY <1>1, <1>2 DEF Spent

LEMMA LeadsStays == ASSUME NEW d, NEW e, SameLinks(d, e), NEW a, NEW z, Leads(d, a, z) PROVE Leads(e, a, z)
<1>1. PICK S \in SUBSET Bookable :
        a \in S /\ z \in S /\ OnwardFrom(d, z) = NoLink /\ \A x \in S \ {z} : OnwardFrom(d, x) \in S
  BY DEF Leads
<1>2. \A x \in S : OnwardFrom(e, x) = OnwardFrom(d, x)
  BY DEF SameLinks
<1> QED
  BY <1>1, <1>2 DEF Leads

(* After a move the booking leads to the replacement, and every other one   *)
(* where it did.                                                            *)
LEMMA LeadsMoves ==
  ASSUME MakeupDeskAssumption, NEW d, NEW e, NEW x, NEW l \in Bookable,
         OnwardFrom(e, x) = l, OnwardFrom(e, l) = NoLink, OnwardFrom(d, x) = NoLink,
         \A y \in Bookable \ {x} : OnwardFrom(e, y) = OnwardFrom(d, y),
         NEW a, NEW z, Leads(d, a, z)
  PROVE  Leads(e, a, IF z = x THEN l ELSE z)
<1>1. PICK S \in SUBSET Bookable :
        a \in S /\ z \in S /\ OnwardFrom(d, z) = NoLink /\ \A y \in S \ {z} : OnwardFrom(d, y) \in S
  BY DEF Leads
<1>2. CASE z = x
  <2> DEFINE T == S \cup {l}
  <2>1. T \in SUBSET Bookable /\ a \in T /\ l \in T
    BY <1>1
  <2>2. \A y \in T \ {l} : OnwardFrom(e, y) \in T
    BY <1>1, <1>2
  <2> HIDE DEF T
  <2> QED
    BY <1>2, <2>1, <2>2 DEF Leads
<1>3. CASE z # x
  <2>1. x \notin S
    BY <1>1, <1>3 DEF MakeupDeskAssumption
  <2>2. \A y \in S : OnwardFrom(e, y) = OnwardFrom(d, y)
    BY <2>1
  <2> QED
    BY <1>1, <1>3, <2>2 DEF Leads
<1> QED
  BY <1>2, <1>3

(* The ledger: a booking names a lesson that was drawn and came from no     *)
(* other, no two bookings name one, and all but the last of an obligation   *)
(* are over.                                                                *)
Ledger(d, p) ==
  /\ p \in [Originals -> [filed : BOOLEAN, attempts : Seq(Bookable), done : BOOLEAN]]
  /\ \A o \in Originals : \A i \in DOMAIN p[o].attempts : Booked(d, p[o].attempts[i])
  /\ \A o, q \in Originals : \A i \in DOMAIN p[o].attempts : \A j \in DOMAIN p[q].attempts :
        p[o].attempts[i] = p[q].attempts[j] => o = q /\ i = j
  /\ \A o \in Originals : \A i \in DOMAIN p[o].attempts :
        i < Len(p[o].attempts) => Spent(d, p[o].attempts[i])
(* While lineages can be followed, every make-up that takes place is known. *)
Known(d, p) == Kept(d) => \A l \in Bookable : d[l].status = "scheduled" =>
  \E o \in Originals : \E i \in DOMAIN p[o].attempts : Leads(d, p[o].attempts[i], l)
(* What a row or a dialog says of obligation o: if its lesson still takes   *)
(* place, the obligation stands on it.                                      *)
Aims(d, p, o, l) ==
  /\ l \in Bookable /\ d[l].status # "none"
  /\ Kept(d) /\ d[l].status = "scheduled" => p[o].attempts # <<>> /\ Leads(d, Last(p[o].attempts), l)

\* The last of a list.
LEMMA LastOf == ASSUME NEW T, NEW s \in Seq(T), s # <<>>
                PROVE  Len(s) \in DOMAIN s /\ Last(s) = s[Len(s)] /\ Last(s) \in T
  BY DEF Last

\* The ledger and what is known stay true while the calendar is written.
LEMMA LedgerFollows == ASSUME NEW d, NEW e, NEW p, Carries(d, e), Ledger(d, p) PROVE Ledger(e, p)
  BY BookedStays, SpentStays DEF Ledger

LEMMA KnownFollows ==
  ASSUME NEW d, NEW e, NEW p, Carries(d, e), Kept(e) => SameLinks(d, e) /\ Kept(d),
         \A x \in Bookable : e[x].status = "scheduled" => d[x].status = "scheduled", Known(d, p)
  PROVE  Known(e, p)
  BY LeadsStays DEF Known

LEMMA AimsFollows ==
  ASSUME NEW d, NEW e, NEW p, Carries(d, e), Kept(e) => SameLinks(d, e) /\ Kept(d),
         \A x \in Bookable : e[x].status = "scheduled" => d[x].status = "scheduled",
         NEW o, NEW l, Aims(d, p, o, l)
  PROVE  Aims(e, p, o, l)
<1>1. l \in Bookable /\ e[l].status # "none"
  BY DEF Aims, Carries
<1>2. ASSUME Kept(e), e[l].status = "scheduled" PROVE p[o].attempts # <<>> /\ Leads(e, Last(p[o].attempts), l)
  <2>1. p[o].attempts # <<>> /\ Leads(d, Last(p[o].attempts), l)
    BY <1>1, <1>2 DEF Aims
  <2> QED
    BY <1>2, <2>1, LeadsStays
<1> QED
  BY <1>1, <1>2 DEF Aims

DeskDiary == Linked(diary) /\ Ledger(diary, promises) /\ Known(diary, promises)
VerbKeeps ==
  /\ Carries(diary, diary') /\ DeskDiary'
  /\ Kept(diary') => Kept(diary)
  /\ \A o \in Originals : \A l : Aims(diary, promises, o, l) => Aims(diary', promises', o, l)

\* Each verb of the ledger and the calendar keeps them all.
LEMMA FollowSelf == ASSUME NEW d, Linked(d) PROVE Carries(d, d)
  BY DEF Carries

LEMMA RegisterKeeps == ASSUME DeskDiary, NEW o \in Originals, Register(o) \/ Discharge(o) PROVE VerbKeeps
<1> DEFINE A == Seq(Bookable)
           R == [filed : BOOLEAN, attempts : A, done : BOOLEAN]
<1>1. /\ promises \in [Originals -> R] /\ diary' = diary
      /\ \/ promises' = [promises EXCEPT ![o].filed = TRUE]
         \/ promises' = [promises EXCEPT ![o].done = TRUE]
  BY DEF Register, Discharge, DeskDiary, Ledger
<1> HIDE DEF A
<1>2. diary' = diary /\ \A q \in Originals : promises'[q].attempts = promises[q].attempts
  BY <1>1
<1>3. promises' \in [Originals -> R]
  BY <1>1
<1>4. promises' \in [Originals -> [filed : BOOLEAN, attempts : Seq(Bookable), done : BOOLEAN]]
  BY <1>3 DEF A
<1> HIDE DEF R
<1>5. Ledger(diary, promises)'
  <2>1. /\ \A q \in Originals : \A i \in DOMAIN promises[q].attempts : Booked(diary, promises[q].attempts[i])
        /\ \A q, r \in Originals : \A i \in DOMAIN promises[q].attempts : \A j \in DOMAIN promises[r].attempts :
             promises[q].attempts[i] = promises[r].attempts[j] => q = r /\ i = j
        /\ \A q \in Originals : \A i \in DOMAIN promises[q].attempts :
             i < Len(promises[q].attempts) => Spent(diary, promises[q].attempts[i])
    BY DEF DeskDiary, Ledger
  <2>2. Ledger(diary, promises')
    <3>1. \A q \in Originals : \A i \in DOMAIN promises'[q].attempts : Booked(diary, promises'[q].attempts[i])
      BY <1>2, <2>1
    <3>2. \A q, r \in Originals : \A i \in DOMAIN promises'[q].attempts : \A j \in DOMAIN promises'[r].attempts :
             promises'[q].attempts[i] = promises'[r].attempts[j] => q = r /\ i = j
      BY <1>2, <2>1
    <3>3. \A q \in Originals : \A i \in DOMAIN promises'[q].attempts :
             i < Len(promises'[q].attempts) => Spent(diary, promises'[q].attempts[i])
      BY <1>2, <2>1
    <3> QED
      BY <1>4, <3>1, <3>2, <3>3 DEF Ledger
  <2> QED
    BY <1>2, <2>2
<1>6. Known(diary, promises')
  BY <1>2 DEF DeskDiary, Known
<1>7. \A q \in Originals : \A l : Aims(diary, promises, q, l) => Aims(diary, promises', q, l)
  BY <1>2 DEF Aims
<1>8. Carries(diary, diary) /\ Linked(diary)
  BY FollowSelf DEF DeskDiary
<1> QED
  BY <1>2, <1>5, <1>6, <1>7, <1>8 DEF VerbKeeps, DeskDiary

LEMMA TakenOffKeeps ==
  ASSUME MakeupDeskAssumption, DeskDiary, NEW x \in DiaryIds, CallOff(x) \/ RemoveLesson(x) PROVE VerbKeeps
<1>1. Linked(diary) /\ promises' = promises
  BY DEF DeskDiary, CallOff, RemoveLesson
<1>2. Carries(diary, diary') /\ (Kept(diary') => SameLinks(diary, diary') /\ Kept(diary))
  <2>1. CASE CallOff(x)
    <3>1. diary[x].status = "scheduled" /\ diary' = CalledOff(diary, x)
      BY <2>1 DEF CallOff, CalledOff
    <3> QED
      BY <1>1, <3>1, CallOffKeepsLinks
  <2>2. CASE RemoveLesson(x)
    <3>1. OnDiary(diary, x) /\ diary' = Removed(diary, x)
      BY <2>2 DEF RemoveLesson, Removed
    <3> QED
      BY <1>1, <3>1, RemoveKeepsLinks
  <2> QED
    BY <2>1, <2>2
<1>3. \A y \in Bookable : diary'[y].status = "scheduled" => diary[y].status = "scheduled"
  <2>1. diary \in [DiaryIds -> DiaryEntries] /\ Bookable \subseteq DiaryIds
    BY <1>1 DEF Linked, DiaryIds
  <2>2. diary'[x].status # "scheduled" /\ \A y \in DiaryIds \ {x} : diary'[y] = diary[y]
    BY <2>1 DEF CallOff, RemoveLesson, DiaryEntry, DiaryEntries
  <2> QED
    BY <2>1, <2>2
<1>4. Linked(diary') /\ Ledger(diary', promises) /\ Known(diary', promises)
  <2>1. Linked(diary')
    BY <1>2 DEF Carries
  <2>2. Ledger(diary', promises)
    BY <1>2, LedgerFollows DEF DeskDiary
  <2>3. Known(diary', promises)
    BY <1>2, <1>3, KnownFollows DEF DeskDiary
  <2> QED
    BY <2>1, <2>2, <2>3
<1>5. \A o \in Originals : \A l : Aims(diary, promises, o, l) => Aims(diary', promises, o, l)
  BY <1>2, <1>3, AimsFollows
<1> QED
  BY <1>1, <1>2, <1>4, <1>5 DEF VerbKeeps, DeskDiary

LEMMA MoveKeeps == ASSUME MakeupDeskAssumption, DeskDiary, NEW x \in DiaryIds, Move(x) PROVE VerbKeeps
<1> DEFINE l == Draws
           e == diary'
<1>1. l \in Bookable /\ diary[l] = NotDrawn
  BY DEF Move, CanBook, Draws
<1>2. /\ Linked(diary) /\ promises' = promises /\ diary[x].status = "scheduled"
      /\ e = [diary EXCEPT ![l] = DiaryEntry("scheduled", x), ![x].status = "cancelled", ![x].to = l]
  BY DEF DeskDiary, Move
<1> HIDE DEF l, e
<1>3. e = Moved(diary, l, x)
  BY <1>2 DEF Moved
<1>4. /\ Carries(diary, e) /\ (Kept(e) => Kept(diary))
      /\ x \in Bookable /\ e[x].status = "cancelled" /\ e[l].status = "scheduled"
      /\ OnwardFrom(e, x) = l /\ OnwardFrom(e, l) = NoLink /\ OnwardFrom(diary, x) = NoLink
      /\ \A y \in Bookable \ {x} : OnwardFrom(e, y) = OnwardFrom(diary, y)
  <2>1. Linked(diary) /\ diary[x].status = "scheduled"
    BY <1>2
  <2> QED
    BY <1>1, <1>3, <2>1, MoveKeepsLinks
<1>5. \A a, z : Leads(diary, a, z) => Leads(e, a, IF z = x THEN l ELSE z)
  BY <1>1, <1>4, LeadsMoves
<1>6. Linked(e) /\ Ledger(e, promises)
  BY <1>4, LedgerFollows DEF DeskDiary, Carries
<1>7. Known(e, promises)
  <2> SUFFICES ASSUME Kept(e), NEW y \in Bookable, e[y].status = "scheduled"
               PROVE  \E o \in Originals : \E i \in DOMAIN promises[o].attempts : Leads(e, promises[o].attempts[i], y)
    BY DEF Known
  <2>1. \A z \in Bookable : diary[z].status = "scheduled" =>
           \E o \in Originals : \E i \in DOMAIN promises[o].attempts : Leads(diary, promises[o].attempts[i], z)
    BY <1>4 DEF DeskDiary, Known
  <2>2. CASE y = l
    <3>1. PICK o \in Originals : \E i \in DOMAIN promises[o].attempts : Leads(diary, promises[o].attempts[i], x)
      BY <2>1, <1>2, <1>4
    <3>2. PICK i \in DOMAIN promises[o].attempts : Leads(diary, promises[o].attempts[i], x)
      BY <3>1
    <3>3. Leads(e, promises[o].attempts[i], l)
      BY <1>5, <3>2
    <3> QED
      BY <2>2, <3>3
  <2>3. CASE y # l
    <3>1. y # x
      BY <1>4
    <3>2. diary[y].status = "scheduled"
      <4>1. diary \in [DiaryIds -> DiaryEntries] /\ Bookable \subseteq DiaryIds
        BY <1>2 DEF Linked, DiaryIds
      <4>2. e[y] = diary[y]
        BY <1>2, <2>3, <3>1, <4>1
      <4> QED
        BY <4>2
    <3>3. PICK o \in Originals : \E i \in DOMAIN promises[o].attempts : Leads(diary, promises[o].attempts[i], y)
      BY <2>1, <3>2
    <3>4. PICK i \in DOMAIN promises[o].attempts : Leads(diary, promises[o].attempts[i], y)
      BY <3>3
    <3>5. Leads(e, promises[o].attempts[i], y)
      BY <1>5, <3>1, <3>4
    <3> QED
      BY <3>5
  <2> QED
    BY <2>2, <2>3
<1>8. ASSUME NEW o \in Originals, NEW z, Aims(diary, promises, o, z) PROVE Aims(e, promises, o, z)
  <2>1. z \in Bookable /\ diary[z].status # "none" /\ e[z].status # "none"
    BY <1>4, <1>8 DEF Aims, Carries
  <2>2. ASSUME Kept(e), e[z].status = "scheduled"
        PROVE  promises[o].attempts # <<>> /\ Leads(e, Last(promises[o].attempts), z)
    <3>1. diary[z].status = "scheduled" /\ z # x
      BY <1>4, <2>1, <2>2 DEF Carries
    <3>2. promises[o].attempts # <<>> /\ Leads(diary, Last(promises[o].attempts), z)
      BY <1>4, <1>8, <2>2, <3>1 DEF Aims
    <3>3. Leads(e, Last(promises[o].attempts), z)
      BY <1>5, <3>1, <3>2
    <3> QED
      BY <3>2, <3>3
  <2> QED
    BY <2>1, <2>2 DEF Aims
<1> QED
  BY <1>2, <1>4, <1>6, <1>7, <1>8 DEF VerbKeeps, DeskDiary, e

(* Where nothing is live, nothing the obligation booked takes place.        *)
LEMMA NotLive ==
  ASSUME MakeupDeskAssumption, DeskDiary, NEW o \in Originals, ~isLive(diary, promises[o]), promises[o].attempts # <<>>
  PROVE  /\ Booked(diary, Last(promises[o].attempts)) /\ Spent(diary, Last(promises[o].attempts))
         /\ \A l : Leads(diary, Last(promises[o].attempts), l) => diary[l].status # "scheduled"
<1> DEFINE a == Last(promises[o].attempts)
<1>1. promises[o].attempts \in Seq(Bookable)
  BY DEF DeskDiary, Ledger
<1>2. Booked(diary, a)
  <2>1. Len(promises[o].attempts) \in DOMAIN promises[o].attempts /\ a = promises[o].attempts[Len(promises[o].attempts)]
    BY <1>1, LastOf
  <2> QED
    BY <2>1 DEF DeskDiary, Ledger
<1>3. StandsOn(diary, promises[o]) = Walk(diary, a).ends
  BY DEF StandsOn, currentAttemptOf
<1> HIDE DEF a
<1>4. diary[Walk(diary, a).ends].status # "scheduled"
  BY <1>3 DEF isLive, attemptStateOf, OnDiary
<1>5. Spent(diary, a)
  BY <1>2, <1>4, NotLiveIsSpent DEF DeskDiary
<1>6. \A l : Leads(diary, a, l) => diary[l].status # "scheduled"
  BY <1>2, <1>4, LeadsIsWalk DEF DeskDiary
<1> QED
  BY <1>2, <1>5, <1>6 DEF a

LEMMA BookKeeps == ASSUME MakeupDeskAssumption, DeskDiary, NEW o \in Originals, Book(o) PROVE VerbKeeps
<1> DEFINE l == Draws
           e == diary'
           s == promises[o].attempts
<1>1. l \in Bookable /\ diary[l] = NotDrawn
  BY DEF Book, CanBook, Draws
<1>2. /\ Linked(diary) /\ Ledger(diary, promises) /\ ~isLive(diary, promises[o])
      /\ e = [diary EXCEPT ![l] = DiaryEntry("scheduled", NoLink)]
      /\ promises' = [promises EXCEPT ![o].attempts = Append(s, l)]
  BY DEF DeskDiary, Book, Ledger
<1>3. s \in Seq(Bookable)
  BY <1>2 DEF Ledger
<1> HIDE DEF l, e
<1>4. Carries(diary, e) /\ SameLinks(diary, e) /\ Booked(e, l) /\ (Kept(e) => Kept(diary))
  <2>1. e = Drawn(diary, l)
    BY <1>2 DEF Drawn
  <2> QED
    BY <1>1, <1>2, <2>1, DrawKeepsLinks
<1>5. Linked(e) /\ Ledger(e, promises)
  BY <1>2, <1>4, LedgerFollows DEF Carries
<1>6. /\ promises' \in [Originals -> [filed : BOOLEAN, attempts : Seq(Bookable), done : BOOLEAN]]
      /\ promises'[o].attempts = Append(s, l)
      /\ \A q \in Originals \ {o} : promises'[q].attempts = promises[q].attempts
  <2>1. promises \in [Originals -> [filed : BOOLEAN, attempts : Seq(Bookable), done : BOOLEAN]]
    BY <1>2 DEF Ledger
  <2>2. Append(s, l) \in Seq(Bookable)
    BY <1>1, <1>3
  <2> HIDE DEF s
  <2> QED
    BY <1>2, <2>1, <2>2
<1>7. /\ DOMAIN s = 1..Len(s) /\ Len(s) \in Nat /\ DOMAIN Append(s, l) = 1..(Len(s) + 1) /\ Len(Append(s, l)) = Len(s) + 1
      /\ \A i \in 1..Len(s) : Append(s, l)[i] = s[i]
      /\ Append(s, l)[Len(s) + 1] = l
  BY <1>1, <1>3, AppendProperties, LenProperties
<1>8. \A q \in Originals : \A i \in DOMAIN promises[q].attempts : promises[q].attempts[i] # l
  <2>1. diary[l].status = "none"
    BY <1>1 DEF NotDrawn, DiaryEntry
  <2> QED
    BY <1>2, <2>1 DEF Ledger, Booked
<1>9. s # <<>> => Spent(e, Last(s))
  BY <1>2, <1>4, NotLive, SpentStays
<1>10. s # <<>> => Last(s) = s[Len(s)]
  BY DEF Last
<1>11. \A q \in Originals : \A i \in DOMAIN promises'[q].attempts :
         \/ q = o /\ i = Len(s) + 1 /\ promises'[q].attempts[i] = l
         \/ i \in DOMAIN promises[q].attempts /\ promises'[q].attempts[i] = promises[q].attempts[i]
  <2> TAKE q \in Originals
  <2> TAKE i \in DOMAIN promises'[q].attempts
  <2>1. CASE q # o
    BY <2>1, <1>6
  <2>2. CASE q = o
    <3>1. i \in 1..(Len(s) + 1)
      BY <2>2, <1>6, <1>7
    <3>2. CASE i = Len(s) + 1
      BY <2>2, <3>2, <1>6, <1>7
    <3>3. CASE i # Len(s) + 1
      <4>1. i \in 1..Len(s)
        BY <3>1, <3>3, <1>7
      <4> QED
        BY <2>2, <4>1, <1>6, <1>7
    <3> QED
      BY <3>2, <3>3
  <2> QED
    BY <2>1, <2>2
<1>12. Ledger(e, promises')
  <2>1. \A q \in Originals : \A i \in DOMAIN promises'[q].attempts : Booked(e, promises'[q].attempts[i])
    BY <1>4, <1>5, <1>11 DEF Ledger
  <2>2. \A q, r \in Originals : \A i \in DOMAIN promises'[q].attempts : \A j \in DOMAIN promises'[r].attempts :
          promises'[q].attempts[i] = promises'[r].attempts[j] => q = r /\ i = j
    BY <1>2, <1>8, <1>11 DEF Ledger
  <2>3. ASSUME NEW q \in Originals, NEW i \in DOMAIN promises'[q].attempts, i < Len(promises'[q].attempts)
        PROVE  Spent(e, promises'[q].attempts[i])
    <3>1. CASE q # o
      BY <2>3, <3>1, <1>5, <1>6 DEF Ledger
    <3>2. CASE q = o
      <4>1. i \in 1..Len(s) /\ promises'[q].attempts[i] = s[i]
        <5>1. i \in 1..(Len(s) + 1) /\ i < Len(s) + 1
          BY <2>3, <3>2, <1>6, <1>7
        <5>2. i \in 1..Len(s)
          BY <5>1, <1>7
        <5> QED
          BY <5>2, <3>2, <1>6, <1>7
      <4>2. CASE i = Len(s)
        <5>1. s # <<>>
          BY <4>1
        <5> QED
          BY <4>1, <4>2, <5>1, <1>9, <1>10
      <4>3. CASE i < Len(s)
        <5>1. Spent(e, s[i])
          BY <4>1, <4>3, <1>5, <1>7 DEF Ledger
        <5> QED
          BY <4>1, <5>1
      <4> QED
        BY <4>1, <4>2, <4>3, <1>7
    <3> QED
      BY <3>1, <3>2
  <2> QED
    BY <1>6, <2>1, <2>2, <2>3 DEF Ledger
<1>13. \A q \in Originals : \A i \in DOMAIN promises[q].attempts :
          i \in DOMAIN promises'[q].attempts /\ promises'[q].attempts[i] = promises[q].attempts[i]
  <2> TAKE q \in Originals
  <2>1. CASE q # o
    BY <2>1, <1>6
  <2>2. CASE q = o
    BY <2>2, <1>6, <1>7
  <2> QED
    BY <2>1, <2>2
<1>14. Known(e, promises')
  <2> SUFFICES ASSUME Kept(e), NEW y \in Bookable, e[y].status = "scheduled"
               PROVE  \E q \in Originals : \E i \in DOMAIN promises'[q].attempts : Leads(e, promises'[q].attempts[i], y)
    BY DEF Known
  <2>1. CASE y = l
    <3>1. OnwardFrom(e, l) = NoLink
      BY <1>1, <1>5, <2>1, NoLinkOnward
    <3>2. Leads(e, l, l)
      <4>1. {l} \in SUBSET Bookable
        BY <1>1
      <4> QED
        BY <3>1, <4>1 DEF Leads
    <3>3. Len(s) + 1 \in DOMAIN promises'[o].attempts /\ promises'[o].attempts[Len(s) + 1] = l
      BY <1>6, <1>7
    <3> QED
      BY <2>1, <3>2, <3>3
  <2>2. CASE y # l
    <3>1. diary[y].status = "scheduled"
      <4>1. diary \in [DiaryIds -> DiaryEntries] /\ Bookable \subseteq DiaryIds
        BY <1>2 DEF Linked, DiaryIds
      <4>2. e[y] = diary[y]
        BY <1>2, <2>2, <4>1
      <4> QED
        BY <4>2
    <3>2. PICK q \in Originals : \E i \in DOMAIN promises[q].attempts : Leads(diary, promises[q].attempts[i], y)
      BY <1>4, <3>1 DEF DeskDiary, Known
    <3>3. PICK i \in DOMAIN promises[q].attempts : Leads(diary, promises[q].attempts[i], y)
      BY <3>2
    <3>4. Leads(e, promises[q].attempts[i], y)
      BY <1>4, <3>3, LeadsStays
    <3> QED
      BY <3>3, <3>4, <1>13
  <2> QED
    BY <2>1, <2>2
<1>15. ASSUME NEW q \in Originals, NEW z, Aims(diary, promises, q, z) PROVE Aims(e, promises', q, z)
  <2>1. z \in Bookable /\ diary[z].status # "none" /\ e[z].status # "none"
    BY <1>4, <1>15 DEF Aims, Carries
  <2>2. ASSUME Kept(e), e[z].status = "scheduled"
        PROVE  promises'[q].attempts # <<>> /\ Leads(e, Last(promises'[q].attempts), z)
    <3>1. diary[z].status = "scheduled"
      BY <1>4, <2>1, <2>2 DEF Carries
    <3>2. promises[q].attempts # <<>> /\ Leads(diary, Last(promises[q].attempts), z)
      BY <1>4, <1>15, <2>2, <3>1 DEF Aims
    <3>3. q # o
      BY <1>2, <3>1, <3>2, NotLive
    <3>4. promises'[q].attempts = promises[q].attempts
      BY <1>6, <3>3
    <3>5. Leads(e, Last(promises[q].attempts), z)
      BY <1>4, <3>2, LeadsStays
    <3> QED
      BY <3>2, <3>4, <3>5
  <2> QED
    BY <2>1, <2>2 DEF Aims
<1> QED
  BY <1>4, <1>5, <1>12, <1>14, <1>15 DEF VerbKeeps, DeskDiary, e

(* What stands for the obligations.                                         *)
LEMMA StandInsFacts ==
  ASSUME MakeupDeskAssumption, DeskDiary
  PROVE  /\ \A o \in Originals :
              /\ Cardinality({l \in StandIns(o) : diary[l].status = "scheduled"}) <= 1
              /\ \A q \in Originals \ {o} : StandIns(o) \intersect StandIns(q) = {}
         /\ LineageKept => \A l \in Bookable : diary[l].status = "scheduled" => \E o \in Originals : l \in StandIns(o)
<1>1. Linked(diary) /\ Ledger(diary, promises) /\ Known(diary, promises)
  BY DEF DeskDiary
<1>2. \A o \in Originals : \A i \in DOMAIN promises[o].attempts : Booked(diary, promises[o].attempts[i])
  BY <1>1 DEF Ledger
<1>3. ASSUME NEW o \in Originals
      PROVE  Cardinality({l \in StandIns(o) : diary[l].status = "scheduled"}) <= 1
  <2> DEFINE s == promises[o].attempts
             T == {l \in StandIns(o) : diary[l].status = "scheduled"}
             w == Walk(diary, Last(s)).ends
  <2>1. s \in Seq(Bookable) /\ Len(s) \in Nat /\ DOMAIN s = 1..Len(s)
    BY <1>1 DEF Ledger
  <2>2. T \subseteq {w}
    <3> SUFFICES ASSUME NEW l \in T PROVE l = w
      OBVIOUS
    <3>1. PICK i \in DOMAIN s : l = Walk(diary, s[i]).ends
      BY DEF StandIns
    <3>2. ~(i < Len(s))
      <4> SUFFICES ASSUME i < Len(s) PROVE FALSE
        OBVIOUS
      <4>1. Spent(diary, s[i])
        BY <1>1 DEF Ledger
      <4>2. s[i] \in Bookable
        BY <2>1
      <4>3. diary[Walk(diary, s[i]).ends].status # "scheduled"
        BY <1>1, <4>1, <4>2, SpentIsNotLive
      <4> QED
        BY <3>1, <4>3
    <3>3. i = Len(s)
      BY <2>1, <3>2
    <3> QED
      BY <3>1, <3>3 DEF Last
  <2> HIDE DEF T, w
  <2>3. IsFiniteSet({w}) /\ Cardinality({w}) = 1
    BY FS_Singleton
  <2>4. IsFiniteSet(T) /\ Cardinality(T) <= Cardinality({w})
    BY <2>2, <2>3, FS_Subset
  <2>5. Cardinality(T) <= 1
    BY <2>3, <2>4
  <2> QED
    BY <2>5 DEF T
<1>4. ASSUME NEW o \in Originals, NEW q \in Originals \ {o} PROVE StandIns(o) \intersect StandIns(q) = {}
  <2> SUFFICES ASSUME NEW l, l \in StandIns(o), l \in StandIns(q) PROVE FALSE
    OBVIOUS
  <2>1. PICK i \in DOMAIN promises[o].attempts : l = Walk(diary, promises[o].attempts[i]).ends
    BY DEF StandIns
  <2>2. PICK j \in DOMAIN promises[q].attempts : l = Walk(diary, promises[q].attempts[j]).ends
    BY DEF StandIns
  <2>3. promises[o].attempts[i] = promises[q].attempts[j]
    BY <1>1, <1>2, <2>1, <2>2, EndsApart, ZenonT(60)
  <2> QED
    BY <1>1, <2>3 DEF Ledger
<1>5. ASSUME LineageKept, NEW l \in Bookable, diary[l].status = "scheduled" PROVE \E o \in Originals : l \in StandIns(o)
  <2>1. Kept(diary)
    BY <1>5 DEF LineageKept, Kept
  <2>2. PICK o \in Originals : \E i \in DOMAIN promises[o].attempts : Leads(diary, promises[o].attempts[i], l)
    BY <1>1, <1>5, <2>1 DEF Known
  <2>3. PICK i \in DOMAIN promises[o].attempts : Leads(diary, promises[o].attempts[i], l)
    BY <2>2
  <2>4. Walk(diary, promises[o].attempts[i]).ends = l
    BY <1>1, <1>2, <2>3, LeadsIsWalk
  <2> QED
    BY <2>4 DEF StandIns
<1> QED
  BY <1>3, <1>4, <1>5

MakeupDeskSpec == MakeupDeskInit /\ [][MakeupDeskNext]_deskVars
(* A read knows its request, and what it last learned is what is stored,    *)
(* unless a write was noticed (it is due, or under way again), it failed,   *)
(* or another client's write came after it.                                 *)
IsLookup(r) ==
  r \in [due : BOOLEAN, key : {r.key}, rows : {r.rows}, loading : BOOLEAN, error : BOOLEAN]
Lessons(k) == {[id |-> l, status |-> diary[l].status] : l \in {m \in {k} : OnDiary(diary, m)}}
Reading(s) ==
  CASE s = "ledger" -> LedgerRows("all")
    [] s = "count" -> LedgerRows(followed)
    [] s = "cancelled" -> {o \in Originals : diary[o].status = "cancelled"}
    [] OTHER -> Lessons(lookups[s].key)
Settled(s) ==
  ~lookups[s].loading /\ ~lookups[s].error /\ s \notin behind /\ (s \in ById => ~lookups[s].due)
ReadsTyped == lookups \in [DeskSources -> {lookups[s] : s \in DeskSources}] /\ \A s \in DeskSources : IsLookup(lookups[s])
RowsAreOfTheirKey == \A s \in ById : \A l \in lookups[s].rows : l.id = lookups[s].key
SettledReadsAreTrue == \A s \in DeskSources : Settled(s) => lookups[s].rows = Reading(s)
DeskInv == ReadsTyped /\ RowsAreOfTheirKey /\ SettledReadsAreTrue

\* A lesson that was read by its id has that id.
LEMMA LessonsOfKey == ASSUME NEW k PROVE \A l \in Lessons(k) : l.id = k
  BY DEF Lessons

\* What an answer finds is what is stored.
LEMMA FindingIsReading ==
  ASSUME NEW s \in DeskSources, s \in Lists \/ lookups[s].key = AskedId(s)
  PROVE  Finding(s) = Reading(s) /\ (s \in ById => Finding(s) = Lessons(AskedId(s)))
  BY DEF Finding, Reading, Lessons, DeskSources, Lists, ById

\* A page that was just opened has read nothing.
LEMMA DeskInvInit == MakeupDeskInit => DeskInv
<1> SUFFICES ASSUME DeskRests PROVE DeskInv
  BY DEF MakeupDeskInit
<1>1. \A s \in DeskSources : lookups[s] = NotAsked
  BY DEF DeskRests
<1>2. ReadsTyped
  BY <1>1 DEF ReadsTyped, IsLookup, NotAsked, DeskRests
<1>3. RowsAreOfTheirKey
  BY <1>1 DEF RowsAreOfTheirKey, NotAsked, DeskSources
<1>4. SettledReadsAreTrue
  BY <1>1 DEF SettledReadsAreTrue, Settled, NotAsked
<1> QED
  BY <1>2, <1>3, <1>4 DEF DeskInv

(* A reading depends on the two records, the read that is followed and the key. *)
LEMMA ReadingKept ==
  ASSUME UNCHANGED <<store, followed>>, NEW s \in DeskSources, s \in ById => lookups'[s].key = lookups[s].key
  PROVE  Reading(s)' = Reading(s)
<1>1. diary' = diary /\ promises' = promises /\ followed' = followed
  BY DEF store
<1>2. LedgerRows("all")' = LedgerRows("all") /\ LedgerRows(followed)' = LedgerRows(followed)
  BY <1>1 DEF LedgerRows, Obligations
<1>3. CASE s \in Lists
  BY <1>1, <1>2, <1>3 DEF Reading, Lists
<1>4. CASE s \in ById
  <2>1. Lessons(lookups[s].key)' = Lessons(lookups[s].key)
    BY <1>1, <1>4 DEF Lessons
  <2> QED
    BY <2>1, <1>4 DEF Reading, ById
<1> QED
  BY <1>3, <1>4 DEF DeskSources

(* One read changes and becomes settled only with what is stored.           *)
LEMMA OneReadChanges ==
  ASSUME DeskInv, UNCHANGED <<store, followed>>,
         NEW s \in DeskSources, NEW r, IsLookup(r), lookups' = [lookups EXCEPT ![s] = r],
         behind' = behind \/ behind' = behind \ {s},
         s \in ById => \A l \in r.rows : l.id = r.key,
         ~r.loading /\ ~r.error /\ (s \in ById => ~r.due) => r.rows = Reading(s)'
  PROVE  DeskInv'
<1>1. lookups \in [DeskSources -> {lookups[t] : t \in DeskSources}] /\ \A t \in DeskSources : IsLookup(lookups[t])
  BY DEF DeskInv, ReadsTyped
<1>2. \A t \in DeskSources : lookups'[t] = IF t = s THEN r ELSE lookups[t]
  BY <1>1
<1>3. ReadsTyped'
  <2>1. lookups' \in [DeskSources -> {lookups'[t] : t \in DeskSources}]
    BY <1>1, <1>2
  <2>2. \A t \in DeskSources : IsLookup(lookups'[t])
    BY <1>1, <1>2
  <2> QED
    BY <2>1, <2>2 DEF ReadsTyped, IsLookup
<1>4. RowsAreOfTheirKey'
  BY <1>2 DEF RowsAreOfTheirKey, DeskInv, DeskSources
<1>5. SettledReadsAreTrue'
  <2> SUFFICES ASSUME NEW t \in DeskSources, Settled(t)' PROVE lookups'[t].rows = Reading(t)'
    BY DEF SettledReadsAreTrue
  <2>1. CASE t = s
    BY <2>1, <1>2 DEF Settled
  <2>2. CASE t # s
    <3>1. lookups'[t] = lookups[t] /\ Settled(t)
      BY <2>2, <1>2 DEF Settled
    <3>2. Reading(t)' = Reading(t)
      BY <3>1, ReadingKept
    <3> QED
      BY <3>1, <3>2 DEF DeskInv, SettledReadsAreTrue
  <2> QED
    BY <2>1, <2>2
<1> QED
  BY <1>3, <1>4, <1>5 DEF DeskInv

(* A write restarts the reads or leaves them behind. *)
LEMMA WriteKeeps ==
  ASSUME DeskInv, \/ Bumps
                  \/ behind' = DeskSources /\ UNCHANGED lookups
  PROVE  DeskInv'
<1>1. lookups \in [DeskSources -> {lookups[t] : t \in DeskSources}] /\ \A t \in DeskSources : IsLookup(lookups[t])
  BY DEF DeskInv, ReadsTyped
<1>2. CASE behind' = DeskSources /\ UNCHANGED lookups
  <2>1. \A t \in DeskSources : ~Settled(t)'
    BY <1>2 DEF Settled
  <2>2. ReadsTyped' /\ RowsAreOfTheirKey'
    BY <1>2 DEF DeskInv, ReadsTyped, IsLookup, RowsAreOfTheirKey
  <2> QED
    BY <2>1, <2>2 DEF DeskInv, SettledReadsAreTrue
<1>3. CASE Bumps
  <2>1. \A t \in DeskSources : /\ lookups'[t].key = lookups[t].key /\ lookups'[t].rows = lookups[t].rows
                               /\ IsLookup(lookups'[t])
                               /\ IF t \in Lists THEN lookups'[t].loading = TRUE ELSE lookups'[t].due = TRUE
    BY <1>1, <1>3 DEF Bumps, IsLookup
  <2>2. lookups' \in [DeskSources -> {lookups'[t] : t \in DeskSources}]
    BY <1>3 DEF Bumps
  <2>3. ReadsTyped'
    BY <2>1, <2>2 DEF ReadsTyped, IsLookup
  <2>4. RowsAreOfTheirKey'
    BY <2>1 DEF RowsAreOfTheirKey, DeskInv, DeskSources
  <2>5. \A t \in DeskSources : ~Settled(t)'
    BY <2>1 DEF Settled, DeskSources
  <2> QED
    BY <2>3, <2>4, <2>5 DEF DeskInv, SettledReadsAreTrue
<1> QED
  BY <1>2, <1>3

\* Each step of a read keeps what it may show.
LEMMA LookupKeeps == ASSUME DeskInv, NEW s \in ById, Lookup(s) PROVE DeskInv'
<1> DEFINE again == lookups[s].key = AskedId(s)
           r == [due |-> FALSE, key |-> AskedId(s), rows |-> IF again THEN lookups[s].rows ELSE {},
                 loading |-> TRUE, error |-> again /\ lookups[s].error]
<1>1. s \in DeskSources /\ UNCHANGED <<store, followed>> /\ behind' = behind /\ lookups' = [lookups EXCEPT ![s] = r]
  BY DEF Lookup, DeskSources
<1>2. IsLookup(lookups[s]) /\ \A l \in lookups[s].rows : l.id = lookups[s].key
  BY <1>1 DEF DeskInv, ReadsTyped, RowsAreOfTheirKey
<1>3. lookups[s].error \in BOOLEAN
  BY <1>2 DEF IsLookup
<1>4. (again /\ lookups[s].error) \in BOOLEAN
  OBVIOUS
<1>5. IsLookup(r)
  BY <1>4 DEF IsLookup
<1>6. (\A l \in r.rows : l.id = r.key) /\ r.loading
  BY <1>2
<1> HIDE DEF r
<1> QED
  BY <1>1, <1>5, <1>6, OneReadChanges

LEMMA LandKeeps == ASSUME DeskInv, NEW s \in DeskSources, Land(s) PROVE DeskInv'
<1> DEFINE e == s \in ById /\ Finding(s) = {}
           r == [lookups[s] EXCEPT !.loading = FALSE, !.rows = Finding(s), !.error = e]
<1>1. UNCHANGED <<store, followed>> /\ behind' = behind \ {s}
  BY DEF Land
<1>2. lookups \in [DeskSources -> {lookups[t] : t \in DeskSources}] /\ IsLookup(lookups[s])
  BY DEF DeskInv, ReadsTyped
<1>3. e \in BOOLEAN
  OBVIOUS
<1>4. lookups' = [lookups EXCEPT ![s] = r]
  BY <1>2 DEF Land
<1>5. IsLookup(r) /\ r.rows = Finding(s) /\ r.key = lookups[s].key /\ lookups'[s] = r
  <2> HIDE DEF e
  <2> QED
    BY <1>2, <1>3, <1>4 DEF IsLookup
<1>6. s \in Lists \/ lookups[s].key = AskedId(s)
  BY DEF Land, UnderWay, Answers
<1>7. Finding(s) = Reading(s) /\ (s \in ById => Finding(s) = Lessons(AskedId(s)))
  BY <1>6, FindingIsReading
<1>8. Reading(s)' = Reading(s)
  BY <1>1, <1>5, ReadingKept
<1>9. s \in ById => \A l \in r.rows : l.id = r.key
  BY <1>5, <1>6, <1>7, LessonsOfKey DEF Lists, ById
<1>10. r.rows = Reading(s)'
  BY <1>5, <1>7, <1>8
<1> HIDE DEF r
<1> QED
  BY <1>1, <1>4, <1>5, <1>9, <1>10, OneReadChanges

LEMMA MissKeeps == ASSUME DeskInv, NEW s \in DeskSources, Miss(s) PROVE DeskInv'
<1> DEFINE kept == IF s \in Lists THEN lookups[s].rows ELSE {}
           r == [lookups[s] EXCEPT !.loading = FALSE, !.error = TRUE, !.rows = kept]
<1>1. UNCHANGED <<store, followed>> /\ behind' = behind
  BY DEF Miss
<1>2. lookups \in [DeskSources -> {lookups[t] : t \in DeskSources}] /\ IsLookup(lookups[s])
  BY DEF DeskInv, ReadsTyped
<1>3. lookups' = [lookups EXCEPT ![s] = r]
  BY <1>2 DEF Miss, IsLookup
<1>4. IsLookup(r) /\ r.rows = kept /\ r.error = TRUE
  <2> HIDE DEF kept
  <2> QED
    BY <1>2 DEF IsLookup
<1>5. s \in ById => \A l \in r.rows : l.id = r.key
  BY <1>4 DEF Lists, ById
<1> HIDE DEF r
<1> QED
  BY <1>1, <1>3, <1>4, <1>5, OneReadChanges

LEMMA ReloadKeeps == ASSUME DeskInv, NEW s \in DeskSources, reload(s) PROVE DeskInv'
<1> DEFINE r == [lookups[s] EXCEPT !.loading = TRUE]
<1>1. UNCHANGED <<store, followed>> /\ behind' = behind
  BY DEF reload
<1>2. lookups \in [DeskSources -> {lookups[t] : t \in DeskSources}] /\ IsLookup(lookups[s])
  BY DEF DeskInv, ReadsTyped
<1>3. lookups' = [lookups EXCEPT ![s] = r]
  BY <1>2 DEF reload
<1>4. IsLookup(r) /\ r.rows = lookups[s].rows /\ r.key = lookups[s].key /\ r.loading = TRUE
  BY <1>2 DEF IsLookup
<1>5. s \in ById => \A l \in r.rows : l.id = r.key
  BY <1>4 DEF DeskInv, RowsAreOfTheirKey
<1> HIDE DEF r
<1> QED
  BY <1>1, <1>3, <1>4, <1>5, OneReadChanges

(* Nothing but the page changes, or a lesson is no longer asked for. *)
LEMMA PageKeeps ==
  ASSUME DeskInv, UNCHANGED <<store, followed, behind>>,
         \/ UNCHANGED lookups
         \/ lookups' = [s \in DeskSources |-> IF s \in ById THEN [lookups[s] EXCEPT !.due = TRUE] ELSE lookups[s]]
  PROVE  DeskInv'
<1>1. lookups \in [DeskSources -> {lookups[t] : t \in DeskSources}] /\ \A t \in DeskSources : IsLookup(lookups[t])
  BY DEF DeskInv, ReadsTyped
<1>2. \A t \in DeskSources : /\ lookups'[t].key = lookups[t].key /\ lookups'[t].rows = lookups[t].rows
                             /\ lookups'[t].loading = lookups[t].loading /\ lookups'[t].error = lookups[t].error
                             /\ IsLookup(lookups'[t])
                             /\ lookups'[t].due \/ lookups'[t].due = lookups[t].due
  <2> SUFFICES ASSUME NEW t \in DeskSources
               PROVE  /\ lookups'[t].key = lookups[t].key /\ lookups'[t].rows = lookups[t].rows
                      /\ lookups'[t].loading = lookups[t].loading /\ lookups'[t].error = lookups[t].error
                      /\ IsLookup(lookups'[t])
                      /\ lookups'[t].due \/ lookups'[t].due = lookups[t].due
    OBVIOUS
  <2>1. lookups'[t] = lookups[t] \/ lookups'[t] = [lookups[t] EXCEPT !.due = TRUE]
    OBVIOUS
  <2>2. CASE lookups'[t] = lookups[t]
    BY <2>2, <1>1
  <2>3. CASE lookups'[t] = [lookups[t] EXCEPT !.due = TRUE]
    BY <2>3, <1>1 DEF IsLookup
  <2> QED
    BY <2>1, <2>2, <2>3
<1>3. lookups' \in [DeskSources -> {lookups'[t] : t \in DeskSources}]
  BY <1>1
<1>4. ReadsTyped'
  BY <1>2, <1>3 DEF ReadsTyped, IsLookup
<1>5. RowsAreOfTheirKey'
  BY <1>2 DEF RowsAreOfTheirKey, DeskInv, DeskSources
<1>6. SettledReadsAreTrue'
  <2> SUFFICES ASSUME NEW t \in DeskSources, Settled(t)' PROVE lookups'[t].rows = Reading(t)'
    BY DEF SettledReadsAreTrue
  <2>1. Settled(t)
    BY <1>2 DEF Settled
  <2>2. Reading(t)' = Reading(t)
    BY <1>2, ReadingKept
  <2> QED
    BY <1>2, <2>1, <2>2 DEF DeskInv, SettledReadsAreTrue
<1> QED
  BY <1>4, <1>5, <1>6 DEF DeskInv

\* Together: every step keeps settled reads true.
LEMMA DeskInvStep == ASSUME DeskInv, [MakeupDeskNext]_deskVars PROVE DeskInv'
<1>1. ASSUME NEW s \in ById, Lookup(s) PROVE DeskInv'
  BY <1>1, LookupKeeps
<1>2. ASSUME NEW s \in DeskSources, Land(s) \/ Miss(s) \/ reload(s) PROVE DeskInv'
  BY <1>2, LandKeeps, MissKeeps, ReloadKeeps
<1>3. CASE Elsewhere
  BY <1>3, WriteKeeps DEF Elsewhere
<1>4. ASSUME NEW f \in Filters, NarrowTo(f) PROVE DeskInv'
  BY <1>4, PageKeeps DEF NarrowTo, deskReads
<1>5. ASSUME NEW o \in Originals, OpenDrawer(o) PROVE DeskInv'
  BY <1>5, PageKeeps DEF OpenDrawer, deskReads
<1>6. CASE CloseDrawer
  BY <1>6, PageKeeps DEF CloseDrawer
<1>7. CASE CloseDialog
  BY <1>7, PageKeeps DEF CloseDialog, deskReads
<1>8. CASE OpenRegister \/ OpenBooking \/ OpenComplete \/ OpenMove
  <2>1. UNCHANGED <<store, deskReads>>
    BY <1>8 DEF OpenRegister, OpenBooking, OpenComplete, OpenMove, Opens
  <2> QED
    BY <2>1, PageKeeps DEF deskReads
<1>9. CASE Confirm
  BY <1>9, WriteKeeps DEF Confirm, Decides
<1>10. CASE UNCHANGED deskVars
  BY <1>10, PageKeeps DEF deskVars, store
<1> QED
  BY <1>1, <1>2, <1>3, <1>4, <1>5, <1>6, <1>7, <1>8, <1>9, <1>10 DEF MakeupDeskNext

\* The drawer and the table follow from it.
LEMMA DrawerFollows == DeskInv => DrawerKeepsToItsRow
  BY DEF DeskInv, RowsAreOfTheirKey, DrawerKeepsToItsRow, RowsShown, Answers, Lists, ById

LEMMA DeskFollows == DeskInv => DeskTellsTheLedger
<1> SUFFICES ASSUME DeskInv PROVE DeskTellsTheLedger
  OBVIOUS
<1>1. \A s \in DeskSources : UpToDate(s) => lookups[s].rows = Reading(s) /\ Answers(s) /\ Follows(s)
  BY DEF UpToDate, LookupDone, DeskInv, SettledReadsAreTrue, Settled
<1>2. UpToDate("ledger") => LedgerPage = LedgerRows("all")
  BY <1>1 DEF LedgerPage, Reading, DeskSources, Lists
<1>3. UpToDate("ledger") /\ UpToDate("count") =>
        countValue = {Cardinality({row \in LedgerPage : Passes(row, followed)})}
  <2> SUFFICES ASSUME UpToDate("ledger"), UpToDate("count")
               PROVE  countValue = {Cardinality({row \in LedgerPage : Passes(row, followed)})}
    OBVIOUS
  <2>1. lookups["count"].rows = LedgerRows(followed)
    BY <1>1 DEF Reading, DeskSources, Lists
  <2>2. \A row : Passes(row, "all")
    BY DEF Passes
  <2>3. LedgerRows(followed) = {row \in LedgerPage : Passes(row, followed)}
    BY <1>2, <2>2 DEF LedgerRows
  <2>4. ~lookups["count"].loading /\ ~lookups["count"].error
    BY DEF UpToDate, LookupDone
  <2> QED
    BY <2>1, <2>3, <2>4 DEF countValue
<1>4. UpToDate("ledger") /\ UpToDate("effective") =>
        \A row \in OpenRow : \A l \in RowsShown("effective") : row.status = "scheduled" => l.status = "scheduled"
  <2> SUFFICES ASSUME UpToDate("ledger"), UpToDate("effective"), NEW row \in OpenRow,
                      NEW l \in RowsShown("effective"), row.status = "scheduled"
               PROVE  l.status = "scheduled"
    OBVIOUS
  <2>1. row \in LedgerRows("all") /\ row.id = openId /\ OpenRow \subseteq LedgerRows("all")
    BY <1>2 DEF OpenRow
  <2>2. PICK o \in Obligations : row = readModel(diary, o, promises[o])
    BY <2>1 DEF LedgerRows
  <2>3. \A r \in OpenRow : r = row
    <3>1. \A r \in OpenRow : r.id = openId /\ \E q \in Obligations : r = readModel(diary, q, promises[q])
      BY <2>1 DEF OpenRow, LedgerRows
    <3>2. \A q \in Obligations : readModel(diary, q, promises[q]).id = q
      BY DEF readModel
    <3> QED
      BY <3>1, <3>2, <2>1, <2>2
  <2>4. /\ row.lesson = StandsOn(diary, promises[o]) /\ row.status = compensationStatusOf(diary, promises[o])
    BY <2>2 DEF readModel
  <2>5. isLive(diary, promises[o])
    BY <2>4 DEF compensationStatusOf
  <2>6. OnDiary(diary, row.lesson) /\ diary[row.lesson].status = "scheduled"
    BY <2>4, <2>5 DEF isLive, attemptStateOf
  <2>7. (CHOOSE r \in OpenRow : TRUE) = row
    BY <2>3
  <2>8. AskedId("effective") = row.lesson \/ AskedId("effective") = NoLink
    BY <2>7 DEF AskedId
  <2>9. Answers("effective") /\ lookups["effective"].rows = Reading("effective")
    BY <1>1 DEF DeskSources, ById
  <2>10. lookups["effective"].key = row.lesson
    BY <2>8, <2>9 DEF Answers, Lists
  <2>11. l \in Lessons(row.lesson)
    BY <2>9, <2>10 DEF RowsShown, Reading
  <2> QED
    BY <2>11, <2>6 DEF Lessons
<1>5. UpToDate("ledger") /\ UpToDate("cancelled") =>
        Candidates = {o \in Originals : isCompensableOriginal(diary, o) /\ ~promises[o].filed}
  <2> SUFFICES ASSUME UpToDate("ledger"), UpToDate("cancelled")
               PROVE  Candidates = {o \in Originals : isCompensableOriginal(diary, o) /\ ~promises[o].filed}
    OBVIOUS
  <2>1. lookups["cancelled"].rows = {o \in Originals : diary[o].status = "cancelled"}
    BY <1>1 DEF Reading, DeskSources, Lists
  <2>2. {row.id : row \in LedgerPage} = Obligations
    <3>1. \A o \in Obligations : readModel(diary, o, promises[o]).id = o
      BY DEF readModel
    <3>2. LedgerPage = {readModel(diary, o, promises[o]) : o \in Obligations}
      BY <1>2 DEF LedgerRows, Passes
    <3> QED
      BY <3>1, <3>2
  <2> QED
    BY <2>1, <2>2 DEF Candidates, isCompensableOriginal, Obligations
<1> QED
  BY <1>2, <1>3, <1>4, <1>5 DEF DeskTellsTheLedger

(* The rows of the table and the dialog of a move keep knowing where the    *)
(* obligation stands; a table holds one row of an obligation.               *)
PageKnows ==
  /\ \A row \in LedgerPage : row.id \in Originals /\ (row.lesson = NoLink \/ Aims(diary, promises, row.id, row.lesson))
  /\ \A row, r \in LedgerPage : row.id = r.id => row = r
  /\ lookups["cancelled"].rows \subseteq Originals
  /\ decision.kind = "move" => decision.about \in Originals /\ Aims(diary, promises, decision.about, decision.lesson)
  /\ Kept(diary) => strayed = {}
PageTyped ==
  /\ narrowed \in Filters /\ openId \in Originals \cup {NoLink} /\ behind \subseteq DeskSources /\ strayed \subseteq DiaryIds
  /\ \A s \in DeskSources : lookups[s].key \in DiaryIds \cup {NoLink}
  /\ verbs \in 0..MaxVerbs /\ misses \in 0..MaxMisses /\ views \in 0..MaxViews
DeskHoldsAll == DeskInv /\ DeskDiary /\ PageKnows /\ PageTyped

\* The reads by their sources.
LEMMA LookupsOf == ASSUME DeskInv PROVE lookups \in [DeskSources -> {lookups[t] : t \in DeskSources}] /\ \A t \in DeskSources : IsLookup(lookups[t])
  BY DEF DeskInv, ReadsTyped

\* The page opens on a ledger that knows its make-ups.
LEMMA DeskDiaryInit == ASSUME MakeupDeskAssumption, NEW earlier \in BOOLEAN, DeskOpensOn(earlier) PROVE DeskDiary
<1> DEFINE owed == IF earlier THEN Originals \ GroupLessons ELSE {}
           first == CHOOSE o \in Originals \ GroupLessons : TRUE
           made == CHOOSE l \in Bookable : TRUE
<1>1. /\ made \in Bookable /\ first \in Originals /\ NoLink \notin Bookable /\ Originals \intersect Bookable = {}
      /\ DiaryIds = Originals \cup Bookable
  BY DEF MakeupDeskAssumption, DiaryIds
<1>2. /\ diary = [l \in DiaryIds |-> IF l \in Originals THEN DiaryEntry("cancelled", NoLink)
                                     ELSE IF earlier /\ l = made THEN DiaryEntry("scheduled", NoLink) ELSE NotDrawn]
      /\ promises = [o \in Originals |-> [filed |-> o \in owed, done |-> FALSE,
                                          attempts |-> IF earlier /\ o = first THEN <<made>> ELSE <<>>]]
  BY DEF DeskOpensOn
<1> HIDE DEF owed, first, made
<1>3. \A l \in DiaryIds : /\ diary[l] = IF l \in Originals THEN DiaryEntry("cancelled", NoLink)
                                      ELSE IF earlier /\ l = made THEN DiaryEntry("scheduled", NoLink) ELSE NotDrawn
                          /\ diary[l] \in DiaryEntries /\ diary[l].to = NoLink /\ diary[l].from = NoLink
  BY <1>2 DEF DiaryEntry, NotDrawn, DiaryEntries
<1>4. Linked(diary)
  <2>1. diary \in [DiaryIds -> DiaryEntries]
    BY <1>2, <1>3
  <2>2. \A o \in Originals : diary[o].status \in {"cancelled", "gone"}
    BY <1>1, <1>3 DEF DiaryEntry
  <2>3. \A l \in Bookable : l \in DiaryIds /\ l \notin Originals
    BY <1>1
  <2>4. \A l \in Bookable : diary[l].status = "none" => diary[l] = NotDrawn
    BY <1>3, <2>3 DEF DiaryEntry
  <2> QED
    BY <1>1, <1>3, <2>1, <2>2, <2>3, <2>4 DEF Linked
<1>5. \A o \in Originals : promises[o].attempts = IF earlier /\ o = first THEN <<made>> ELSE <<>>
  BY <1>2
<1>6. promises \in [Originals -> [filed : BOOLEAN, attempts : Seq(Bookable), done : BOOLEAN]]
  <2>1. ASSUME NEW o \in Originals PROVE (o \in owed) \in BOOLEAN
    OBVIOUS
  <2>2. ASSUME NEW o \in Originals PROVE (IF earlier /\ o = first THEN <<made>> ELSE <<>>) \in Seq(Bookable)
    BY <1>1
  <2> DEFINE att(o) == IF earlier /\ o = first THEN <<made>> ELSE <<>>
             isOwed(o) == o \in owed
  <2>3. \A o \in Originals : att(o) \in Seq(Bookable) /\ isOwed(o) \in BOOLEAN
    BY <2>1, <2>2
  <2>4. promises = [o \in Originals |-> [filed |-> isOwed(o), done |-> FALSE, attempts |-> att(o)]]
    BY <1>2
  <2> HIDE DEF att, isOwed
  <2> QED
    BY <2>3, <2>4
<1>7. ASSUME NEW o \in Originals, NEW i \in DOMAIN promises[o].attempts
      PROVE  earlier /\ o = first /\ i = 1 /\ promises[o].attempts[i] = made /\ Len(promises[o].attempts) = 1
  BY <1>5, <1>7
<1>8. earlier => Booked(diary, made)
  BY <1>1, <1>3 DEF Booked, DiaryEntry
<1>9. Ledger(diary, promises)
  <2>1. \A o \in Originals : \A i \in DOMAIN promises[o].attempts : Booked(diary, promises[o].attempts[i])
    BY <1>7, <1>8
  <2>2. \A o, q \in Originals : \A i \in DOMAIN promises[o].attempts : \A j \in DOMAIN promises[q].attempts :
          promises[o].attempts[i] = promises[q].attempts[j] => o = q /\ i = j
    BY <1>7
  <2>3. \A o \in Originals : \A i \in DOMAIN promises[o].attempts :
          i < Len(promises[o].attempts) => Spent(diary, promises[o].attempts[i])
    <3> TAKE o \in Originals
    <3> TAKE i \in DOMAIN promises[o].attempts
    <3>1. i = 1 /\ Len(promises[o].attempts) = 1
      BY <1>7
    <3>2. ~(i < Len(promises[o].attempts))
      BY <3>1
    <3> QED
      BY <3>2
  <2> QED
    BY <1>6, <2>1, <2>2, <2>3 DEF Ledger
<1>10. Known(diary, promises)
  <2> SUFFICES ASSUME NEW l \in Bookable, diary[l].status = "scheduled"
               PROVE  \E o \in Originals : \E i \in DOMAIN promises[o].attempts : Leads(diary, promises[o].attempts[i], l)
    BY DEF Known
  <2>1. earlier /\ l = made
    <3>1. l \in DiaryIds /\ l \notin Originals /\ NotDrawn.status = "none"
      BY <1>1 DEF NotDrawn, DiaryEntry
    <3> QED
      BY <1>3, <3>1
  <2>2. 1 \in DOMAIN promises[first].attempts /\ promises[first].attempts[1] = made
    BY <1>1, <1>5, <2>1
  <2>3. OnwardFrom(diary, made) = NoLink
    BY <1>4, <2>1, NoLinkOnward
  <2>4. {made} \in SUBSET Bookable
    BY <1>1
  <2>5. Leads(diary, made, made)
    BY <2>3, <2>4 DEF Leads
  <2> QED
    BY <1>1, <2>1, <2>2, <2>5
<1> QED
  BY <1>4, <1>9, <1>10 DEF DeskDiary

\* And on a table that knows nothing yet.
LEMMA DeskHoldsAllInit == ASSUME MakeupDeskAssumption, MakeupDeskInit PROVE DeskHoldsAll
<1>1. DeskInv
  BY DeskInvInit
<1>2. DeskDiary
  BY DeskDiaryInit DEF MakeupDeskInit
<1>3. DeskRests
  BY DEF MakeupDeskInit
<1>4. \A s \in DeskSources : lookups[s].rows = {} /\ lookups[s].key = NoLink
  BY <1>3 DEF DeskRests, NotAsked
<1>5. PageKnows
  BY <1>3, <1>4 DEF PageKnows, LedgerPage, DeskRests, NoDecision, DeskSources, Lists
<1>6. PageTyped
  BY <1>3, <1>4 DEF PageTyped, DeskRests, Filters, MakeupDeskAssumption
<1> QED
  BY <1>1, <1>2, <1>5, <1>6 DEF DeskHoldsAll

(* The two lists the invariant is about keep their rows unless one of them  *)
(* answers.                                                                 *)
SameLists == lookups'["ledger"].rows = lookups["ledger"].rows /\ lookups'["cancelled"].rows = lookups["cancelled"].rows

\* A step other than an answer leaves the lists as they are.
LEMMA ListsStay ==
  ASSUME DeskInv, \/ \E s \in ById : Lookup(s)
                  \/ \E s \in DeskSources : Miss(s) \/ reload(s)
                  \/ Bumps \/ CloseDrawer \/ UNCHANGED lookups
  PROVE  SameLists
<1>1. lookups \in [DeskSources -> {lookups[t] : t \in DeskSources}] /\ \A t \in DeskSources : IsLookup(lookups[t])
  BY LookupsOf
<1>2. "ledger" \in DeskSources /\ "cancelled" \in DeskSources /\ {"ledger", "cancelled"} \subseteq Lists /\ Lists \intersect ById = {}
  BY DEF DeskSources, Lists, ById
<1>3. ASSUME NEW s \in ById, Lookup(s) PROVE SameLists
  BY <1>1, <1>2, <1>3 DEF SameLists, Lookup
<1>4. ASSUME NEW s \in DeskSources, Miss(s) \/ reload(s) PROVE SameLists
  <2>1. CASE Miss(s)
    BY <1>1, <1>2, <2>1 DEF SameLists, Miss, IsLookup
  <2>2. CASE reload(s)
    BY <1>1, <1>2, <2>2 DEF SameLists, reload, IsLookup
  <2> QED
    BY <1>4, <2>1, <2>2
<1>5. CASE Bumps
  BY <1>1, <1>2, <1>5 DEF SameLists, Bumps, IsLookup
<1>6. CASE CloseDrawer
  BY <1>2, <1>6 DEF SameLists, CloseDrawer
<1> QED
  BY <1>3, <1>4, <1>5, <1>6 DEF SameLists

(* The keys of the reads.                                                   *)
LEMMA AskedFacts ==
  ASSUME MakeupDeskAssumption, PageKnows
  PROVE  /\ \A s \in ById : AskedId(s) \in DiaryIds \cup {NoLink}
         /\ \A row \in OpenRow : AskedId("effective") # NoLink =>
               AskedId("effective") = row.lesson /\ row.id \in Originals /\ Aims(diary, promises, row.id, row.lesson)
<1>1. \A row \in OpenRow : /\ row.id \in Originals /\ row.id = openId
                           /\ row.lesson = NoLink \/ Aims(diary, promises, row.id, row.lesson)
                           /\ (CHOOSE r \in OpenRow : TRUE) = row
  <2> TAKE row \in OpenRow
  <2>1. row \in LedgerPage /\ row.id = openId /\ \A r \in OpenRow : r \in LedgerPage /\ r.id = openId
    BY DEF OpenRow
  <2>2. \A r \in OpenRow : r = row
    BY <2>1 DEF PageKnows
  <2>3. (CHOOSE r \in OpenRow : TRUE) \in OpenRow
    OBVIOUS
  <2> QED
    BY <2>1, <2>2, <2>3 DEF PageKnows
<1>2. ASSUME NEW s \in ById PROVE AskedId(s) \in DiaryIds \cup {NoLink}
  <2>1. CASE OpenRow = {}
    BY <2>1 DEF AskedId
  <2>2. CASE OpenRow # {}
    <3>1. PICK row \in OpenRow : TRUE
      BY <2>2
    <3>2. AskedId(s) \in {row.id, row.lesson, NoLink}
      BY <1>1, <2>2, <3>1 DEF AskedId
    <3> QED
      BY <1>1, <3>1, <3>2 DEF DiaryIds, Aims
  <2> QED
    BY <2>1, <2>2
<1>3. ASSUME NEW row \in OpenRow, AskedId("effective") # NoLink
      PROVE  AskedId("effective") = row.lesson /\ row.id \in Originals /\ Aims(diary, promises, row.id, row.lesson)
  <2>1. OpenRow # {} /\ (CHOOSE r \in OpenRow : TRUE) = row
    BY <1>1, <1>3
  <2>2. AskedId("effective") = row.lesson
    BY <1>3, <2>1 DEF AskedId
  <2> QED
    BY <1>1, <1>3, <2>2
<1> QED
  BY <1>2, <1>3

(* Steps that leave calendar, ledger and lists alone.                       *)
LEMMA PageStepKnows ==
  ASSUME PageKnows, UNCHANGED <<diary, promises, strayed>>, SameLists,
         decision' = decision \/ decision'.kind # "move"
  PROVE  PageKnows'
<1>1. LedgerPage' = LedgerPage /\ diary' = diary /\ promises' = promises /\ strayed' = strayed
  BY DEF SameLists, LedgerPage
<1>2. decision'.kind = "move" => decision' = decision
  OBVIOUS
<1>3. (\A o, l : Aims(diary', promises', o, l) <=> Aims(diary, promises, o, l)) /\ (Kept(diary') <=> Kept(diary))
  BY <1>1
<1> QED
  BY <1>1, <1>2, <1>3 DEF PageKnows, SameLists

\* and so does a verb, of this client or another.
LEMMA VerbStepKnows ==
  ASSUME PageKnows, VerbKeeps, SameLists, decision' = decision \/ decision'.kind # "move",
         Kept(diary) => (strayed' = {} \/ strayed' = strayed)
  PROVE  PageKnows'
<1>1. LedgerPage' = LedgerPage
  BY DEF SameLists, LedgerPage
<1>2. \A o \in Originals : \A l : Aims(diary, promises, o, l) => Aims(diary', promises', o, l)
  BY DEF VerbKeeps
<1>3. decision'.kind = "move" => decision' = decision
  OBVIOUS
<1>4. Kept(diary') => Kept(diary)
  BY DEF VerbKeeps
<1> QED
  BY <1>1, <1>2, <1>3, <1>4 DEF PageKnows, SameLists

(* A table that answers says where its obligations stand.                   *)
LEMMA LedgerAims ==
  ASSUME MakeupDeskAssumption, DeskDiary
  PROVE  /\ \A row \in LedgerRows("all") : row.id \in Originals /\ (row.lesson = NoLink \/ Aims(diary, promises, row.id, row.lesson))
         /\ \A row, r \in LedgerRows("all") : row.id = r.id => row = r
<1>1. \A row \in LedgerRows("all") : \E o \in Obligations : row = readModel(diary, o, promises[o])
  BY DEF LedgerRows
<1>2. \A o : readModel(diary, o, promises[o]).id = o /\ readModel(diary, o, promises[o]).lesson = StandsOn(diary, promises[o])
  BY DEF readModel
<1>3. ASSUME NEW o \in Originals PROVE StandsOn(diary, promises[o]) = NoLink \/ Aims(diary, promises, o, StandsOn(diary, promises[o]))
  <2>1. CASE promises[o].attempts = <<>>
    BY <2>1 DEF StandsOn
  <2>2. CASE promises[o].attempts # <<>>
    <3> DEFINE a == Last(promises[o].attempts)
    <3>1. promises[o].attempts \in Seq(Bookable)
      BY DEF DeskDiary, Ledger
    <3>2. Len(promises[o].attempts) \in DOMAIN promises[o].attempts /\ a = promises[o].attempts[Len(promises[o].attempts)]
      BY <2>2, <3>1, LastOf
    <3>3. Booked(diary, a)
      BY <3>2 DEF DeskDiary, Ledger
    <3>4. StandsOn(diary, promises[o]) = Walk(diary, a).ends
      BY <2>2 DEF StandsOn, currentAttemptOf
    <3> HIDE DEF a
    <3>5. Leads(diary, a, Walk(diary, a).ends) /\ Walk(diary, a).ends \in Bookable /\ diary[Walk(diary, a).ends].status # "none"
      BY <3>3, WalkLeads DEF DeskDiary
    <3> QED
      BY <2>2, <3>4, <3>5 DEF Aims, a
  <2> QED
    BY <2>1, <2>2
<1> QED
  BY <1>1, <1>2, <1>3 DEF Obligations

\* An answer that arrives does.
LEMMA LandKnows ==
  ASSUME MakeupDeskAssumption, DeskInv, DeskDiary, PageKnows, NEW s \in DeskSources, Land(s) PROVE PageKnows'
<1>1. lookups \in [DeskSources -> {lookups[t] : t \in DeskSources}] /\ \A t \in DeskSources : IsLookup(lookups[t])
  BY LookupsOf
<1>2. "ledger" \in DeskSources /\ "cancelled" \in DeskSources
  BY DEF DeskSources, Lists
<1>3. diary' = diary /\ promises' = promises /\ strayed' = strayed /\ decision' = decision
  BY DEF Land, store, deskPage
<1>4. \A t \in DeskSources : lookups'[t].rows = IF t = s THEN Finding(s) ELSE lookups[t].rows
  <2> TAKE t \in DeskSources
  <2> DEFINE e == s \in ById /\ Finding(s) = {}
  <2>1. lookups' = [lookups EXCEPT ![s] = [lookups[s] EXCEPT !.loading = FALSE, !.rows = Finding(s), !.error = e]]
    BY <1>1 DEF Land
  <2> HIDE DEF e
  <2> QED
    BY <1>1, <2>1 DEF IsLookup
<1>5. lookups'["cancelled"].rows \subseteq Originals
  BY <1>2, <1>4 DEF PageKnows, Finding
<1>6. LedgerPage' = LedgerPage \/ LedgerPage' = LedgerRows("all")
  BY <1>2, <1>4 DEF LedgerPage, Finding
<1>7. /\ \A row \in LedgerPage' : row.id \in Originals /\ (row.lesson = NoLink \/ Aims(diary, promises, row.id, row.lesson))
      /\ \A row, r \in LedgerPage' : row.id = r.id => row = r
  BY <1>6, LedgerAims DEF PageKnows
<1> QED
  BY <1>3, <1>5, <1>7 DEF PageKnows

\* The dialog of a move is opened on where the obligation stands,
LEMMA OpenMoveKnows == ASSUME MakeupDeskAssumption, DeskInv, PageKnows, OpenMove PROVE PageKnows'
<1>1. UNCHANGED <<diary, promises, strayed, lookups>>
  BY DEF OpenMove, Opens, store, deskReads
<1>2. PICK row \in OpenRow : \E l \in RowsShown("effective") : Opens("move", row.id, l.id)
  BY DEF OpenMove
<1>3. PICK l \in RowsShown("effective") : Opens("move", row.id, l.id)
  BY <1>2
<1>4. "effective" \in ById /\ "effective" \notin Lists
  BY DEF ById, Lists
<1>5. AskedId("effective") # NoLink /\ l.id = AskedId("effective")
  <2>1. DrawerKeepsToItsRow
    BY DrawerFollows
  <2> QED
    BY <1>3, <1>4, <2>1 DEF DrawerKeepsToItsRow, RowsShown, Answers
<1>6. row.id \in Originals /\ Aims(diary, promises, row.id, l.id)
  BY <1>5, AskedFacts
<1>7. decision'.about = row.id /\ decision'.lesson = l.id
  BY <1>3 DEF Opens
<1>8. LedgerPage' = LedgerPage
  BY <1>1 DEF LedgerPage
<1> QED
  BY <1>1, <1>6, <1>7, <1>8 DEF PageKnows

\* and its confirmation moves that lesson.
LEMMA ConfirmKnows ==
  ASSUME MakeupDeskAssumption, DeskInv, DeskDiary, PageKnows, strayed \subseteq DiaryIds, Confirm
  PROVE  DeskDiary' /\ PageKnows' /\ strayed' \subseteq DiaryIds
<1>1. Bumps /\ decision' = NoDecision
  BY DEF Confirm, Decides
<1>2. SameLists /\ decision'.kind # "move"
  BY <1>1, ListsStay DEF NoDecision
<1>3. ASSUME VerbKeeps, strayed' = strayed PROVE DeskDiary' /\ PageKnows' /\ strayed' \subseteq DiaryIds
  BY <1>2, <1>3, VerbStepKnows DEF VerbKeeps
<1>4. ASSUME Decides("register"), decision.about \in Candidates, Register(decision.about), UNCHANGED strayed
      PROVE  DeskDiary' /\ PageKnows' /\ strayed' \subseteq DiaryIds
  <2>1. decision.about \in Originals
    BY <1>4 DEF Candidates, PageKnows
  <2> QED
    BY <1>3, <1>4, <2>1, RegisterKeeps
<1>5. ASSUME IsListed(decision.about), Book(decision.about) \/ Discharge(decision.about), UNCHANGED strayed
      PROVE  DeskDiary' /\ PageKnows' /\ strayed' \subseteq DiaryIds
  <2>1. decision.about \in Originals
    BY <1>5 DEF IsListed, PageKnows
  <2> QED
    BY <1>3, <1>5, <2>1, RegisterKeeps, BookKeeps
<1>6. ASSUME Decides("move"), Move(decision.lesson),
             strayed' = IF decision.lesson = StandsOn(diary, promises[decision.about]) THEN strayed ELSE strayed \union {decision.lesson}
      PROVE  DeskDiary' /\ PageKnows' /\ strayed' \subseteq DiaryIds
  <2> DEFINE o == decision.about
             l == decision.lesson
  <2>1. o \in Originals /\ Aims(diary, promises, o, l)
    BY <1>6 DEF Decides, PageKnows
  <2>2. l \in Bookable /\ l \in DiaryIds /\ diary[l].status = "scheduled"
    BY <1>6, <2>1 DEF Aims, Move, DiaryIds
  <2>3. VerbKeeps
    BY <1>6, <2>2, MoveKeeps
  <2>4. ASSUME Kept(diary) PROVE strayed' = strayed
    <3>1. promises[o].attempts # <<>> /\ Leads(diary, Last(promises[o].attempts), l)
      BY <2>1, <2>2, <2>4 DEF Aims
    <3>2. promises[o].attempts \in Seq(Bookable)
      BY <2>1 DEF DeskDiary, Ledger
    <3>3. Booked(diary, Last(promises[o].attempts))
      <4>1. /\ Len(promises[o].attempts) \in DOMAIN promises[o].attempts
            /\ Last(promises[o].attempts) = promises[o].attempts[Len(promises[o].attempts)]
        BY <3>1, <3>2, LastOf
      <4> QED
        BY <4>1, <2>1 DEF DeskDiary, Ledger
    <3>4. Walk(diary, Last(promises[o].attempts)).ends = l
      BY <3>1, <3>3, LeadsIsWalk DEF DeskDiary
    <3>5. StandsOn(diary, promises[o]) = l
      BY <3>1, <3>4 DEF StandsOn, currentAttemptOf
    <3> QED
      BY <1>6, <3>5
  <2>5. PageKnows'
    BY <1>2, <2>3, <2>4, VerbStepKnows
  <2>6. strayed' \subseteq DiaryIds
    BY <1>6, <2>2
  <2> QED
    BY <2>3, <2>5, <2>6 DEF VerbKeeps
<1> QED
  BY <1>4, <1>5, <1>6 DEF Confirm

\* Together: every step keeps what is known.
LEMMA DeskKnowsStep ==
  ASSUME MakeupDeskAssumption, DeskInv, DeskDiary, PageKnows, strayed \subseteq DiaryIds, [MakeupDeskNext]_deskVars
  PROVE  DeskDiary' /\ PageKnows' /\ strayed' \subseteq DiaryIds
<1>1. ASSUME UNCHANGED <<diary, promises, strayed>>, PageKnows' PROVE DeskDiary' /\ PageKnows' /\ strayed' \subseteq DiaryIds
  BY <1>1 DEF DeskDiary
<1>2. ASSUME NEW s \in ById, Lookup(s) PROVE DeskDiary' /\ PageKnows' /\ strayed' \subseteq DiaryIds
  <2>1. SameLists
    BY <1>2, ListsStay
  <2> QED
    BY <1>1, <1>2, <2>1, PageStepKnows DEF Lookup, store, deskPage
<1>3. ASSUME NEW s \in DeskSources, Land(s) PROVE DeskDiary' /\ PageKnows' /\ strayed' \subseteq DiaryIds
  <2>1. UNCHANGED <<diary, promises, strayed>>
    BY <1>3 DEF Land, store
  <2> QED
    BY <1>1, <1>3, <2>1, LandKnows
<1>4. ASSUME NEW s \in DeskSources, Miss(s) \/ reload(s) PROVE DeskDiary' /\ PageKnows' /\ strayed' \subseteq DiaryIds
  <2>1. SameLists
    BY <1>4, ListsStay
  <2> QED
    BY <1>1, <1>4, <2>1, PageStepKnows DEF Miss, reload, store, deskPage
<1>5. CASE Elsewhere
  <2>1. SameLists /\ decision' = decision /\ strayed' = strayed
    BY <1>5, ListsStay DEF Elsewhere, deskPage
  <2>2. VerbKeeps
    BY <1>5, RegisterKeeps, BookKeeps, MoveKeeps, TakenOffKeeps DEF Elsewhere
  <2> QED
    BY <2>1, <2>2, VerbStepKnows DEF VerbKeeps
<1>6. CASE \/ \E f \in Filters : NarrowTo(f)
           \/ \E o \in Originals : OpenDrawer(o)
           \/ CloseDialog \/ OpenRegister \/ OpenBooking \/ OpenComplete
  <2>1. UNCHANGED <<diary, promises, strayed, lookups>> /\ (decision' = decision \/ decision'.kind # "move")
    BY <1>6 DEF NarrowTo, OpenDrawer, CloseDialog, OpenRegister, OpenBooking, OpenComplete, Opens, store, deskReads, NoDecision
  <2>2. SameLists
    BY <2>1, ListsStay
  <2> QED
    BY <1>1, <2>1, <2>2, PageStepKnows
<1>7. CASE CloseDrawer
  <2>1. SameLists
    BY <1>7, ListsStay
  <2> QED
    BY <1>1, <1>7, <2>1, PageStepKnows DEF CloseDrawer, store, NoDecision
<1>8. CASE OpenMove
  <2>1. UNCHANGED <<diary, promises, strayed>>
    BY <1>8 DEF OpenMove, Opens, store
  <2> QED
    BY <1>1, <1>8, <2>1, OpenMoveKnows
<1>9. CASE Confirm
  BY <1>9, ConfirmKnows
<1>10. CASE UNCHANGED deskVars
  <2>1. UNCHANGED <<diary, promises, strayed, lookups, decision>>
    BY <1>10 DEF deskVars
  <2>2. SameLists
    BY <2>1, ListsStay
  <2> QED
    BY <1>1, <2>1, <2>2, PageStepKnows
<1> QED
  BY <1>2, <1>3, <1>4, <1>5, <1>6, <1>7, <1>8, <1>9, <1>10 DEF MakeupDeskNext

\* The keys of the reads name lessons.
LEMMA KeysStay ==
  ASSUME DeskInv, \/ \E s \in DeskSources : Land(s) \/ Miss(s) \/ reload(s)
                  \/ Bumps \/ CloseDrawer \/ UNCHANGED lookups
  PROVE  \A t \in DeskSources : lookups'[t].key = lookups[t].key
<1>1. lookups \in [DeskSources -> {lookups[t] : t \in DeskSources}] /\ \A t \in DeskSources : IsLookup(lookups[t])
  BY LookupsOf
<1>2. ASSUME NEW s \in DeskSources, Land(s) \/ Miss(s) \/ reload(s), NEW t \in DeskSources PROVE lookups'[t].key = lookups[t].key
  <2> DEFINE e == s \in ById /\ Finding(s) = {}
  <2>1. CASE Land(s)
    <3>1. lookups' = [lookups EXCEPT ![s] = [lookups[s] EXCEPT !.loading = FALSE, !.rows = Finding(s), !.error = e]]
      BY <1>1, <2>1 DEF Land
    <3> HIDE DEF e
    <3> QED
      BY <1>1, <3>1 DEF IsLookup
  <2>2. CASE Miss(s)
    BY <1>1, <2>2 DEF Miss, IsLookup
  <2>3. CASE reload(s)
    BY <1>1, <2>3 DEF reload, IsLookup
  <2> QED
    BY <1>2, <2>1, <2>2, <2>3
<1>3. ASSUME Bumps \/ CloseDrawer, NEW t \in DeskSources PROVE lookups'[t].key = lookups[t].key
  <2>1. \/ lookups'[t] = [lookups[t] EXCEPT !.loading = TRUE]
        \/ lookups'[t] = [lookups[t] EXCEPT !.due = TRUE]
        \/ lookups'[t] = lookups[t]
    BY <1>3 DEF Bumps, CloseDrawer
  <2> QED
    BY <1>1, <2>1 DEF IsLookup
<1> QED
  BY <1>2, <1>3

\* So does the key of a read that starts.
LEMMA LookupKey ==
  ASSUME MakeupDeskAssumption, DeskInv, PageKnows, PageTyped, NEW s \in ById, Lookup(s)
  PROVE  \A t \in DeskSources : lookups'[t].key \in DiaryIds \cup {NoLink}
<1> DEFINE k == AskedId(s)
           r == [due |-> FALSE, key |-> k, rows |-> IF lookups[s].key = AskedId(s) THEN lookups[s].rows ELSE {},
                 loading |-> TRUE, error |-> lookups[s].key = AskedId(s) /\ lookups[s].error]
<1>1. lookups \in [DeskSources -> {lookups[t] : t \in DeskSources}] /\ s \in DeskSources
  BY LookupsOf DEF DeskSources
<1>2. lookups' = [lookups EXCEPT ![s] = r]
  BY DEF Lookup
<1>3. r.key \in DiaryIds \cup {NoLink}
  BY AskedFacts
<1> HIDE DEF r
<1>4. \A t \in DeskSources : lookups'[t] = IF t = s THEN r ELSE lookups[t]
  BY <1>1, <1>2
<1> QED
  BY <1>3, <1>4 DEF PageTyped

\* Every step keeps the page typed.
LEMMA PageTypedStep ==
  ASSUME MakeupDeskAssumption, DeskInv, PageKnows, PageTyped, strayed' \subseteq DiaryIds, [MakeupDeskNext]_deskVars
  PROVE  PageTyped'
<1>1. MaxVerbs \in Nat /\ MaxMisses \in Nat /\ MaxViews \in Nat
  BY DEF MakeupDeskAssumption
<1>2. \A s \in DeskSources : lookups'[s].key \in DiaryIds \cup {NoLink}
  <2>1. ASSUME NEW s \in ById, Lookup(s) PROVE \A t \in DeskSources : lookups'[t].key \in DiaryIds \cup {NoLink}
    BY <2>1, LookupKey
  <2>2. CASE ~\E s \in ById : Lookup(s)
    <3>1. \/ \E s \in DeskSources : Land(s) \/ Miss(s) \/ reload(s)
          \/ Bumps \/ CloseDrawer \/ UNCHANGED lookups
      <4>1. CASE Confirm
        BY <4>1 DEF Confirm, Decides
      <4>2. CASE UNCHANGED deskVars
        BY <4>2 DEF deskVars
      <4>3. CASE Elsewhere
        BY <4>3 DEF Elsewhere
      <4>4. CASE \/ \E f \in Filters : NarrowTo(f)
                 \/ \E o \in Originals : OpenDrawer(o)
                 \/ CloseDialog \/ OpenRegister \/ OpenBooking \/ OpenComplete \/ OpenMove
        BY <4>4 DEF NarrowTo, OpenDrawer, CloseDialog, OpenRegister, OpenBooking, OpenComplete, OpenMove, Opens, deskReads
      <4> QED
        BY <2>2, <4>1, <4>2, <4>3, <4>4 DEF MakeupDeskNext
    <3>2. \A t \in DeskSources : lookups'[t].key = lookups[t].key
      BY <3>1, KeysStay
    <3> QED
      BY <3>2 DEF PageTyped
  <2> QED
    BY <2>1, <2>2
<1>3. behind' \subseteq DeskSources
  <2>1. behind' = behind \/ behind' = DeskSources \/ \E s : behind' = behind \ {s}
    <3>1. CASE Confirm
      BY <3>1 DEF Confirm, Decides, Bumps
    <3>2. CASE ~Confirm
      BY <3>2 DEF MakeupDeskNext, deskVars, deskReads, Lookup, Land, Miss, reload, Elsewhere, NarrowTo, OpenDrawer,
                  CloseDrawer, CloseDialog, OpenRegister, OpenBooking, OpenComplete, OpenMove, Opens
    <3> QED
      BY <3>1, <3>2
  <2> QED
    BY <2>1 DEF PageTyped
<1>4. narrowed' \in Filters
  <2>1. narrowed' = narrowed \/ \E f \in Filters : narrowed' = f
    BY DEF MakeupDeskNext, deskVars, deskPage, Lookup, Land, Miss, reload, Elsewhere, NarrowTo, OpenDrawer,
           CloseDrawer, CloseDialog, OpenRegister, OpenBooking, OpenComplete, OpenMove, Opens, Confirm, Decides
  <2> QED
    BY <2>1 DEF PageTyped
<1>5. openId' \in Originals \cup {NoLink}
  <2>1. openId' = openId \/ openId' = NoLink \/ \E o \in Originals : openId' = o
    BY DEF MakeupDeskNext, deskVars, deskPage, Lookup, Land, Miss, reload, Elsewhere, NarrowTo, OpenDrawer,
           CloseDrawer, CloseDialog, OpenRegister, OpenBooking, OpenComplete, OpenMove, Opens, Confirm, Decides
  <2> QED
    BY <2>1 DEF PageTyped
<1>6. /\ verbs' = verbs \/ (verbs < MaxVerbs /\ verbs' = verbs + 1)
      /\ misses' = misses \/ (misses < MaxMisses /\ misses' = misses + 1)
      /\ views' = views \/ (views < MaxViews /\ views' = views + 1)
  <2>1. verbs' = verbs \/ (verbs < MaxVerbs /\ verbs' = verbs + 1)
    BY DEF MakeupDeskNext, deskVars, Lookup, Land, Miss, reload, Elsewhere, NarrowTo, OpenDrawer, CountsVerb,
           CloseDrawer, CloseDialog, OpenRegister, OpenBooking, OpenComplete, OpenMove, Opens, Confirm, Decides
  <2>2. misses' = misses \/ (misses < MaxMisses /\ misses' = misses + 1)
    BY DEF MakeupDeskNext, deskVars, deskReads, Lookup, Land, Miss, reload, Elsewhere, NarrowTo, OpenDrawer,
           CloseDrawer, CloseDialog, OpenRegister, OpenBooking, OpenComplete, OpenMove, Opens, Confirm, Decides
  <2>3. views' = views \/ (views < MaxViews /\ views' = views + 1)
    BY DEF MakeupDeskNext, deskVars, deskPage, Lookup, Land, Miss, reload, Elsewhere, NarrowTo, OpenDrawer, CountsView,
           CloseDrawer, CloseDialog, OpenRegister, OpenBooking, OpenComplete, OpenMove, Opens, Confirm, Decides
  <2> QED
    BY <2>1, <2>2, <2>3
<1>7. /\ verbs \in 0..MaxVerbs /\ misses \in 0..MaxMisses /\ views \in 0..MaxViews
  BY DEF PageTyped
<1>8. verbs' \in 0..MaxVerbs /\ misses' \in 0..MaxMisses /\ views' \in 0..MaxViews
  BY <1>1, <1>6, <1>7
<1> QED
  BY <1>2, <1>3, <1>4, <1>5, <1>8 DEF PageTyped

\* What was kept is what was promised.
LEMMA DeskImplies == ASSUME MakeupDeskAssumption, DeskHoldsAll PROVE MakeupDeskTypeOK /\ MakeupDeskHolds
<1>1. DeskInv /\ DeskDiary /\ PageKnows /\ PageTyped
  BY DEF DeskHoldsAll
<1>2. DecisionsMeetTheMakeup
  <2>1. LineageKept <=> Kept(diary)
    BY DEF LineageKept, Kept
  <2>2. LineageKept => strayed = {}
    BY <1>1, <2>1 DEF PageKnows
  <2> QED
    BY <1>1, <2>2, StandInsFacts DEF DecisionsMeetTheMakeup
<1>3. MakeupDeskHolds
  BY <1>1, <1>2, DrawerFollows, DeskFollows DEF MakeupDeskHolds
<1>4. diary \in [DiaryIds -> [status : {"none", "scheduled", "cancelled", "gone"},
                              to : Bookable \union {NoLink}, from : DiaryIds \union {NoLink}]]
  BY <1>1 DEF DeskDiary, Linked, DiaryEntries, DiaryIds
<1>5. \A o \in Originals : promises[o].filed \in BOOLEAN /\ \A i \in DOMAIN promises[o].attempts : promises[o].attempts[i] \in Bookable
  <2>1. promises \in [Originals -> [filed : BOOLEAN, attempts : Seq(Bookable), done : BOOLEAN]]
    BY <1>1 DEF DeskDiary, Ledger
  <2>2. \A o \in Originals : \A i \in DOMAIN promises[o].attempts : promises[o].attempts[i] \in Bookable
    BY <1>1 DEF DeskDiary, Ledger, Booked
  <2>3. \A o \in Originals : promises[o] \in [filed : BOOLEAN, attempts : Seq(Bookable), done : BOOLEAN]
    BY <2>1
  <2> QED
    BY <2>2, <2>3
<1>6. \A s \in DeskSources : lookups[s].loading \in BOOLEAN
  BY <1>1, LookupsOf DEF IsLookup
<1> QED
  BY <1>1, <1>3, <1>4, <1>5, <1>6 DEF MakeupDeskTypeOK, PageTyped

\* However reads, answers, decisions and the writes of other clients fall: the
\* drawer shows no lesson of another row, a settled read tells what is stored,
\* an obligation has one live stand-in at most and shares none, and while
\* lineages are kept every make-up is known and every move takes it.
THEOREM MakeupDeskCorrect == MakeupDeskSpec => []MakeupDeskHolds
<1>1. MakeupDeskInit => DeskHoldsAll
  BY DeskHoldsAllInit, MakeupDeskAssumption
<1>2. DeskHoldsAll /\ [MakeupDeskNext]_deskVars => DeskHoldsAll'
  BY MakeupDeskAssumption, DeskInvStep, DeskKnowsStep, PageTypedStep DEF DeskHoldsAll, PageTyped
<1>3. DeskHoldsAll => MakeupDeskHolds
  BY DeskImplies, MakeupDeskAssumption
<1> QED
  BY <1>1, <1>2, <1>3, PTL DEF MakeupDeskSpec

\* The state of the page stays within its type.
THEOREM MakeupDeskTypeCorrect == MakeupDeskSpec => []MakeupDeskTypeOK
<1>1. MakeupDeskInit => DeskHoldsAll
  BY DeskHoldsAllInit, MakeupDeskAssumption
<1>2. DeskHoldsAll /\ [MakeupDeskNext]_deskVars => DeskHoldsAll'
  BY MakeupDeskAssumption, DeskInvStep, DeskKnowsStep, PageTypedStep DEF DeskHoldsAll, PageTyped
<1>3. DeskHoldsAll => MakeupDeskTypeOK
  BY DeskImplies, MakeupDeskAssumption
<1> QED
  BY <1>1, <1>2, <1>3, PTL DEF MakeupDeskSpec

=============================================================================
