------------------------------ MODULE MCScreens ------------------------------
(***************************************************************************)
(* The screens of the client and the timetable of its demonstration, for   *)
(* TLC: in each behaviour one of them is used, the others rest.  They      *)
(* share no state.                                                         *)
(***************************************************************************)
EXTENDS ResourceList, EntityForm, Composer, LocalTimetable, MCPages

VARIABLE part   \* what is used

screenVars == <<part, listVars, formVars, composerVars, timetableVars, pageVars>>

(* A screen at rest: nothing is due and nothing under way.                 *)
One(S) == CHOOSE x \in S : TRUE
ListRests == /\ hook = "useStudentList" /\ wanted = One(Keys) /\ due = FALSE
             /\ ticket = 0 /\ calls = <<>> /\ shown = [Idle EXCEPT !.key = wanted]
             /\ stored = 0 /\ bumped = 0
FormRests == FormInit /\ ~api /\ dialog = "RoomFormDialog"
ComposerRests == ComposerInit /\ ~server
TimetableRests == /\ TimetableInit /\ \A c \in Courses : course[c].plan = One(Weekly[c])
                  /\ \A o \in Owed : lessons[o] = Manual(One(Courses), One(Asked), "cancelled", NoLesson)
PagesRest == DashInit /\ academy = Busy

ScreensInit ==
    /\ part \in {"list", "form", "composer", "timetable", "pages"}
    /\ IF part = "list" THEN ListInit ELSE ListRests
    /\ IF part = "form" THEN FormInit ELSE FormRests
    /\ IF part = "composer" THEN ComposerInit ELSE ComposerRests
    /\ IF part = "timetable" THEN TimetableInit ELSE TimetableRests
    /\ IF part = "pages" THEN PagesInit ELSE PagesRest
ScreensNext ==
    \/ part = "list" /\ ListNext /\ UNCHANGED <<part, formVars, composerVars, timetableVars, pageVars>>
    \/ part = "form" /\ FormNext /\ UNCHANGED <<part, listVars, composerVars, timetableVars, pageVars>>
    \/ part = "composer" /\ ComposerNext /\ UNCHANGED <<part, listVars, formVars, timetableVars, pageVars>>
    \/ part = "timetable" /\ TimetableNext /\ UNCHANGED <<part, listVars, formVars, composerVars, pageVars>>
    \/ part = "pages" /\ PagesNext /\ UNCHANGED <<part, listVars, formVars, composerVars, timetableVars>>
ScreensSpec == ScreensInit /\ [][ScreensNext]_screenVars /\ ListFairness

(* The state of the part in use stays within its type.                     *)
ScreensTypeOK ==
    CASE part = "list" -> ListTypeOK [] part = "form" -> FormTypeOK [] part = "composer" -> ComposerTypeOK
      [] part = "timetable" -> TimetableTypeOK [] part = "pages" -> PageTypeOK

-----------------------------------------------------------------------------
Slot(from, till, room, teacher) ==
    [day |-> 1, from |-> from, till |-> till, room |-> room, teacher |-> teacher]
MCAsked == {Slot(1, 2, "r1", "t1"), Slot(2, 3, "r1", "t1")}
Hour(room, teacher) == [from |-> 1, till |-> 2, room |-> room, teacher |-> teacher]
MCWeekly == [c1 |-> {Hour("r2", "t1"), Hour("r1", "t2")}, c2 |-> {Hour("r2", "t2")}]
=============================================================================
