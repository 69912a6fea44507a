----------------------------- MODULE Repertoire -----------------------------
(***************************************************************************)
(* Pieces, their assignment to students, the log of progress and what is   *)
(* derived from it: the snapshot an assignment keeps, the trend the        *)
(* analytics report and the advice given.  The demo repository, and the    *)
(* panels of a student and of the repertoire that call it.                 *)
(***************************************************************************)
EXTENDS Integers, FiniteSets, Sequences, TLC

CONSTANTS Pieces, Assignments, Learners,   \* ids
          Days, Masteries, Ranges,         \* what an entry may say
          Untold,                          \* an assignment without a snapshot
          plateauMinEvents, plateauMinDays, plateauMasteryDelta, improvingMasteryDelta,
          regressionMasteryDelta, minEventsForTrend, recentWindowDays,   \* the thresholds
          STALE_EVENT_DAYS, COMPLETION_MASTERY,
          MaxRepertoireWrites              \* bound on repository writes
ASSUME ThresholdsOrdered == regressionMasteryDelta > plateauMasteryDelta
                            /\ improvingMasteryDelta > plateauMasteryDelta /\ minEventsForTrend > 0

VARIABLES piece,        \* the pieces that exist: whether they may be assigned
          assignment,   \* the assignments that exist
          journal,      \* the progress events, in the order they were recorded
          recording,    \* the assignments whose recording dialog is open
          dropped,      \* assignments deleted: an id is never given twice
          entries       \* the number of writes
repertoireVars == <<piece, assignment, journal, recording, dropped, entries>>

ACTIVE_ASSIGNMENT_STATUSES == {"planned", "learning", "polishing"}
CLOSED_ASSIGNMENT_STATUSES == {"completed", "abandoned"}
Event(a, day, mastery, range) ==
    [assignment |-> a, student |-> assignment[a].student, piece |-> assignment[a].piece,
     at |-> day, mastery |-> mastery, range |-> range, no |-> Len(journal) + 1]
Enters == entries < MaxRepertoireWrites /\ entries' = entries + 1
EventsOf(log, a) == SelectSeq(log, LAMBDA e : e.assignment = a)

-----------------------------------------------------------------------------
(* What the log says                                                       *)

(* By time; of one instant, in the order of creation.                      *)
sortByTime(log) == SortSeq(log, LAMBDA e, f : e.at < f.at \/ (e.at = f.at /\ e.no < f.no))
trailingSameRangeCount(sorted) ==
    CHOOSE n \in 1 .. Len(sorted) :
        /\ \A i \in (Len(sorted) - n + 1) .. Len(sorted) : sorted[i].range = sorted[Len(sorted)].range
        /\ n < Len(sorted) => sorted[Len(sorted) - n].range # sorted[Len(sorted)].range
analyzePiece(sorted) ==
    [masteryLatest |-> sorted[Len(sorted)].mastery,
     masteryChange |-> sorted[Len(sorted)].mastery - sorted[1].mastery,
     spanDays |-> sorted[Len(sorted)].at - sorted[1].at]
classifyProgress(log) ==
    LET sorted == sortByTime(log)
        change == analyzePiece(sorted).masteryChange
        repeats == trailingSameRangeCount(sorted)
        worn == sorted[Len(sorted)].at - sorted[Len(sorted) - repeats + 1].at
    IN  CASE Len(log) < minEventsForTrend -> "insufficient_data"
          [] OTHER ->
             IF change <= -regressionMasteryDelta THEN "regression"
             ELSE IF repeats >= plateauMinEvents /\ worn >= plateauMinDays
                     /\ change \in -plateauMasteryDelta .. plateauMasteryDelta THEN "possible_plateau"
             ELSE IF change >= improvingMasteryDelta THEN "improving"
             ELSE IF change > plateauMasteryDelta /\ analyzePiece(sorted).spanDays > recentWindowDays
                  THEN "slowing"
             ELSE "stable"
(* The advice for an open assignment: of the trend of its log, and of the  *)
(* mastery its snapshot gives.                                             *)
AdviceOf == [possible_plateau |-> {"isolate_range", "revisit_prerequisite"},
             regression |-> {"teacher_review", "shorten_practice"}, improving |-> {"advance_range"},
             slowing |-> {"shorten_practice"}, insufficient_data |-> {"record_progress"}, stable |-> {}]
recommendForAssignment(a, today) ==
    LET log == EventsOf(journal, a)
        status == classifyProgress(log)
        latest == assignment[a].latest
    IN  AdviceOf[status]
        \union {k \in {"consider_completion"} : latest # Untold /\ latest.mastery >= COMPLETION_MASTERY
                                                /\ assignment[a].status # "polishing"}
        \union {k \in {"record_progress"} : status # "insufficient_data"
                    /\ today - sortByTime(log)[Len(log)].at >= STALE_EVENT_DAYS}
(* A student's overview: closed work is history, nothing is advised on it. *)
studentOverview(s, today) ==
    [a \in {b \in DOMAIN assignment : assignment[b].student = s
                                      /\ assignment[b].status \notin CLOSED_ASSIGNMENT_STATUSES} |->
        recommendForAssignment(a, today)]

-----------------------------------------------------------------------------
(* The repository                                                          *)

createPiece(p) == p \notin DOMAIN piece /\ Enters /\ piece' = (p :> TRUE) @@ piece
                  /\ UNCHANGED <<assignment, journal, recording, dropped>>
updatePiece(p, active) == p \in DOMAIN piece /\ Enters /\ piece' = [piece EXCEPT ![p] = active]
                          /\ UNCHANGED <<assignment, journal, recording, dropped>>
deletePiece(p) ==
    /\ p \in DOMAIN piece /\ Enters /\ \A a \in DOMAIN assignment : assignment[a].piece # p
    /\ piece' = [q \in DOMAIN piece \ {p} |-> piece[q]]
    /\ UNCHANGED <<assignment, journal, recording, dropped>>
(* Only open assignments block another of the same student and piece.      *)
assignPiece(a, s, p, status) ==
    /\ a \notin DOMAIN assignment \union dropped /\ p \in DOMAIN piece /\ piece[p] /\ Enters
    /\ \A b \in DOMAIN assignment : assignment[b].student = s /\ assignment[b].piece = p
                                    => assignment[b].status \in CLOSED_ASSIGNMENT_STATUSES
    /\ assignment' = (a :> [student |-> s, piece |-> p, status |-> status, closed |-> FALSE,
                            latest |-> Untold]) @@ assignment
    /\ UNCHANGED <<piece, journal, recording, dropped>>
updateAssignment(a, status) ==
    /\ a \in DOMAIN assignment /\ Enters
    /\ assignment' = [assignment EXCEPT ![a].status = status,
                                        ![a].closed = status \in CLOSED_ASSIGNMENT_STATUSES]
    /\ UNCHANGED <<piece, journal, recording, dropped>>
deleteAssignment(a) ==
    /\ a \in DOMAIN assignment /\ Enters /\ EventsOf(journal, a) = <<>>
    /\ assignment' = [b \in DOMAIN assignment \ {a} |-> assignment[b]] /\ dropped' = dropped \union {a}
    /\ UNCHANGED <<piece, journal, recording>>
(* The snapshot is taken again from the newest entry of the log; of one    *)
(* instant, from the one recorded last.                                    *)
refreshSnapshotMutant(log, a) == EventsOf(log, a)[Len(EventsOf(log, a))]
refreshSnapshot(log, a) ==
    CHOOSE e \in {log[i] : i \in DOMAIN log} :
        /\ e.assignment = a
        /\ \A i \in DOMAIN log : log[i].assignment = a =>
             log[i].at < e.at \/ (log[i].at = e.at /\ log[i].no <= e.no)
recordProgress(a, day, mastery, range) ==
    /\ a \in DOMAIN assignment /\ assignment[a].status \notin CLOSED_ASSIGNMENT_STATUSES /\ Enters
    /\ journal' = Append(journal, Event(a, day, mastery, range))
    /\ assignment' = [assignment EXCEPT ![a].latest = refreshSnapshot(journal', a)]
    /\ UNCHANGED <<piece, dropped>>

-----------------------------------------------------------------------------
(* The panels: a dialog records on the assignment it was opened for,       *)
(* whatever became of it since; a panel only ever completes an assignment. *)
openRecording(a) ==
    /\ a \in DOMAIN assignment /\ assignment[a].status \in ACTIVE_ASSIGNMENT_STATUSES /\ recording = {}
    /\ recording' = {a} /\ UNCHANGED <<piece, assignment, journal, dropped, entries>>
submitRecording(day, mastery, range) ==
    \E a \in recording : recordProgress(a, day, mastery, range) /\ recording' = {}
closeRecording == recording # {} /\ recording' = {}
                  /\ UNCHANGED <<piece, assignment, journal, dropped, entries>>
closeAssignment(a) == a \in DOMAIN assignment /\ assignment[a].status \in ACTIVE_ASSIGNMENT_STATUSES
                      /\ updateAssignment(a, "completed")

RepertoireStart(p) ==
    /\ piece = p :> TRUE /\ assignment = <<>> /\ journal = <<>> /\ recording = {}
    /\ dropped = {} /\ entries = 0
RepertoireNext ==
    \/ \E p \in Pieces : createPiece(p) \/ deletePiece(p) \/ \E active \in BOOLEAN : updatePiece(p, active)
    \/ \E a \in Assignments, s \in Learners, p \in Pieces, status \in {"planned", "learning"} :
          assignPiece(a, s, p, status)
    \/ \E a \in Assignments : closeAssignment(a) \/ deleteAssignment(a) \/ openRecording(a)
    \/ \E day \in Days, mastery \in Masteries, range \in Ranges : submitRecording(day, mastery, range)
    \/ closeRecording

-----------------------------------------------------------------------------
RepertoireTypeOK ==
    /\ DOMAIN piece \subseteq Pieces /\ DOMAIN assignment \subseteq Assignments
    /\ \A a \in DOMAIN assignment :
          assignment[a].status \in ACTIVE_ASSIGNMENT_STATUSES \union CLOSED_ASSIGNMENT_STATUSES \union {"paused"}
    /\ recording \subseteq Assignments /\ entries \in 0 .. MaxRepertoireWrites

(* An entry keeps its assignment, with the student and the piece it was    *)
(* recorded for, and an assignment keeps its piece.                        *)
HistoryIsKept ==
    /\ \A a \in DOMAIN assignment : assignment[a].piece \in DOMAIN piece
    /\ \A i \in DOMAIN journal : LET e == journal[i] IN
          e.assignment \in DOMAIN assignment /\ assignment[e.assignment].student = e.student
          /\ assignment[e.assignment].piece = e.piece
(* At most one assignment of a piece to a student is open.                 *)
OneOpenAssignment ==
    \A a, b \in DOMAIN assignment :
        a # b /\ assignment[a].student = assignment[b].student /\ assignment[a].piece = assignment[b].piece
        => assignment[a].status \in CLOSED_ASSIGNMENT_STATUSES \/ assignment[b].status \in CLOSED_ASSIGNMENT_STATUSES
(* The snapshot, which the cards show and the advice takes its mastery     *)
(* from, is the entry the trend ends with, however late entries were dated.*)
SnapshotEndsTheTrend ==
    \A a \in DOMAIN assignment : LET sorted == sortByTime(EventsOf(journal, a)) IN
        assignment[a].latest = IF sorted = <<>> THEN Untold ELSE sorted[Len(sorted)]
RecordsAgree ==
    HistoryIsKept /\ OneOpenAssignment /\ SnapshotEndsTheTrend
    /\ \A a \in DOMAIN assignment : assignment[a].closed <=> assignment[a].status \in CLOSED_ASSIGNMENT_STATUSES
(* No student is told to advance and to step back at once, nor to finish a *)
(* piece whose last entry is below the mark.                               *)
AdviceIsCoherent ==
    \A s \in Learners, today \in Days :
        LET overview == studentOverview(s, today) IN
        \A a \in DOMAIN overview : LET log == sortByTime(EventsOf(journal, a)) IN
            /\ ~({"advance_range", "teacher_review"} \subseteq overview[a])
            /\ "consider_completion" \in overview[a] => log[Len(log)].mastery >= COMPLETION_MASTERY
            /\ "teacher_review" \in overview[a] => log[Len(log)].mastery < log[1].mastery
            /\ "revisit_prerequisite" \in overview[a] => Len(log) >= plateauMinEvents

(* The records of repertoire agree, and so does the advice drawn from them.*)
RepertoireHolds == RecordsAgree /\ AdviceIsCoherent
=============================================================================
