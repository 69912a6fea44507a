----------------------------- MODULE Dashboard -----------------------------
(***************************************************************************)
(* The management dashboard (src/views/Dashboard.tsx): eight reads of the  *)
(* academy that answer, fail and are repeated independently, and the       *)
(* figures the panels derive from whatever rows they hold.  What a figure  *)
(* is, is a function of the rows (dashboardInsights.ts); when it is shown, *)
(* and of which academy it speaks, is what can go wrong.                   *)
(***************************************************************************)
EXTENDS PageReads

CONSTANTS
    Unread,       \* rows of a read that failed
    FlowRows      \* rows a panel lists before it refers to the rest

ASSUME DashboardBounds == FlowRows \in Nat \ {0}

InsightSources == {"metrics", "students", "classes", "rooms", "teachers", "sessions"}
Sources == InsightSources \union {"hero", "pulse"}

-----------------------------------------------------------------------------
(* Figures of a set of rows                                                *)

ratioPct(part, whole) == IF whole > 0 THEN (part * 100) \div whole ELSE NO_DATA
AtRisk(students) == {s \in students : s.status = "at-risk"}
Overdue(students) == {s \in students : s.overdue}
CalledOff(calendar) == {l \in calendar : l.status = "cancelled"}
Waitlisted(classes) == {c \in classes : c.waitlist > 0}
Within(calendar, days) == {l \in calendar : 0 <= l.age /\ l.age < days}

(* The running total of the roster at each month that some record names;   *)
(* a join date that names none counts in the last bucket.                  *)
rosterSeries(students) ==
    LET months == {s.since : s \in students}
    IN  [m \in {m \in months : Cardinality({n \in months : n > m}) < 12} |->
            Cardinality({s \in students : s.since <= m})]
Placed(series) == IF DOMAIN series = {} THEN 0 ELSE series[Max(DOMAIN series)]
(* Lessons in each of thirteen rolling weeks, the newest ending today.     *)
weeklyCounts(calendar) ==
    [k \in 1 .. 13 |-> Cardinality({l \in calendar : l.age >= 0 /\ l.age \div 7 = 13 - k})]
changePct(last, previous) == IF previous > 0 THEN ((last - previous) * 100) \div previous ELSE NO_DATA

deriveSignals(x) ==
    LET week == weeklyCounts(x.sessions)
        off == weeklyCounts(CalledOff(x.sessions))
        four(w) == w[10] + w[11] + w[12] + w[13]
    IN  [atRisk |-> Cardinality(AtRisk(x.students)),
         rated |-> Cardinality({s \in x.students : s.rated}),
         sessions |-> IF x.sessions = Unread THEN NO_DATA ELSE week[13],
         classes |-> IF x.sessions = Unread THEN NO_DATA
                     ELSE Cardinality({l.class : l \in Within(x.sessions, 7) \ CalledOff(x.sessions)}),
         change |-> IF x.sessions = Unread THEN NO_DATA ELSE changePct(week[13], week[12]),
         cancellations |-> IF x.sessions = Unread THEN NO_DATA ELSE four(off),
         cancelledShare |-> IF x.sessions = Unread THEN NO_DATA ELSE ratioPct(four(off), four(week))]

(* The four rules of the attention list; a rule that finds nothing, or     *)
(* whose rows were not read, contributes no item.                          *)
deriveAttentionItems(x) ==
    LET off == IF x.sessions = Unread THEN {} ELSE Within(CalledOff(x.sessions), 7)
        items == {[id |-> "overdue-payments", severity |-> "critical", count |-> Cardinality(Overdue(x.students))],
                  [id |-> "class-waitlists", severity |-> "warning", count |-> Cardinality(Waitlisted(x.classes))],
                  [id |-> "at-risk-students", severity |-> "warning", count |-> Cardinality(AtRisk(x.students))],
                  [id |-> "cancelled-week", severity |-> "info", count |-> Cardinality(off)]}
    IN  {i \in items : i.count > 0}

clashes(a, b) ==
    /\ a.id # b.id /\ a.room = b.room /\ "cancelled" \notin {a.status, b.status}
    /\ a.start < b.end /\ b.start < a.end
conflictPairs(calendar) == {p \in SUBSET calendar : \E a, b \in p : p = {a, b} /\ clashes(a, b)}
Ahead(l, now) == l.status = "scheduled" /\ l.start > now
InProgress(l, now) == l.start <= now /\ now < l.end

(* Today's lessons in order with what each is now, and the day in numbers. *)
deriveFlowRows(calendar, now) ==
    LET today == SetToSortSeq({l \in calendar : l.age = 0}, LAMBDA a, b : a.start < b.start \/ (a.start = b.start /\ a.id < b.id))
        upcoming == SelectSeq(today, LAMBDA l : Ahead(l, now))
        status(l) == CASE l.status = "cancelled" -> "cancelled"
                       [] \E o \in ToSet(today) : clashes(l, o) -> "attention"
                       [] l.status = "completed" -> "done"
                       [] InProgress(l, now) -> "live"
                       [] upcoming # <<>> /\ upcoming[1] = l -> "next"
                       [] OTHER -> "scheduled"
        listed == IF Len(today) < FlowRows THEN Len(today) ELSE FlowRows
    IN  [rows |-> [i \in 1 .. listed |-> [id |-> today[i].id, status |-> status(today[i])]],
         total |-> Len(today), remaining |-> Len(upcoming),
         cancelled |-> Cardinality(CalledOff(ToSet(today))), shown |-> listed]

seatPct(classes) == ratioPct(MapThenSumSet(LAMBDA c : c.enrolled, classes), MapThenSumSet(LAMBDA c : c.capacity, classes))
deriveOccupancy(classes, rooms) ==
    LET live == {c \in classes : ~c.archived}
        days == [d \in 0 .. 6 |-> seatPct({c \in live : d \in c.days})]
        ranked == {d \in 0 .. 6 : days[d] # NO_DATA}
    IN  [overallPct |-> seatPct(live), takenSeats |-> MapThenSumSet(LAMBDA c : c.enrolled, live),
         totalSeats |-> MapThenSumSet(LAMBDA c : c.capacity, live), classes |-> Cardinality(live),
         seatsFree |-> Cardinality({c \in live : c.enrolled < c.capacity}),
         rooms |-> [r \in {c.room : c \in live} |->
                       [named |-> r \in rooms, pct |-> seatPct({c \in live : c.room = r})]],
         peakDay |-> IF ranked = {} THEN NO_DATA ELSE Min({d \in ranked : \A e \in ranked : days[e] <= days[d]}),
         quietestDay |-> IF ranked = {} THEN NO_DATA ELSE Min({d \in ranked : \A e \in ranked : days[d] <= days[e]})]

deriveInstrumentMix(students) ==
    [i \in {s.instrument : s \in students} |-> Cardinality({s \in students : s.instrument = i})]
deriveReceivables(students) ==
    LET owing == {s \in students : s.balance > 0}
    IN  [owing |-> Cardinality(owing), students |-> Cardinality(students),
         total |-> MapThenSumSet(LAMBDA s : s.balance, owing),
         listed |-> IF Cardinality(owing) < 6 THEN Cardinality(owing) ELSE 6]

(* At most three cards; the capacity evidence of the waiting list needs    *)
(* the aggregate read as well.                                             *)
deriveIntelligenceCards(x) ==
    LET month == IF x.sessions = Unread THEN {} ELSE Within(x.sessions, 30)
        capacity == IF x.metrics = Unread THEN NO_DATA
                    ELSE ratioPct(x.metrics.takenSeats, x.metrics.totalSeats)
        cards == <<[id |-> "at-risk", count |-> Cardinality(AtRisk(x.students)), of |-> Cardinality(x.students)],
                   [id |-> "waitlists", count |-> Cardinality(Waitlisted(x.classes)), of |-> capacity],
                   [id |-> "cancellations", count |-> Cardinality(CalledOff(month)), of |-> Cardinality(month)],
                   [id |-> "receivables", count |-> Cardinality(Overdue(x.students)), of |-> Cardinality(x.students)]>>
        cited == SelectSeq(cards, LAMBDA c : c.count > 0)
    IN  SubSeq(cited, 1, IF Len(cited) < 3 THEN Len(cited) ELSE 3)

dashboardCounts(x) ==
    LET sessions == IF x.sessions = Unread THEN NO_DATA ELSE Cardinality(x.sessions)
        lists == Cardinality(x.students) + Cardinality(x.classes) + Cardinality(x.rooms) + Cardinality(x.teachers)
    IN  [students |-> Cardinality(x.students), classes |-> Cardinality(x.classes), teachers |-> Cardinality(x.teachers),
         sessions |-> sessions, records |-> lists + (IF sessions = NO_DATA THEN 0 ELSE sessions)]

-----------------------------------------------------------------------------
(* What the page shows                                                     *)

(* A list of classes leaves the archived ones out.                         *)
Listed(store) == [store EXCEPT !.classes = {c \in @ : ~c.archived}]
InRange(calendar) == {l \in calendar : range.to <= l.age /\ l.age <= range.from}
Available(s) == read[s].rows # {} /\ read[s].error = "none"

(* The aggregate read: six lists at once, none of them used without the    *)
(* others.                                                                 *)
AcademyMetrics(rows) ==
    [activeStudents |-> Cardinality({s \in rows.students : s.status = "active"}),
     classes |-> Cardinality(rows.classes),
     activeEnrollments |-> Cardinality({e \in rows.enrollments : e.status = "active"}),
     takenSeats |-> MapThenSumSet(LAMBDA c : c.enrolled, rows.classes),
     totalSeats |-> MapThenSumSet(LAMBDA c : c.capacity, rows.classes)]
(* The row of a read whose answer is one record.                           *)
TheRow(s) == CHOOSE row \in read[s].rows : TRUE
useHeroStats ==
    LET m == TheRow("hero")
    IN  IF Available("hero")
        THEN <<m.activeStudents, m.classes, m.activeEnrollments,
               IF m.totalSeats > 0 THEN (m.takenSeats * 100 + m.totalSeats \div 2) \div m.totalSeats ELSE 0>>
        ELSE <<NO_DATA, NO_DATA, NO_DATA, NO_DATA>>

(* The lessons of today that run now, and the clashes of their rooms.      *)
useDayPulse(calendar, now) ==
    LET today == {l \in calendar : l.age = 0}
        pairs == conflictPairs(today)
    IN  [live |-> Cardinality({l \in today : l.status = "scheduled" /\ InProgress(l, now)}),
         conflicts |-> Cardinality(pairs), clashIds |-> {l.id : l \in UNION pairs},
         firstConflictStart |-> IF pairs = {} THEN NO_DATA ELSE Min({Min({l.start : l \in p}) : p \in pairs}),
         scheduled |-> Cardinality(today \ CalledOff(today))]

(* What the panels derive their figures from.                              *)
InsightInput ==
    [metrics |-> IF Available("metrics") THEN TheRow("metrics") ELSE Unread,
     students |-> read["students"].rows, classes |-> read["classes"].rows,
     rooms |-> read["rooms"].rows, teachers |-> read["teachers"].rows,
     sessions |-> IF read["sessions"].error = "none" THEN read["sessions"].rows ELSE Unread]
LoadingMutant == \E s \in InsightSources \ {"sessions"} : read[s].loading
Loading == \E s \in InsightSources : read[s].loading
(* A failure that is told: an unavailable list of rooms is none.           *)
InsightError == \E s \in InsightSources : read[s].error = "fault"
heroError == read["hero"].error = "fault" \/ InsightError

Behind(panel) == IF Loading THEN "reading" ELSE panel
Signals == Behind(deriveSignals(InsightInput))
Attention ==
    LET items == deriveAttentionItems(InsightInput)
    IN  Behind(IF items # {} THEN items
               ELSE IF dashboardCounts(InsightInput).records > 0 THEN "nothing to attend to" ELSE "no records")
TodayFlow ==
    LET x == InsightInput
        flow == deriveFlowRows(x.sessions, minute)
    IN  Behind(IF x.sessions = Unread THEN "calendar not read"
               ELSE IF flow.rows # <<>> THEN flow
               ELSE IF dashboardCounts(x).records > 0 THEN "a quiet day" ELSE "no records")
Intelligence == Behind(deriveIntelligenceCards(InsightInput))
ReceivablesChart == IF InsightInput.students = {} THEN NO_DATA ELSE deriveReceivables(InsightInput.students)
GrowthChart == IF InsightInput.students = {} THEN NO_DATA ELSE rosterSeries(InsightInput.students)
OccupancyChart ==
    LET model == deriveOccupancy(InsightInput.classes, InsightInput.rooms)
    IN  IF model.classes = 0 THEN NO_DATA ELSE model
InstrumentsChart == IF InsightInput.students = {} THEN NO_DATA ELSE deriveInstrumentMix(InsightInput.students)
BusinessIntelligence == Behind([receivables |-> ReceivablesChart, growth |-> GrowthChart,
                                occupancy |-> OccupancyChart, instruments |-> InstrumentsChart])
(* The day in the hero, from a calendar read of its own.                   *)
Hero ==
    LET pulse == useDayPulse(read["pulse"].rows, minute)
    IN  [stats |-> useHeroStats,
         day |-> IF read["pulse"].loading THEN "reading" ELSE IF pulse.scheduled = 0 THEN "a quiet day" ELSE pulse]
PulseCard ==
    LET x == InsightInput
    IN  [stats |-> useHeroStats, day |-> Hero.day,
         kicker |-> Behind(IF dashboardCounts(x).records = 0 THEN "no records"
                           ELSE [sessionsToday |-> IF x.sessions = Unread THEN NO_DATA
                                                   ELSE deriveFlowRows(x.sessions, minute).total,
                                 attentionCount |-> Cardinality(deriveAttentionItems(x))])]

-----------------------------------------------------------------------------
(* The page while it is open                                               *)

DashInit == ReadsInit("dashboard", Sources)
(* What each read asks for; two of them are answered by one record.        *)
DashboardRows(s) ==
    CASE s \in {"metrics", "hero"} -> {AcademyMetrics(Listed(academy))}
      [] s = "sessions" -> InRange(academy.lessons)
      [] s = "pulse" -> {l \in academy.lessons : l.age = 0}
      [] OTHER -> Listed(academy)[s]

(* The banner's retry: both halves of what is on screen.                   *)
Retry == heroError /\ PageTurn /\ ReadAgain(InsightSources \union {"hero"})
         /\ UNCHANGED <<academy, page, range, minute, outdated, faults>>
Refresh == ~Loading /\ PageTurn /\ ReadAgain(InsightSources)
           /\ UNCHANGED <<academy, page, range, minute, outdated, faults>>
(* Another range is another query: its predecessor's rows are dropped.     *)
SetRange(r) ==
    /\ r # range /\ PageTurn /\ range' = r /\ read' = [read EXCEPT !["sessions"] = Reading]
    /\ UNCHANGED <<academy, page, minute, outdated, faults>>

DashNext ==
    /\ page = "dashboard"
    /\ Retry \/ Refresh \/ (\E r \in Ranges : SetRange(r)) \/ \E s \in Sources : AnswerRead(s, DashboardRows(s))

-----------------------------------------------------------------------------
(* The panels that show figures, and no failure beside them, show one and  *)
(* the same academy, the stored one, unless another client changed it:     *)
(* every panel waits for every read ("the panels cannot disagree with each *)
(* other mid-write").                                                      *)
PanelsShowOneAcademy ==
    /\ ~Loading /\ ~InsightError /\ outdated \intersect InsightSources = {} =>
          /\ InsightInput.students = academy.students /\ InsightInput.classes = Listed(academy).classes
          /\ InsightInput.metrics = AcademyMetrics(Listed(academy)) /\ InsightInput.sessions = InRange(academy.lessons)
    /\ Current({"hero"}) => useHeroStats[3] = Cardinality({e \in academy.enrollments : e.status = "active"})

(* What several panels say of one thing is the same: the last point of the *)
(* roster and the students, the risk in tile, list and card, the seats in  *)
(* hero and chart; a card's clash in the flow is a clash of the hero, the  *)
(* first of them starts where the hero says, and as many lessons run.      *)
FiguresAgree ==
    LET x == InsightInput
        signals == deriveSignals(x)
        flow == deriveFlowRows(x.sessions, minute)
        pulse == useDayPulse(read["pulse"].rows, minute)
        Item(id) == MapThenSumSet(LAMBDA i : i.count, {i \in deriveAttentionItems(x) : i.id = id})
        today == {l \in academy.lessons : l.age = 0}
        involved == {l \in today : \E o \in today : clashes(l, o)}
    IN  /\ Placed(rosterSeries(x.students)) = Cardinality(x.students)
        /\ MapThenSumSet(LAMBDA i : deriveInstrumentMix(x.students)[i], DOMAIN deriveInstrumentMix(x.students))
              = Cardinality(x.students)
        /\ signals.atRisk = Item("at-risk-students")
        /\ x.sessions # Unread =>
              /\ flow.total >= flow.remaining + flow.cancelled /\ flow.total >= Len(flow.rows)
              /\ Current({"sessions"}) /\ range.to = 0 /\ range.from >= 6 =>
                    signals.sessions = Cardinality(Within(academy.lessons, 7))
        /\ Current({"hero", "classes"}) => useHeroStats[2] = Cardinality(x.classes)
        /\ Current({"pulse"}) =>
              /\ pulse.clashIds = {l.id : l \in involved}
              /\ involved # {} => pulse.firstConflictStart = Min({l.start : l \in involved})
              /\ Current({"sessions"}) /\ range.to = 0 =>
                    /\ pulse.scheduled = flow.total - flow.cancelled
                    /\ \A i \in DOMAIN flow.rows :
                          flow.rows[i].status = "attention" <=> flow.rows[i].id \in pulse.clashIds
                    /\ Cardinality({i \in DOMAIN flow.rows : flow.rows[i].status = "live"}) <= pulse.live

DashboardHolds == page = "dashboard" => PanelsShowOneAcademy /\ FiguresAgree
=============================================================================
