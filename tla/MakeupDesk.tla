------------------------------ MODULE MakeupDesk ------------------------------
(***************************************************************************)
(* The page of make-up lessons (src/views/Compensation.tsx): the table of   *)
(* obligations, the strip that counts them, the drawer with the two lessons *)
(* of one obligation read by their ids, and the dialogs that decide.  Each  *)
(* read starts over after a write of this client, answers late, fails on    *)
(* its own; another client's write is not noticed.  What a row says is      *)
(* derived from the calendar when the read answers (derive.ts, readModel).  *)
(*                                                                          *)
(* Left out: names, search, permissions, rooms; one verb is one step (its   *)
(* interleavings are LocalTimetable's), a form's life is EntityForm's.      *)
(***************************************************************************)
EXTENDS Naturals, Sequences, FiniteSets, SequencesExt

CONSTANTS Originals,     \* cancelled lessons, and the obligations they leave
          Bookable,      \* ids the calendar draws, for make-ups and moves
          GroupLessons,  \* originals whose class is not private
          NoLink,        \* no lesson
          Followed,      \* the reads that may be followed beside the table
          MaxVerbs,      \* bound: writes of any client
          MaxMisses,     \* bound: reads that fail
          MaxViews       \* bound: drawers and dialogs opened

ASSUME MakeupDeskAssumption ==
    /\ GroupLessons \subseteq Originals /\ GroupLessons # Originals /\ NoLink \notin Originals \union Bookable
    /\ Bookable # {} /\ IsFiniteSet(Bookable) /\ Originals \intersect Bookable = {}
    /\ Followed \subseteq {"required", "scheduled", "completed", "attention", "cancelled", "original", "effective"}
    /\ MaxVerbs \in Nat /\ MaxMisses \in Nat /\ MaxViews \in Nat

VARIABLES
    diary,     \* the calendar: lesson -> its state and its links
    promises,  \* the ledger: obligation -> filed, attempts, done
    followed,  \* the read that is followed beside the table: a count of the strip, a lesson
               \* of the drawer, or the lessons a registration may choose
    lookups,   \* source -> the read under way and what it holds
    narrowed,  \* the tab, or the attention chip
    openId,    \* the obligation the drawer shows
    decision,  \* the open dialog
    behind,    \* history: sources another client's write came after
    strayed,   \* history: lessons a confirmed move took that stood for nothing
    verbs, misses, views
deskVars == <<diary, promises, followed, lookups, narrowed, openId, decision, behind, strayed, verbs, misses, views>>
store == <<diary, promises>>
deskReads == <<followed, lookups, behind, misses>>
deskPage == <<narrowed, openId, decision, views>>

DiaryIds == Originals \union Bookable
Statuses == {"required", "scheduled", "completed"}
Filters == Statuses \union {"all", "attention"}
DiaryEntry(status, from) == [status |-> status, to |-> NoLink, from |-> from]
NotDrawn == DiaryEntry("none", NoLink)
OnDiary(d, l) == d[l].status \in {"scheduled", "cancelled"}
NoDecision == [kind |-> "none", about |-> NoLink, lesson |-> NoLink]

-----------------------------------------------------------------------------
(* What an obligation says, derived from the calendar.                     *)

attemptStateOf(d, l) == IF OnDiary(d, l) THEN d[l].status ELSE "missing"
(* The row a booking went on to: its forward link, or the row that came    *)
(* from it when it is gone, or cancelled without a link.                   *)
OnwardFrom(d, l) ==
    IF OnDiary(d, l) /\ d[l].to # NoLink THEN d[l].to
    ELSE IF attemptStateOf(d, l) = "scheduled" \/ ~\E m \in Bookable : OnDiary(d, m) /\ d[m].from = l THEN NoLink
    ELSE CHOOSE m \in Bookable : OnDiary(d, m) /\ d[m].from = l
Walk(d, l) ==
    LET at[n \in 0 .. Cardinality(Bookable)] ==
            IF n = 0 THEN l ELSE IF OnwardFrom(d, at[n - 1]) = NoLink THEN at[n - 1] ELSE OnwardFrom(d, at[n - 1])
    IN  [ends |-> at[Cardinality(Bookable)],
         moves |-> Cardinality({n \in 1 .. Cardinality(Bookable) : at[n] # at[n - 1]})]

currentAttemptOf(p) == IF p.attempts = <<>> THEN NoLink ELSE Last(p.attempts)
StandsOn(d, p) == IF p.attempts = <<>> THEN NoLink ELSE Walk(d, currentAttemptOf(p)).ends
attemptBroken(d, p) == p.attempts # <<>> /\ attemptStateOf(d, StandsOn(d, p)) \in {"cancelled", "missing"}
isLive(d, p) == p.attempts # <<>> /\ attemptStateOf(d, StandsOn(d, p)) = "scheduled"
compensationStatusOf(d, p) == IF p.done THEN "completed" ELSE IF isLive(d, p) THEN "scheduled" ELSE "required"

readModel(d, o, p) ==
    [id |-> o, status |-> compensationStatusOf(d, p), broken |-> attemptBroken(d, p), lesson |-> StandsOn(d, p),
     state |-> IF p.attempts = <<>> THEN "none" ELSE attemptStateOf(d, StandsOn(d, p)),
     booked |-> currentAttemptOf(p), moves |-> IF p.attempts = <<>> THEN 0 ELSE Walk(d, currentAttemptOf(p)).moves, gone |-> ~OnDiary(d, o)]
Obligations == {o \in Originals : promises[o].filed}
isCompensableOriginal(d, o) == d[o].status = "cancelled" /\ o \notin GroupLessons
Passes(row, f) == CASE f = "all" -> TRUE [] f = "attention" -> row.broken [] OTHER -> row.status = f
LedgerRows(f) == {row \in {readModel(diary, o, promises[o]) : o \in Obligations} : Passes(row, f)}

-----------------------------------------------------------------------------
(* The reads of the page                                                   *)

Lists == {"ledger", "count", "cancelled"}
ById == {"original", "effective"}
DeskSources == Lists \union ById
NotAsked == [due |-> TRUE, key |-> NoLink, rows |-> {}, loading |-> TRUE, error |-> FALSE]

LedgerPage == lookups["ledger"].rows
OpenRow == {row \in LedgerPage : row.id = openId}
VisibleRows == {row \in LedgerPage : Passes(row, narrowed)}
(* The id a lesson of the drawer is read by; a booking that cannot be      *)
(* walked to a row is no target.                                           *)
AskedId(s) ==
    IF OpenRow = {} THEN NoLink
    ELSE LET row == CHOOSE r \in OpenRow : TRUE
         IN  IF s = "original" THEN row.id ELSE IF row.state \in {"none", "missing"} THEN NoLink ELSE row.lesson
Answers(s) == s \in Lists \/ (AskedId(s) # NoLink /\ lookups[s].key = AskedId(s))
RowsShown(s) == IF Answers(s) THEN lookups[s].rows ELSE {}
Follows(s) == CASE s = "ledger" -> TRUE [] s = "count" -> followed \in Filters [] OTHER -> followed = s
LookupDone(s) == Follows(s) /\ Answers(s) /\ (s \in ById => ~lookups[s].due) /\ ~lookups[s].loading /\ ~lookups[s].error
countValue == IF lookups["count"].loading \/ lookups["count"].error THEN {} ELSE {Cardinality(lookups["count"].rows)}
Candidates == {l \in lookups["cancelled"].rows : l \notin {row.id : row \in LedgerPage} /\ l \notin GroupLessons}

Finding(s) ==
    CASE s = "ledger" -> LedgerRows("all")
      [] s = "count" -> LedgerRows(followed)
      [] s = "cancelled" -> {o \in Originals : diary[o].status = "cancelled"}
      [] OTHER -> {[id |-> l, status |-> diary[l].status] : l \in {m \in {AskedId(s)} : OnDiary(diary, m)}}

(* The effect of a read by id runs after the render that asked for it.     *)
Lookup(s) ==
    /\ Follows(s) /\ AskedId(s) # NoLink /\ (lookups[s].due \/ lookups[s].key # AskedId(s))
    /\ LET again == lookups[s].key = AskedId(s)
       IN  lookups' = [lookups EXCEPT ![s] =
               [due |-> FALSE, key |-> AskedId(s), rows |-> IF again THEN lookups[s].rows ELSE {},
                loading |-> TRUE, error |-> again /\ lookups[s].error]]
    /\ UNCHANGED <<store, deskPage, followed, behind, strayed, verbs, misses>>

(* A list keeps its rows when a read of it fails; a lesson by its id does  *)
(* not, and one that is gone is an error too.                              *)
UnderWay(s) == Follows(s) /\ Answers(s) /\ lookups[s].loading
Land(s) ==
    /\ UnderWay(s)
    /\ lookups' = [lookups EXCEPT ![s].loading = FALSE, ![s].rows = Finding(s),
                                  ![s].error = s \in ById /\ Finding(s) = {}]
    /\ behind' = behind \ {s} /\ UNCHANGED <<store, deskPage, followed, strayed, verbs, misses>>
Miss(s) ==
    /\ UnderWay(s) /\ misses < MaxMisses /\ misses' = misses + 1
    /\ lookups' = [lookups EXCEPT ![s].loading = FALSE, ![s].error = TRUE, ![s].rows = IF s \in Lists THEN @ ELSE {}]
    /\ UNCHANGED <<store, deskPage, followed, behind, strayed, verbs>>
(* The lists of the table and of the strip, and the make-up, can be retried. *)
reload(s) ==
    /\ s \in {"ledger", "count", "effective"} /\ Answers(s) /\ lookups[s].error /\ ~lookups[s].loading
    /\ lookups' = [lookups EXCEPT ![s].loading = TRUE]
    /\ UNCHANGED <<store, deskPage, followed, behind, strayed, verbs, misses>>

-----------------------------------------------------------------------------
(* The verbs of the repositories, each one write.                          *)

Draws == CHOOSE l \in Bookable : diary[l] = NotDrawn
CanBook == \E l \in Bookable : diary[l] = NotDrawn
Register(o) ==
    /\ isCompensableOriginal(diary, o) /\ ~promises[o].filed
    /\ promises' = [promises EXCEPT ![o].filed = TRUE] /\ UNCHANGED diary
Book(o) ==
    /\ promises[o].filed /\ ~promises[o].done /\ ~isLive(diary, promises[o]) /\ CanBook
    /\ diary' = [diary EXCEPT ![Draws] = DiaryEntry("scheduled", NoLink)]
    /\ promises' = [promises EXCEPT ![o].attempts = Append(@, Draws)]
Discharge(o) ==
    /\ promises[o].filed /\ ~promises[o].done /\ isLive(diary, promises[o])
    /\ promises' = [promises EXCEPT ![o].done = TRUE] /\ UNCHANGED diary
Move(l) ==
    /\ diary[l].status = "scheduled" /\ CanBook
    /\ diary' = [diary EXCEPT ![Draws] = DiaryEntry("scheduled", l), ![l].status = "cancelled", ![l].to = Draws]
    /\ UNCHANGED promises
CallOff(l) == diary[l].status = "scheduled" /\ diary' = [diary EXCEPT ![l].status = "cancelled"] /\ UNCHANGED promises
RemoveLesson(l) == OnDiary(diary, l) /\ diary' = [diary EXCEPT ![l] = DiaryEntry("gone", diary[l].from)] /\ UNCHANGED promises

CountsVerb == verbs < MaxVerbs /\ verbs' = verbs + 1
(* A write of this client makes every read start over, a lesson's when it  *)
(* is asked for; another client's is not noticed.                          *)
Bumps == /\ lookups' = [s \in DeskSources |-> IF s \in Lists THEN [lookups[s] EXCEPT !.loading = TRUE]
                                              ELSE [lookups[s] EXCEPT !.due = TRUE]]
         /\ UNCHANGED behind
Elsewhere ==
    /\ CountsVerb
    /\ (\E o \in Originals : Book(o) \/ Discharge(o)) \/ (\E l \in DiaryIds : Move(l) \/ CallOff(l) \/ RemoveLesson(l))
    /\ behind' = DeskSources /\ UNCHANGED lookups
    /\ UNCHANGED <<deskPage, followed, strayed, misses>>

-----------------------------------------------------------------------------
(* The page: filters, drawer, dialogs.                                     *)

CountsView == views < MaxViews /\ views' = views + 1
NarrowTo(f) == /\ f \in {"all", followed} /\ decision = NoDecision /\ openId = NoLink /\ f # narrowed /\ CountsView /\ narrowed' = f
               /\ UNCHANGED <<store, deskReads, openId, decision, strayed, verbs>>
OpenDrawer(o) == /\ decision = NoDecision /\ openId = NoLink /\ (\E row \in VisibleRows : row.id = o) /\ CountsView
                 /\ openId' = o /\ UNCHANGED <<store, deskReads, narrowed, decision, strayed, verbs>>
(* Escape closes the dialog and the drawer at once.  A lesson that is no   *)
(* longer asked for is read again when it is.                              *)
CloseDrawer == /\ openId # NoLink /\ openId' = NoLink /\ decision' = NoDecision
               /\ lookups' = [s \in DeskSources |-> IF s \in ById THEN [lookups[s] EXCEPT !.due = TRUE] ELSE lookups[s]]
               /\ UNCHANGED <<store, followed, behind, misses, narrowed, views, strayed, verbs>>
CloseDialog == /\ decision # NoDecision /\ decision' = NoDecision
               /\ UNCHANGED <<store, deskReads, narrowed, openId, views, strayed, verbs>>
Opens(kind, o, l) == /\ decision = NoDecision /\ CountsView /\ decision' = [kind |-> kind, about |-> o, lesson |-> l]
                     /\ UNCHANGED <<store, deskReads, narrowed, openId, strayed, verbs>>
OpenRegister == openId = NoLink /\ \E l \in Candidates : Opens("register", l, NoLink)
OpenBooking == \E row \in OpenRow : /\ row.status = "required"
                                    /\ \/ ~Follows("original") \/ RowsShown("original") # {}
                                       \/ Answers("original") /\ ~lookups["original"].loading
                                    /\ Opens("book", row.id, NoLink)
OpenComplete == \E row \in OpenRow : row.status = "scheduled" /\ Opens("complete", row.id, NoLink)
(* The move keeps the lesson it was opened with.                           *)
OpenMove == \E row \in OpenRow : row.status = "scheduled" /\ \E l \in RowsShown("effective") : Opens("move", row.id, l.id)

(* A refused decision leaves its dialog open and changes nothing; one that *)
(* was carried out closes it.  The dialogs of booking and discharge are    *)
(* drawn for a row of the table.                                           *)
Decides(kind) == /\ decision.kind = kind /\ CountsVerb /\ decision' = NoDecision /\ Bumps
                 /\ UNCHANGED <<narrowed, openId, views, followed, misses>>
IsListed(o) == \E row \in LedgerPage : row.id = o
Confirm ==
    LET o == decision.about
        l == decision.lesson
    IN  \/ Decides("register") /\ o \in Candidates /\ Register(o) /\ UNCHANGED strayed
        \/ Decides("book") /\ IsListed(o) /\ Book(o) /\ UNCHANGED strayed
        \/ Decides("complete") /\ IsListed(o) /\ Discharge(o) /\ UNCHANGED strayed
        \/ /\ Decides("move") /\ Move(l)
           /\ strayed' = IF l = StandsOn(diary, promises[o]) THEN strayed ELSE strayed \union {l}

(* A page opened on an empty ledger, or on one where every private lesson  *)
(* is owed and one make-up is booked.                                      *)
DeskOpensOn(earlier) ==
    LET owed == IF earlier THEN Originals \ GroupLessons ELSE {}
        first == CHOOSE o \in Originals \ GroupLessons : TRUE
        made == CHOOSE l \in Bookable : TRUE
    IN  /\ diary = [l \in DiaryIds |-> IF l \in Originals THEN DiaryEntry("cancelled", NoLink)
                                      ELSE IF earlier /\ l = made THEN DiaryEntry("scheduled", NoLink) ELSE NotDrawn]
        /\ promises = [o \in Originals |-> [filed |-> o \in owed, done |-> FALSE,
                                            attempts |-> IF earlier /\ o = first THEN <<made>> ELSE <<>>]]
DeskRests == /\ lookups = [s \in DeskSources |-> NotAsked] /\ narrowed = "all" /\ openId = NoLink /\ decision = NoDecision
             /\ behind = {} /\ strayed = {} /\ verbs = 0 /\ misses = 0 /\ views = 0
MakeupDeskInit == (\E earlier \in BOOLEAN : DeskOpensOn(earlier)) /\ followed \in Followed /\ DeskRests
MakeupDeskNext ==
    \/ \E s \in ById : Lookup(s)
    \/ \E s \in DeskSources : Land(s) \/ Miss(s) \/ reload(s)
    \/ Elsewhere
    \/ \E f \in Filters : NarrowTo(f)
    \/ \E o \in Originals : OpenDrawer(o)
    \/ CloseDrawer \/ CloseDialog \/ OpenRegister \/ OpenBooking \/ OpenComplete \/ OpenMove \/ Confirm

MakeupDeskTypeOK ==
    /\ diary \in [DiaryIds -> [status : {"none", "scheduled", "cancelled", "gone"},
                              to : Bookable \union {NoLink}, from : DiaryIds \union {NoLink}]]
    /\ \A o \in Originals : promises[o].filed \in BOOLEAN /\ \A i \in DOMAIN promises[o].attempts : promises[o].attempts[i] \in Bookable
    /\ narrowed \in Filters /\ openId \in Originals \union {NoLink} /\ behind \subseteq DeskSources /\ strayed \subseteq DiaryIds
    /\ \A s \in DeskSources : lookups[s].key \in DiaryIds \union {NoLink} /\ lookups[s].loading \in BOOLEAN
    /\ verbs \in 0 .. MaxVerbs /\ misses \in 0 .. MaxMisses /\ views \in 0 .. MaxViews

-----------------------------------------------------------------------------
(* The drawer never shows, and a move is never offered on, a lesson of     *)
(* another obligation, whichever row was read before ("the render that     *)
(* first sees a new id can never expose the previous one's row").          *)
DrawerKeepsToItsRow ==
    \A s \in ById : \A l \in RowsShown(s) : l.id = AskedId(s)

(* What is read and not overtaken by another client is what is stored: the *)
(* table, the number of the strip and the rows it leads to, the make-up in *)
(* the drawer, and the lessons a registration may choose.                  *)
UpToDate(s) == LookupDone(s) /\ s \notin behind
DeskTellsTheLedger ==
    /\ UpToDate("ledger") => LedgerPage = LedgerRows("all")
    /\ UpToDate("ledger") /\ UpToDate("count") =>
          countValue = {Cardinality({row \in LedgerPage : Passes(row, followed)})}
    /\ UpToDate("ledger") /\ UpToDate("effective") =>
          \A row \in OpenRow : \A l \in RowsShown("effective") : row.status = "scheduled" => l.status = "scheduled"
    /\ UpToDate("ledger") /\ UpToDate("cancelled") =>
          Candidates = {o \in Originals : isCompensableOriginal(diary, o) /\ ~promises[o].filed}

(* Decisions made on a table that was overtaken do not book a second       *)
(* make-up where one is known, and no lesson stands for two obligations.   *)
(* While a lineage can be followed, every make-up that takes place is      *)
(* known, and a confirmed move takes the lesson its obligation stands on,  *)
(* however old the lesson its dialog was opened with; a moved-from row is  *)
(* history and never a target.  The walk bridges one deleted row, not two  *)
(* in succession: then a make-up may take place that nothing leads to.     *)
LineageKept == \A l \in Bookable :
    diary[l].status = "gone" /\ diary[l].from \in Bookable => diary[diary[l].from].status # "gone"
StandIns(o) == {Walk(diary, promises[o].attempts[i]).ends : i \in DOMAIN promises[o].attempts}
DecisionsMeetTheMakeup ==
    /\ \A o \in Originals :
          /\ Cardinality({l \in StandIns(o) : diary[l].status = "scheduled"}) <= 1
          /\ \A q \in Originals \ {o} : StandIns(o) \intersect StandIns(q) = {}
    /\ LineageKept => /\ strayed = {}
                      /\ \A l \in Bookable : diary[l].status = "scheduled" => \E o \in Originals : l \in StandIns(o)

MakeupDeskHolds == DrawerKeepsToItsRow /\ DeskTellsTheLedger /\ DecisionsMeetTheMakeup
=============================================================================
