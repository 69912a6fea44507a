------------------------------ MODULE Scheduling ------------------------------
(***************************************************************************)
(* Class sessions: booking, editing, cancelling, moving and deleting them, *)
(* generating them from a class's recurrence, and the attendance that      *)
(* protects them.  The hazards are two operators booking the same room or  *)
(* teacher, a move that leaves two live successors, and a generation whose *)
(* plan is stale when it is written.                                       *)
(*                                                                         *)
(* Sources: SessionService, ConflictDetector, SessionGenerator, the class, *)
(* attendance and student services as far as they touch a session or its   *)
(* attendance, and the class_sessions and attendance migrations.  Left     *)
(* out: enrollments (they narrow who may be marked, and go with their      *)
(* student), warnings (they never refuse an acknowledged request), notes,  *)
(* reasons, the past dates that generation skips, duration limits and who  *)
(* may call.                                                               *)
(*                                                                         *)
(* A worker serves one request after another.  A request reads and decides *)
(* in one step: on mysql its plain reads see one snapshot and the row it   *)
(* locks first cannot change before them; on sqlite its SHARED lock keeps  *)
(* every commit away.  It then writes, and its row changes, collected in   *)
(* `writes', become visible at the commit.  A refused request changes      *)
(* nothing and is a stuttering step.                                       *)
(***************************************************************************)
EXTENDS Database, FiniteSets, Integers

CONSTANTS Classes,
          Students,
          ManualIds,   \* the ULIDs of sessions booked by hand
          Bookings,    \* slots that clients ask for: date, hours, room, teacher
          Plans,       \* recurrences a class may have: hours, room, teacher
          Operations   \* the endpoints that a run's clients call

VARIABLES class,       \* committed class rows
          session,     \* committed session rows
          students,    \* committed student rows
          attended,    \* committed attendance records: session and student
          req          \* what each worker is doing

tables == <<class, session, students, attended>>
vars == <<dbVars, tables, req>>

Dates == {b.date : b \in Bookings}
SlotOn(d, plan) ==
  [date |-> d, from |-> plan.from, till |-> plan.till,
   room |-> plan.room, teacher |-> plan.teacher]
Slots == Bookings \cup {SlotOn(d, plan) : d \in Dates, plan \in Plans}

\* SessionGenerator::slotId: a generated session's id is its content.
SlotId(c, slot) == <<c, slot.date, slot.from>>
Ids == ManualIds \cup {SlotId(c, s) : c \in Classes, s \in Slots}

\* A generated id holds underscores and the ULID of a manual one does not.
ASSUME SchedulingAssumption ==
  /\ Classes \cup Ids \cup Students \subseteq Rows
  /\ None \notin Rows
  /\ \A c \in Classes, s \in Slots : SlotId(c, s) \notin ManualIds
  /\ \A b \in Slots : b.from < b.till

\* Every status but cancelled occupies its slot, so one stands for them all.
SessionRow == [class : Classes, at : Slots, status : {"scheduled", "cancelled"},
               origin : {"manual", "generated"},
               movedFrom : Ids \cup {None}, movedTo : Ids \cup {None}]
ClassRow == [status : {"active", "archived", "deleted"}, plan : Plans]
Unborn == [status |-> "unborn"]
Deleted == [status |-> "deleted"]

Ops == {"none", "create", "update", "cancel", "reschedule", "delete", "generate", "mark"}
Places == {"idle", "write", "commit"}
Write == [id : Ids, row : SessionRow \cup {Deleted}]

\* A generation still has `creates' to insert, then `updates' to save.
Request == [op : Ops, pc : Places, id : Ids \cup {None}, class : Classes \cup {None},
            creates : SUBSET Slots, updates : SUBSET Slots, writes : SUBSET Write,
            marking : SUBSET Students]

Idle == [op |-> "none", pc |-> "idle", id |-> None, class |-> None,
         creates |-> {}, updates |-> {}, writes |-> {}, marking |-> {}]

\* SUBSET Write is too large to build, so its members are checked one by one.
TypeOK ==
  /\ DbTypeOK
  /\ class \in [Classes -> ClassRow]
  /\ session \in [Ids -> SessionRow \cup {Unborn, Deleted}]
  /\ students \subseteq Students
  /\ attended \subseteq Ids \X Students
  /\ \A p \in Requests :
       /\ \A w \in req[p].writes : w \in Write
       /\ [req[p] EXCEPT !.writes = {}] \in Request

Exists(i) == session[i].status \in {"scheduled", "cancelled"}
Live(i) == session[i].status = "scheduled"
ClassExists(c) == class[c].status # "deleted"
HasAttendance(i) == \E s \in Students : <<i, s>> \in attended
RecordsOf(sessions) == {a \in attended : a[1] \in sessions}

At(p, op, pc) == req[p].op = op /\ req[p].pc = pc
WriteTo(i, row) == [id |-> i, row |-> row]

\* A fresh ULID: no row and no other request uses it.
Unused(i) == session[i] = Unborn /\ \A q \in Requests : \A w \in req[q].writes : w.id # i

RollBack(p) ==
  /\ EndTx(p)
  /\ req' = [req EXCEPT ![p] = Idle]
  /\ UNCHANGED tables

-----------------------------------------------------------------------------
(* ConflictDetector::check, the hard conflicts                             *)

Overlap(a, b) == a.date = b.date /\ a.from < b.till /\ b.from < a.till

\* A room and a teacher are in one place at a time.
Clash(a, b) == Overlap(a, b) /\ (a.room = b.room \/ a.teacher = b.teacher)

\* Mutant: the teacher's other sessions are not looked at.
BookableRoomMutant(self, c, slot) ==
  /\ class[c].status # "archived"
  /\ \A i \in Ids \ {self} :
       Live(i) => ~(Overlap(session[i].at, slot) /\ session[i].at.room = slot.room)

\* Mutant: the status of the class is not looked at.
BookableClassMutant(self, c, slot) ==
  \A i \in Ids \ {self} : Live(i) => ~Clash(session[i].at, slot)

\* `self' is the session being edited or moved; a new one passes None.
Bookable(self, c, slot) ==
  /\ class[c].status # "archived"
  /\ \A i \in Ids \ {self} : Live(i) => ~Clash(session[i].at, slot)

-----------------------------------------------------------------------------
(* SessionService: each operation reads, decides and stages its writes.    *)

Start(p, op, i, c, writes, marked) ==
  /\ req[p].pc = "idle"
  /\ req' = [req EXCEPT ![p] = [Idle EXCEPT !.op = op, !.pc = "write", !.id = i, !.class = c,
                                            !.writes = writes, !.marking = marked]]
  /\ UNCHANGED tables

Begin(p, op, i, c, writes) == Start(p, op, i, c, writes, {})

Booked(c, slot, status, origin, from) ==
  [class |-> c, at |-> slot, status |-> status, origin |-> origin,
   movedFrom |-> from, movedTo |-> None]

Create(p) ==
  \E i \in ManualIds, c \in Classes, slot \in Bookings, status \in {"scheduled", "cancelled"} :
    /\ Unused(i) /\ ClassExists(c)
    /\ Bookable(None, c, slot)
    /\ PlainRead(p)
    /\ Begin(p, "create", i, c, {WriteTo(i, Booked(c, slot, status, "manual", None))})

\* Mutant: the status is among the fields a client may edit.
UpdateMutant(p) ==
  \E i \in Ids, slot \in Bookings, status \in {"scheduled", "cancelled"} :
    /\ Exists(i) /\ Bookable(i, session[i].class, slot)
    /\ LockingRead(p, i)
    /\ Begin(p, "update", i, None,
         {WriteTo(i, [session[i] EXCEPT !.at = slot, !.status = status])})

\* A cancelled session may be edited too, and `origin' is left as it was.
Update(p) ==
  \E i \in Ids, slot \in Bookings :
    /\ Exists(i) /\ Bookable(i, session[i].class, slot)
    /\ LockingRead(p, i)
    /\ Begin(p, "update", i, None, {WriteTo(i, [session[i] EXCEPT !.at = slot])})

Cancel(p) ==
  \E i \in Ids :
    /\ Live(i)
    /\ LockingRead(p, i)
    /\ Begin(p, "cancel", i, None, {WriteTo(i, [session[i] EXCEPT !.status = "cancelled"])})

\* Mutant: the original is read without lockForUpdate.
RescheduleMutant(p) ==
  \E i \in Ids, j \in ManualIds, slot \in Bookings :
    /\ Live(i) /\ Unused(j)
    /\ Bookable(i, session[i].class, slot)
    /\ PlainRead(p)
    /\ Begin(p, "reschedule", i, session[i].class,
         {WriteTo(j, Booked(session[i].class, slot, "scheduled", "manual", i)),
          WriteTo(i, [session[i] EXCEPT !.status = "cancelled", !.movedTo = j])})

\* The original is cancelled and linked to a new session, never edited.
Reschedule(p) ==
  \E i \in Ids, j \in ManualIds, slot \in Bookings :
    /\ Live(i) /\ Unused(j)
    /\ Bookable(i, session[i].class, slot)
    /\ LockingRead(p, i)
    /\ Begin(p, "reschedule", i, session[i].class,
         {WriteTo(j, Booked(session[i].class, slot, "scheduled", "manual", i)),
          WriteTo(i, [session[i] EXCEPT !.status = "cancelled", !.movedTo = j])})


Delete(p) ==
  \E i \in Ids :
    /\ Exists(i) /\ ~HasAttendance(i)
    /\ LockingRead(p, i)
    /\ Begin(p, "delete", i, None, {WriteTo(i, Deleted)})

\* AttendanceService::record and bulk: the session row is locked, whatever its
\* status, and one record per student is inserted or updated.
Mark(p) ==
  \E i \in Ids, marked \in SUBSET students :
    /\ Exists(i) /\ marked # {}
    /\ LockingRead(p, i)
    /\ Start(p, "mark", i, None, {}, marked)

\* The foreign keys on the class and on the student are checked as a row is
\* inserted; a record that went with its student cannot be refreshed.
Save(p) ==
  /\ req[p].pc = "write" /\ req[p].op # "generate"
  /\ req[p].class # None => ClassExists(req[p].class)
  /\ req[p].marking \subseteq students
  /\ WriteRow(p, req[p].id)
  /\ req' = [req EXCEPT ![p].pc = "commit"]
  /\ UNCHANGED tables

\* Deleting a session takes its attendance with it.
Commit(p) ==
  LET written == {w.id : w \in req[p].writes}
      gone == {w.id : w \in {v \in req[p].writes : v.row = Deleted}}
  IN /\ req[p].pc = "commit"
     /\ CommitTx(p)
     /\ session' = [i \in Ids |->
          IF i \in written THEN (CHOOSE w \in req[p].writes : w.id = i).row ELSE session[i]]
     /\ attended' = (attended \cup {<<req[p].id, s>> : s \in req[p].marking}) \ RecordsOf(gone)
     /\ req' = [req EXCEPT ![p] = Idle]
     /\ UNCHANGED <<class, students>>

-----------------------------------------------------------------------------
(* SessionGenerator::apply                                                 *)

Following(c, days) == {SlotOn(d, class[c].plan) : d \in days}

\* Mutant: a session with attendance is not protected.
MayRewriteMutant(i, slot) ==
  /\ Live(i) /\ session[i].origin = "generated"
  /\ session[i].at # slot

\* SKIP_CANCELLED, SKIP_MANUAL, SKIP_PROTECTED, SKIP_UNCHANGED
MayRewrite(i, slot) ==
  /\ Live(i) /\ session[i].origin = "generated" /\ ~HasAttendance(i)
  /\ session[i].at # slot

\* plan(): the slots of the window that have no session are created; updates
\* need confirmation; one hard conflict refuses the whole plan.
Plan(p) ==
  \E c \in Classes, days \in SUBSET Dates, confirm \in BOOLEAN :
    LET slots == Following(c, days)
        creates == {s \in slots : ~Exists(SlotId(c, s))}
        updates == {s \in slots : confirm /\ MayRewrite(SlotId(c, s), s)}
    IN /\ req[p].pc = "idle"
       /\ class[c].status = "active"
       /\ creates \cup updates # {}
       /\ \A s \in creates : Bookable(None, c, s)
       /\ \A s \in updates : Bookable(SlotId(c, s), c, s)
       /\ PlainRead(p)
       /\ req' = [req EXCEPT ![p] = [Idle EXCEPT !.op = "generate", !.pc = "write",
                                       !.class = c, !.creates = creates, !.updates = updates]]
       /\ UNCHANGED tables

\* Both loops go through the dates in order.
Earliest(s, slots) == s \in slots /\ \A t \in slots : s.date <= t.date

\* On mysql another request may have inserted the same slot: a duplicate key.
Generate(p) ==
  \E s \in req[p].creates :
    LET i == SlotId(req[p].class, s)
        row == Booked(req[p].class, s, "scheduled", "generated", None)
    IN /\ At(p, "generate", "write") /\ Earliest(s, req[p].creates)
       /\ ClassExists(req[p].class) /\ ~Exists(i)
       /\ WriteRow(p, i)
       /\ req' = [req EXCEPT ![p].creates = @ \ {s}, ![p].writes = @ \cup {WriteTo(i, row)}]
       /\ UNCHANGED tables

\* Mutant: the recurrence is saved without its date.
RewriteMutant(p) ==
  \E s \in req[p].updates :
    LET i == SlotId(req[p].class, s)
    IN /\ At(p, "generate", "write") /\ req[p].creates = {} /\ Earliest(s, req[p].updates)
       /\ WriteRow(p, i)
       /\ req' = [req EXCEPT ![p].updates = @ \ {s},
            ![p].writes = @ \cup {WriteTo(i, [session[i] EXCEPT !.at = class[req[p].class].plan])}]
       /\ UNCHANGED tables

\* The row is locked and loaded again, but what it became is not looked at.
Rewrite(p) ==
  \E s \in req[p].updates :
    LET i == SlotId(req[p].class, s)
    IN /\ At(p, "generate", "write") /\ req[p].creates = {} /\ Earliest(s, req[p].updates)
       /\ WriteRow(p, i)
       /\ req' = [req EXCEPT ![p].updates = @ \ {s},
            ![p].writes = IF Exists(i) THEN @ \cup {WriteTo(i, [session[i] EXCEPT !.at = s])} ELSE @]
       /\ UNCHANGED tables

Generated(p) ==
  /\ At(p, "generate", "write") /\ req[p].creates = {} /\ req[p].updates = {}
  /\ req' = [req EXCEPT ![p].pc = "commit"]
  /\ UNCHANGED <<dbVars, tables>>

-----------------------------------------------------------------------------
(* ClassService: one row, saved in one step.                               *)

\* On mysql a transaction that inserted into c keeps a shared lock on c's row.
Inserting(q, c) ==
  /\ req[q].class = c /\ (req[q].op = "generate" \/ req[q].pc = "commit")
  /\ \E w \in req[q].writes : ~Exists(w.id)

\* update and archive
EditClass(p) ==
  \E c \in Classes, plan \in Plans, status \in {"active", "archived"} :
    /\ req[p].pc = "idle" /\ ClassExists(c)
    /\ AutoCommitWrite(p, c)
    /\ HasRowLocks => ~(\E q \in Requests : Inserting(q, c))
    /\ class' = [class EXCEPT ![c] = [status |-> status, plan |-> plan]]
    /\ UNCHANGED <<session, students, attended, req>>

\* A class without enrollments is deleted and its sessions cascade.
DeleteClass(p) ==
  \E c \in Classes :
    LET mine == {i \in Ids : Exists(i) /\ session[i].class = c}
    IN /\ req[p].pc = "idle" /\ ClassExists(c)
       /\ AutoCommitWrite(p, c)
       /\ HasRowLocks => ~(\E q \in Requests : Inserting(q, c)) /\ \A i \in mine : rowLock[i] = None
       /\ class' = [class EXCEPT ![c].status = "deleted"]
       /\ session' = [i \in Ids |-> IF i \in mine THEN Deleted ELSE session[i]]
       /\ attended' = attended \ RecordsOf(mine)
       /\ UNCHANGED <<students, req>>

\* On mysql a transaction that wrote a student's record keeps a lock on it, and
\* on the student's row if it inserted the record.
Marking(q, s) == req[q].pc = "commit" /\ s \in req[q].marking

\* StudentService: the student goes and its attendance records cascade.
DeleteStudent(p) ==
  \E s \in students :
    /\ req[p].pc = "idle"
    /\ AutoCommitWrite(p, s)
    /\ HasRowLocks => ~(\E q \in Requests : Marking(q, s))
    /\ students' = students \ {s}
    /\ attended' = {a \in attended : a[2] # s}
    /\ UNCHANGED <<class, session, req>>

-----------------------------------------------------------------------------

\* SQLITE_BUSY, deadlock victim, lock wait timeout, foreign key or duplicate
\* key error, a PHP process that dies: the transaction rolls back.
Fail(p) == req[p].pc # "idle" /\ RollBack(p)

Init ==
  /\ DbInit
  /\ class \in [Classes -> [status : {"active"}, plan : Plans]]
  /\ session = [i \in Ids |-> Unborn]
  /\ students = Students
  /\ attended = {}
  /\ req = [p \in Requests |-> Idle]

Call(p) ==
  \/ "create" \in Operations /\ Create(p)
  \/ "update" \in Operations /\ Update(p)
  \/ "cancel" \in Operations /\ Cancel(p)
  \/ "reschedule" \in Operations /\ Reschedule(p)
  \/ "delete" \in Operations /\ Delete(p)
  \/ "mark" \in Operations /\ Mark(p)
  \/ "generate" \in Operations /\ Plan(p)
  \/ "editClass" \in Operations /\ EditClass(p)
  \/ "deleteClass" \in Operations /\ DeleteClass(p)
  \/ "deleteStudent" \in Operations /\ DeleteStudent(p)

Continue(p) ==
  Save(p) \/ Generate(p) \/ Rewrite(p) \/ Generated(p) \/ Commit(p) \/ Fail(p)

Next == \E p \in Requests : Call(p) \/ Continue(p)

Spec == Init /\ [][Next]_vars

-----------------------------------------------------------------------------
(* Properties                                                              *)

\* "Two operators cannot book the same room simultaneously" (ConflictDetector):
\* no two sessions that take place share a room or a teacher at one time.
NoDoubleBooking ==
  \A i, j \in Ids : i # j /\ Live(i) /\ Live(j) => ~Clash(session[i].at, session[j].at)

\* A moved session is cancelled and it and its replacement name each other, so
\* however moves race a session has one successor.  Only a session booked by
\* hand keeps this for good: a deleted generated slot may be generated again.
MovesLinkBothWays ==
  \A i, j \in Ids : Exists(i) /\ Exists(j) =>
    /\ session[i].movedTo = j => session[i].status = "cancelled" /\ session[j].movedFrom = i
    /\ session[j].movedFrom = i /\ i \in ManualIds => session[i].movedTo = j

\* "Generation never rewrites a session that has attendance or was cancelled"
\* (generation.ts, SessionGenerator's skip reasons), whatever happened between
\* the plan and the write.
GenerationKeepsHistory ==
  [][\A p \in Requests, i \in Ids :
       /\ At(p, "generate", "commit") /\ Commit(p)
       /\ Exists(i) /\ (HasAttendance(i) \/ session[i].status = "cancelled")
       => session'[i] = session[i]]_vars

\* SESSION_HAS_ATTENDANCE keeps a held session from being deleted or generated
\* anew, whatever races: a record is lost only with its class or its student.
AttendanceKeepsSession ==
  [][\A a \in attended :
       a \notin attended' =>
         class'[session[a[1]].class].status = "deleted" \/ a[2] \notin students']_vars

\* An archived class takes no new session.
ArchivedGainsNoSession ==
  [][\A i \in Ids : ~Exists(i) /\ Exists(i)' => class[session'[i].class].status = "active"]_vars

\* Cancelling is final: a cancelled session never takes place after all.
CancelledForGood ==
  [][\A i \in Ids : session[i].status = "cancelled" => ~Live(i)']_vars

\* What was held or called off stays in the calendar.
HistoryStands == AttendanceKeepsSession /\ CancelledForGood
=============================================================================
