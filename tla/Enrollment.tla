------------------------------ MODULE Enrollment ------------------------------
(***************************************************************************)
(* Enrollments, the authoritative edge between students and classes, with  *)
(* the class rows they are checked against.  EnrollmentService promises    *)
(* that active enrollments never exceed a class's capacity and that a      *)
(* student has at most one open enrollment in a class, by locking the      *)
(* class row inside one transaction per write.                             *)
(*                                                                         *)
(* Sources: EnrollmentService, ClassService, StudentService::delete and    *)
(* the enrollments migration.  Left out: pricing, dates, the other class   *)
(* fields, list and projection queries (nothing derived is stored).        *)
(***************************************************************************)
EXTENDS Database, SeatBook

VARIABLES view,      \* mysql: the enrollments in a transaction's snapshot
          req        \* the state of each request

vars == <<dbVars, bookVars, view, req>>

ASSUME EnrollmentAssumption ==
  /\ Rows = Classes \cup Students \cup Ids
  /\ None \notin Classes \cup Students \cup Ids

Ops == {"none", "enroll", "update", "withdraw", "remove", "updateClass", "archive",
        "deleteClass", "deleteStudent"}
Places == {"start", "find", "lock", "check", "write", "commit", "done"}

\* `was' is the status the request loaded and `next' the one it will save;
\* `found' that it saw the student; `capacity' 0 and `status' "keep" are class
\* fields that an update does not carry.
Request == [op : Ops, pc : Places, id : Ids \cup {None}, student : Students \cup {None},
            class : Classes \cup {None}, found : BOOLEAN,
            was : Statuses \cup {"unborn"}, next : Statuses,
            capacity : {0} \cup Capacities, status : {"keep", "active", "archived"}]

Idle == [op |-> "none", pc |-> "start", id |-> None, student |-> None, class |-> None,
         found |-> FALSE, was |-> "unborn", next |-> "active", capacity |-> 0,
         status |-> "keep"]

TypeOK ==
  /\ DbTypeOK /\ BookTypeOK
  /\ view \in [Requests -> [Ids -> Row \cup {Unborn, Deleted}] \cup {None}]
  /\ req \in [Requests -> Request]

\* What a plain SELECT of p reads: the snapshot, once mysql has taken it.
Seen(p) == IF HasRowLocks /\ view[p] # None THEN view[p] ELSE enr

Snapshot(p) == view' = IF HasRowLocks THEN [view EXCEPT ![p] = Seen(p)] ELSE view

Goto(p, pc) == req' = [req EXCEPT ![p].pc = pc]
\* The answer, and what the request had loaded, are of no further use.
Finish(p) ==
  /\ req' = [req EXCEPT ![p] = [Idle EXCEPT !.pc = "done"]]
  /\ view' = [view EXCEPT ![p] = None]

RollBack(p) == EndTx(p) /\ Finish(p) /\ UNCHANGED bookVars

At(p, op, pc) == req[p].op = op /\ req[p].pc = pc

Arrive(p, r) ==
  /\ req[p].pc = "start"
  /\ req' = [req EXCEPT ![p] = r]
  /\ UNCHANGED <<dbVars, bookVars, view>>

-----------------------------------------------------------------------------
(* EnrollmentService::enroll                                               *)

StartEnroll(p) ==
  \E s \in Students, c \in Classes, status \in OpenStatuses :
    Arrive(p, [Idle EXCEPT !.op = "enroll", !.pc = "find", !.student = s, !.class = c,
                           !.next = status])

\* Student::exists() is the transaction's first plain read: on mysql it fixes
\* the snapshot before the class row is locked.
EnrollFindStudent(p) ==
  /\ At(p, "enroll", "find")
  /\ PlainRead(p)
  /\ Snapshot(p)
  /\ req' = [req EXCEPT ![p].pc = "lock",
                        ![p].found = req[p].student \in student]
  /\ UNCHANGED bookVars

\* Mutant: the class is read without lockForUpdate.
EnrollLockClassMutant(p) ==
  /\ At(p, "enroll", "lock")
  /\ PlainRead(p)
  /\ Goto(p, "check")
  /\ UNCHANGED <<bookVars, view>>

EnrollLockClass(p) ==
  /\ At(p, "enroll", "lock")
  /\ LockingRead(p, req[p].class)
  /\ Goto(p, "check")
  /\ UNCHANGED <<bookVars, view>>

SeatFree(p) == Cardinality(Active(Seen(p), req[p].class)) < class[req[p].class].capacity

\* Mutant: the duplicate check overlooks waitlisted enrollments.
EnrollAllowedMutant(p) ==
  LET c == req[p].class
  IN /\ req[p].found
     /\ class[c].status = "active"
     /\ \A e \in Active(Seen(p), c) : Seen(p)[e].student # req[p].student
     /\ req[p].next = "active" => SeatFree(p)

EnrollAllowed(p) ==
  /\ req[p].found
  /\ class[req[p].class].status = "active"
  /\ Open(Seen(p), req[p].student, req[p].class) = {}
  /\ req[p].next = "active" => SeatFree(p)

EnrollCheck(p) ==
  /\ At(p, "enroll", "check")
  /\ EnrollAllowed(p)
  /\ \E e \in Ids :
       /\ enr[e] = Unborn /\ \A q \in Requests : req[q].id # e
       /\ req' = [req EXCEPT ![p].pc = "write", ![p].id = e]
  /\ UNCHANGED <<dbVars, bookVars, view>>

\* ENROLLMENT_INVALID, CLASS_ARCHIVED, ENROLLMENT_DUPLICATE or CLASS_FULL
EnrollRefused(p) ==
  /\ At(p, "enroll", "check")
  /\ ~EnrollAllowed(p)
  /\ RollBack(p)

\* Mutant: no foreign key on the student.
EnrollInsertMutant(p) ==
  /\ At(p, "enroll", "write")
  /\ WriteRow(p, req[p].id)
  /\ Goto(p, "commit")
  /\ UNCHANGED <<bookVars, view>>

\* The foreign key on the student is checked against the committed row; the
\* class row is locked (mysql) or cannot change (sqlite).
EnrollInsert(p) ==
  /\ At(p, "enroll", "write")
  /\ req[p].student \in student
  /\ WriteRow(p, req[p].id)
  /\ Goto(p, "commit")
  /\ UNCHANGED <<bookVars, view>>

EnrollOrphan(p) ==
  /\ At(p, "enroll", "write")
  /\ req[p].student \notin student
  /\ RollBack(p)

EnrollCommit(p) ==
  /\ At(p, "enroll", "commit")
  /\ CommitTx(p)
  /\ enr' = [enr EXCEPT ![req[p].id] =
               [status |-> req[p].next, student |-> req[p].student, class |-> req[p].class]]
  /\ Finish(p)
  /\ UNCHANGED <<class, student>>

-----------------------------------------------------------------------------
(* EnrollmentService::update, withdraw and delete                          *)

StartUpdate(p) ==
  \E e \in Ids, next \in Statuses :
    /\ Exists(enr, e)
    /\ Arrive(p, [Idle EXCEPT !.op = "update", !.pc = "find", !.id = e, !.next = next])

StartWithdraw(p) ==
  \E e \in Ids :
    /\ Exists(enr, e)
    /\ Arrive(p, [Idle EXCEPT !.op = "withdraw", !.pc = "find", !.id = e,
                              !.next = "cancelled"])

\* find(): a plain read again fixes the snapshot first.
FindEnrollment(p) ==
  LET e == req[p].id
  IN /\ req[p].op \in {"update", "withdraw"} /\ req[p].pc = "find"
     /\ Exists(enr, e)
     /\ PlainRead(p)
     /\ Snapshot(p)
     /\ req' = [req EXCEPT
          ![p].pc = IF req[p].op = "update" THEN "lock" ELSE "write",
          ![p].was = enr[e].status, ![p].student = enr[e].student, ![p].class = enr[e].class]
     /\ UNCHANGED bookVars

EnrollmentNotFound(p) ==
  /\ req[p].op \in {"update", "withdraw"} /\ req[p].pc = "find"
  /\ ~Exists(enr, req[p].id)
  /\ RollBack(p)

\* Mutant: promotion does not look for a free seat.
UpdateAllowedMutant(p) ==
  LET reopens == req[p].was \notin OpenStatuses /\ req[p].next \in OpenStatuses
  IN reopens => Open(Seen(p), req[p].student, req[p].class) \subseteq {req[p].id}

UpdateAllowed(p) ==
  LET reopens == req[p].was \notin OpenStatuses /\ req[p].next \in OpenStatuses
      takesSeat == req[p].next = "active" /\ req[p].was # "active"
  IN /\ reopens => Open(Seen(p), req[p].student, req[p].class) \subseteq {req[p].id}
     /\ takesSeat => SeatFree(p)

UpdateCheck(p) ==
  /\ At(p, "update", "check")
  /\ UpdateAllowed(p)
  /\ Goto(p, "write")
  /\ UNCHANGED <<dbVars, bookVars, view>>

UpdateRefused(p) ==
  /\ At(p, "update", "check")
  /\ ~UpdateAllowed(p)
  /\ RollBack(p)

\* save() issues an UPDATE only when the status differs from the loaded one.
SaveEnrollment(p) ==
  /\ req[p].op \in {"update", "withdraw"} /\ req[p].pc = "write"
  /\ IF req[p].next # req[p].was THEN WriteRow(p, req[p].id) ELSE UNCHANGED dbVars
  /\ Goto(p, "commit")
  /\ UNCHANGED <<bookVars, view>>

\* On mysql the row may have been deleted since it was loaded: the UPDATE then
\* matches nothing and the request still succeeds.
CommitEnrollment(p) ==
  LET e == req[p].id
  IN /\ req[p].op \in {"update", "withdraw"} /\ req[p].pc = "commit"
     /\ CommitTx(p)
     /\ enr' = IF req[p].next # req[p].was /\ Exists(enr, e)
               THEN [enr EXCEPT ![e].status = req[p].next] ELSE enr
     /\ Finish(p)
     /\ UNCHANGED <<class, student>>

StartRemove(p) ==
  \E e \in Ids :
    /\ Exists(enr, e)
    /\ Arrive(p, [Idle EXCEPT !.op = "remove", !.pc = "write", !.id = e])

RemoveEnrollment(p) ==
  LET e == req[p].id
  IN /\ At(p, "remove", "write")
     /\ AutoCommitWrite(p, e)
     /\ enr' = [enr EXCEPT ![e] = Deleted]
     /\ Finish(p)
     /\ UNCHANGED <<class, student>>

-----------------------------------------------------------------------------
(* ClassService                                                            *)

CreateClass(p) ==
  \E c \in Classes, k \in Capacities :
    /\ req[p].pc = "start" /\ class[c].status = "unborn"
    /\ AutoCommitWrite(p, c)
    /\ class' = [class EXCEPT ![c] = [status |-> "active", capacity |-> k]]
    /\ Finish(p)
    /\ UNCHANGED <<student, enr>>

StartUpdateClass(p) ==
  \E c \in Classes, k \in {0} \cup Capacities, status \in {"keep", "active", "archived"} :
    Arrive(p, [Idle EXCEPT !.op = "updateClass", !.pc = "lock", !.class = c,
                           !.capacity = k, !.status = status])

StartDeleteClass(p) ==
  \E c \in Classes : Arrive(p, [Idle EXCEPT !.op = "deleteClass", !.pc = "lock", !.class = c])

\* find(lock: true), and the lock of EnrollmentService::update.  A locking read
\* comes back with the latest row and takes no snapshot.
LocksClass(p) == req[p].op \in {"update", "updateClass", "deleteClass"} /\ req[p].pc = "lock"

LockClass(p) ==
  /\ LocksClass(p)
  /\ LockingRead(p, req[p].class)
  /\ ClassExists(req[p].class)
  /\ Goto(p, "check")
  /\ UNCHANGED <<bookVars, view>>

ClassNotFound(p) ==
  /\ LocksClass(p)
  /\ HasRowLocks => rowLock[req[p].class] \in {None, p}
  /\ ~ClassExists(req[p].class)
  /\ RollBack(p)

\* Mutant: the delete counts only the open enrollments.
ClassChangeAllowedMutant(p) ==
  LET c == req[p].class
  IN IF req[p].op = "deleteClass"
     THEN \A e \in Ids : Seen(p)[e].status \in OpenStatuses => Seen(p)[e].class # c
     ELSE req[p].capacity # 0 => Cardinality(Active(Seen(p), c)) <= req[p].capacity

\* CLASS_CAPACITY_BELOW_ENROLLED and CLASS_HAS_ENROLLMENTS
ClassChangeAllowed(p) ==
  LET c == req[p].class
  IN IF req[p].op = "deleteClass"
     THEN \A e \in Ids : Exists(Seen(p), e) => Seen(p)[e].class # c
     ELSE req[p].capacity # 0 => Cardinality(Active(Seen(p), c)) <= req[p].capacity

ChecksClass(p) == req[p].op \in {"updateClass", "deleteClass"} /\ req[p].pc = "check"

CheckClassChange(p) ==
  /\ ChecksClass(p)
  /\ ClassChangeAllowed(p)
  /\ PlainRead(p)
  /\ Snapshot(p)
  /\ Goto(p, "write")
  /\ UNCHANGED bookVars

ClassChangeRefused(p) ==
  /\ ChecksClass(p)
  /\ ~ClassChangeAllowed(p)
  /\ RollBack(p)

SaveClass(p) ==
  /\ req[p].op \in {"updateClass", "deleteClass"} /\ req[p].pc = "write"
  /\ WriteRow(p, req[p].class)
  /\ Goto(p, "commit")
  /\ UNCHANGED <<bookVars, view>>

\* Mutant: an absent capacity is saved as zero.
NewCapacityMutant(p) == req[p].capacity

NewCapacity(p) ==
  IF req[p].capacity = 0 THEN class[req[p].class].capacity ELSE req[p].capacity

CommitClass(p) ==
  LET c == req[p].class
  IN /\ req[p].op \in {"updateClass", "deleteClass"} /\ req[p].pc = "commit"
     /\ CommitTx(p)
     /\ class' = [class EXCEPT
          ![c].status = IF req[p].op = "deleteClass" THEN "deleted"
                        ELSE IF req[p].status = "keep" THEN @ ELSE req[p].status,
          ![c].capacity = NewCapacity(p)]
     /\ Finish(p)
     /\ UNCHANGED <<student, enr>>

\* archive() loads the row without a lock and saves one column.
StartArchive(p) ==
  \E c \in Classes :
    /\ class[c].status = "active"
    /\ Arrive(p, [Idle EXCEPT !.op = "archive", !.pc = "write", !.class = c])

Archive(p) ==
  LET c == req[p].class
  IN /\ At(p, "archive", "write")
     /\ AutoCommitWrite(p, c)
     /\ class' = IF ClassExists(c) THEN [class EXCEPT ![c].status = "archived"] ELSE class
     /\ Finish(p)
     /\ UNCHANGED <<student, enr>>

-----------------------------------------------------------------------------
(* StudentService::create and delete, as far as enrollments depend on them *)

CreateStudent(p) ==
  \E s \in Students \ student :
    /\ req[p].pc = "start"
    /\ \A q \in Requests : req[q].student # s
    /\ AutoCommitWrite(p, s)
    /\ student' = student \cup {s}
    /\ Finish(p)
    /\ UNCHANGED <<class, enr>>

StartDeleteStudent(p) ==
  \E s \in student :
    Arrive(p, [Idle EXCEPT !.op = "deleteStudent", !.pc = "write", !.student = s])

\* One transaction deletes the enrollments and the student.  On mysql it waits
\* for a transaction that inserted or locked one of those enrollments.
DeleteStudent(p) ==
  LET s == req[p].student
      mine == {e \in Ids : Exists(enr, e) /\ enr[e].student = s}
  IN /\ At(p, "deleteStudent", "write")
     /\ AutoCommitWrite(p, s)
     /\ HasRowLocks => /\ \A e \in mine : rowLock[e] = None
                       /\ \A q \in Requests : At(q, "enroll", "commit") => req[q].student # s
     /\ student' = student \ {s}
     /\ enr' = [e \in Ids |->
          IF e \in mine THEN Deleted ELSE enr[e]]
     /\ Finish(p)
     /\ UNCHANGED class

-----------------------------------------------------------------------------

\* Deadlock victim, lock wait timeout, SQLITE_BUSY, lost connection, a PHP
\* process that dies: the transaction rolls back and nothing else happens.
Fail(p) == req[p].pc \notin {"start", "done"} /\ RollBack(p)

Init ==
  /\ DbInit
  /\ BookInit
  /\ view = [p \in Requests |-> None]
  /\ req = [p \in Requests |-> Idle]

Begin(p) ==
  \/ StartEnroll(p) \/ StartUpdate(p) \/ StartWithdraw(p) \/ StartRemove(p)
  \/ StartUpdateClass(p) \/ StartDeleteClass(p) \/ StartArchive(p) \/ StartDeleteStudent(p)

Enroll(p) ==
  \/ EnrollFindStudent(p) \/ EnrollLockClass(p) \/ EnrollCheck(p) \/ EnrollRefused(p)
  \/ EnrollInsert(p) \/ EnrollOrphan(p) \/ EnrollCommit(p)

ChangeEnrollment(p) ==
  \/ FindEnrollment(p) \/ EnrollmentNotFound(p) \/ UpdateCheck(p) \/ UpdateRefused(p)
  \/ SaveEnrollment(p) \/ CommitEnrollment(p) \/ RemoveEnrollment(p)

ChangeClass(p) ==
  \/ LockClass(p) \/ ClassNotFound(p) \/ CheckClassChange(p) \/ ClassChangeRefused(p)
  \/ SaveClass(p) \/ CommitClass(p) \/ Archive(p)

Create(p) == CreateClass(p) \/ CreateStudent(p)

Quiet == (\A p \in Requests : req[p].pc = "done") /\ UNCHANGED vars

Next ==
  \/ \E p \in Requests :
       \/ Begin(p) \/ Enroll(p) \/ ChangeEnrollment(p) \/ ChangeClass(p)
       \/ Create(p) \/ DeleteStudent(p) \/ Fail(p)
  \/ Quiet

Spec == Init /\ [][Next]_vars

-----------------------------------------------------------------------------
(* Properties                                                              *)

\* "Archived classes accept no new enrollment": not even one whose request
\* read the class before it was archived.
ArchivedGainsNoEnrollment ==
  [][\A e \in Ids :
       ~Exists(enr, e) /\ Exists(enr', e) => class[enr'[e].class].status = "active"]_vars
=============================================================================
