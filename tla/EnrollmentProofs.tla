--------------------------- MODULE EnrollmentProofs ---------------------------
(***************************************************************************)
(* Proofs about Enrollment: typing and parents on either engine, and that  *)
(* on sqlite, where readers keep writers from committing, the services     *)
(* implement the seat book and so keep its promises.                       *)
(***************************************************************************)
EXTENDS Enrollment, DatabaseProofs, FiniteSetTheorems

(***************************************************************************)
(* The seat book keeps its own promises.                                   *)
(***************************************************************************)

SeatInv ==
  /\ BookTypeOK
  /\ CapacityRespected /\ OneOpenPerStudentAndClass /\ EnrollmentsHaveParents

LEMMA ClosedAreNotOpen ==
  /\ OpenStatuses \cap ClosedStatuses = {}
  /\ "unborn" \notin Statuses /\ "deleted" \notin Statuses
BY SeatBookAssumption DEF OpenStatuses, Statuses

\* A row that exists is a whole row, and the others are the two placeholders.
LEMMA ExistingRow ==
  ASSUME BookTypeOK, NEW e \in Ids
  PROVE  /\ Exists(enr, e) <=> enr[e] \in Row
         /\ ~Exists(enr, e) <=> enr[e] \in {Unborn, Deleted}
BY ClosedAreNotOpen DEF BookTypeOK, Exists, Row, Unborn, Deleted

LEMMA SeatsAreCountable ==
  ASSUME NEW rows, NEW c
  PROVE  IsFiniteSet(Active(rows, c)) /\ Cardinality(Active(rows, c)) \in Nat
BY SeatBookAssumption, FS_Subset, FS_CardinalityType DEF Active

LEMMA FewerSeats ==
  ASSUME NEW rows, NEW c, NEW S \in SUBSET Active(rows, c)
  PROVE  Cardinality(S) \in Nat /\ Cardinality(S) <= Cardinality(Active(rows, c))
BY SeatsAreCountable, FS_Subset, FS_CardinalityType

LEMMA OneMoreSeat ==
  ASSUME NEW rows, NEW c, NEW e, NEW S \in SUBSET (Active(rows, c) \cup {e})
  PROVE  Cardinality(S) <= Cardinality(Active(rows, c)) + 1
<1>1. /\ IsFiniteSet(Active(rows, c) \cup {e})
      /\ Cardinality(Active(rows, c) \cup {e}) <= Cardinality(Active(rows, c)) + 1
  BY SeatsAreCountable, FS_AddElement
<1>2. /\ Cardinality(S) \in Nat
      /\ Cardinality(S) <= Cardinality(Active(rows, c) \cup {e})
      /\ Cardinality(Active(rows, c) \cup {e}) \in Nat
  BY <1>1, FS_Subset, FS_CardinalityType
<1> QED
  BY <1>1, <1>2, SeatsAreCountable

\* A step takes no seat, or one that is free, or resizes to what is taken.
LEMMA SeatsFit ==
  ASSUME BookTypeOK, BookTypeOK', CapacityRespected,
         \A c \in Classes :
           \/ /\ Active(enr', c) \subseteq Active(enr, c)
              /\ class'[c].capacity = class[c].capacity
           \/ /\ \E e \in Ids : Active(enr', c) \subseteq Active(enr, c) \cup {e}
              /\ SeatIn(c) /\ class'[c].capacity = class[c].capacity
           \/ /\ Cardinality(Active(enr, c)) <= class'[c].capacity
              /\ Active(enr', c) = Active(enr, c)
  PROVE  CapacityRespected'
<1> SUFFICES ASSUME NEW c \in Classes
             PROVE  Cardinality(Active(enr', c)) <= class'[c].capacity
  BY DEF CapacityRespected
<1>1. class[c].capacity \in Nat /\ class'[c].capacity \in Nat
  BY DEF BookTypeOK, ClassRow, Capacities
<1>2. Cardinality(Active(enr', c)) \in Nat /\ Cardinality(Active(enr, c)) \in Nat
  BY SeatsAreCountable
<1>3. CASE Active(enr', c) \subseteq Active(enr, c) /\ class'[c].capacity = class[c].capacity
  <2>1. Cardinality(Active(enr', c)) <= Cardinality(Active(enr, c))
    BY <1>3, FewerSeats
  <2> QED
    BY <1>1, <1>2, <1>3, <2>1 DEF CapacityRespected
<1>4. ASSUME NEW e \in Ids, Active(enr', c) \subseteq Active(enr, c) \cup {e},
             SeatIn(c), class'[c].capacity = class[c].capacity
      PROVE  Cardinality(Active(enr', c)) <= class'[c].capacity
  <2>1. Cardinality(Active(enr', c)) <= Cardinality(Active(enr, c)) + 1
    BY <1>4, OneMoreSeat
  <2> QED
    BY <1>1, <1>2, <1>4, <2>1 DEF SeatIn
<1> QED
  BY <1>3, <1>4

LEMMA BookEnrollKeeps ==
  ASSUME SeatInv, NEW e \in Ids, NEW s \in Students, NEW c \in Classes,
         NEW status \in OpenStatuses, BookEnroll(e, s, c, status)
  PROVE  SeatInv'
<1> DEFINE new == [status |-> status, student |-> s, class |-> c]
<1>1. new \in Row /\ new.status = status /\ new.student = s /\ new.class = c
  BY DEF Row, Statuses
<1> HIDE DEF new
<1>2. enr' = [enr EXCEPT ![e] = new] /\ UNCHANGED <<class, student>>
  BY DEF BookEnroll, new
<1>3. BookTypeOK'
  BY <1>1, <1>2 DEF SeatInv, BookTypeOK
<1>4. /\ enr'[e] = new
      /\ \A d \in Ids \ {e} : enr'[d] = enr[d]
  BY <1>2 DEF SeatInv, BookTypeOK
<1>5. CapacityRespected'
  <2>1. \A d \in Classes : Active(enr', d) \subseteq Active(enr, d) \cup {e}
    BY <1>4 DEF Active
  <2>2. \A d \in Classes : d # c \/ status # "active" => Active(enr', d) \subseteq Active(enr, d)
    BY <1>1, <1>4 DEF Active
  <2>3. status = "active" => SeatIn(c)
    BY DEF BookEnroll
  <2> QED
    BY <1>2, <1>3, <2>1, <2>2, <2>3, SeatsFit DEF SeatInv
<1>6. OneOpenPerStudentAndClass'
  <2> SUFFICES ASSUME NEW t \in Students, NEW d \in Classes,
                      NEW a \in Open(enr', t, d), NEW b \in Open(enr', t, d)
               PROVE  a = b
    BY DEF OneOpenPerStudentAndClass
  <2>1. a \in Ids /\ b \in Ids
    BY DEF Open
  <2>2. \A x \in Open(enr', t, d) : x # e => x \in Open(enr, t, d)
    BY <1>4 DEF Open
  <2>3. e \in Open(enr', t, d) => Open(enr, t, d) = {}
    BY <1>1, <1>4 DEF Open, BookEnroll
  <2> QED
    BY <2>1, <2>2, <2>3 DEF SeatInv, OneOpenPerStudentAndClass
<1>7. EnrollmentsHaveParents'
  <2>1. s \in student /\ ClassExists(c)
    BY DEF BookEnroll, ClassExists
  <2> QED
    BY <1>1, <1>2, <1>4, <2>1 DEF SeatInv, EnrollmentsHaveParents, Exists, ClassExists
<1> QED
  BY <1>3, <1>5, <1>6, <1>7 DEF SeatInv

LEMMA BookSetStatusKeeps ==
  ASSUME SeatInv, NEW e \in Ids, NEW next \in Statuses, BookSetStatus(e, next)
  PROVE  SeatInv'
<1>1. enr[e] \in Row /\ UNCHANGED <<class, student>>
  BY ExistingRow DEF BookSetStatus, SeatInv
<1>2. /\ enr'[e] = [enr[e] EXCEPT !.status = next]
      /\ \A d \in Ids \ {e} : enr'[d] = enr[d]
  BY DEF SeatInv, BookTypeOK, BookSetStatus
<1>3. /\ enr'[e] \in Row
      /\ enr'[e].status = next
      /\ enr'[e].student = enr[e].student /\ enr'[e].class = enr[e].class
  BY <1>1, <1>2 DEF Row
<1>4. BookTypeOK'
  BY <1>1, <1>3 DEF SeatInv, BookTypeOK, BookSetStatus
<1>5. CapacityRespected'
  <2>1. \A d \in Classes : Active(enr', d) \subseteq Active(enr, d) \cup {e}
    BY <1>2 DEF Active
  <2>2. \A d \in Classes :
          d # enr[e].class \/ ~(enr[e].status # "active" /\ next = "active")
            => Active(enr', d) \subseteq Active(enr, d)
    BY <1>2, <1>3 DEF Active
  <2>3. enr[e].status # "active" /\ next = "active" => SeatIn(enr[e].class)
    BY DEF BookSetStatus
  <2> QED
    BY <1>1, <1>4, <2>1, <2>2, <2>3, SeatsFit DEF SeatInv
<1>6. OneOpenPerStudentAndClass'
  <2> SUFFICES ASSUME NEW t \in Students, NEW d \in Classes,
                      NEW a \in Open(enr', t, d), NEW b \in Open(enr', t, d)
               PROVE  a = b
    BY DEF OneOpenPerStudentAndClass
  <2>1. a \in Ids /\ b \in Ids
    BY DEF Open
  <2>2. \A x \in Open(enr', t, d) : x # e => x \in Open(enr, t, d)
    BY <1>2 DEF Open
  <2>3. e \in Open(enr', t, d) => e \in Open(enr, t, d) \/ Open(enr, t, d) = {}
    BY <1>3 DEF Open, BookSetStatus
  <2> QED
    BY <2>1, <2>2, <2>3 DEF SeatInv, OneOpenPerStudentAndClass
<1>7. EnrollmentsHaveParents'
  <2>1. \A d \in Ids : Exists(enr', d) =>
          Exists(enr, d) /\ enr'[d].student = enr[d].student /\ enr'[d].class = enr[d].class
    BY <1>2, <1>3 DEF Exists, BookSetStatus
  <2> QED
    BY <1>1, <2>1 DEF SeatInv, EnrollmentsHaveParents, ClassExists
<1> QED
  BY <1>4, <1>5, <1>6, <1>7 DEF SeatInv

\* Rows that are deleted free their seats and leave no one behind.
LEMMA FewerRowsKeep ==
  ASSUME SeatInv, class' = class, student' \subseteq Students,
         enr' \in [Ids -> Row \cup {Unborn, Deleted}],
         \A e \in Ids : enr'[e] = enr[e] \/ enr'[e] = Deleted,
         \A e \in Ids :
            Exists(enr', e) => (enr[e].student \in student => enr[e].student \in student')
  PROVE  SeatInv'
<1>1. BookTypeOK'
  BY DEF SeatInv, BookTypeOK
<1>2. \A e \in Ids : enr'[e].status \in Statuses => enr'[e] = enr[e]
  BY ClosedAreNotOpen DEF Deleted
<1>3. \A c \in Classes : Active(enr', c) \subseteq Active(enr, c)
  BY <1>2 DEF Active, Statuses, OpenStatuses
<1>4. CapacityRespected'
  BY <1>1, <1>3, SeatsFit DEF SeatInv
<1>5. \A s \in Students, c \in Classes : Open(enr', s, c) \subseteq Open(enr, s, c)
  BY <1>2 DEF Open, Statuses
<1>6. OneOpenPerStudentAndClass'
  BY <1>5 DEF SeatInv, OneOpenPerStudentAndClass
<1>7. EnrollmentsHaveParents'
  BY <1>2 DEF SeatInv, EnrollmentsHaveParents, Exists, ClassExists
<1> QED
  BY <1>1, <1>4, <1>6, <1>7 DEF SeatInv

\* A class row changes: its seats still suffice and its enrollments keep it.
LEMMA ClassRowKeeps ==
  ASSUME SeatInv, UNCHANGED <<student, enr>>, NEW c \in Classes, NEW row \in ClassRow,
         class' = [class EXCEPT ![c] = row],
         Cardinality(Active(enr, c)) <= row.capacity,
         row.status \in {"active", "archived"} \/ \A e \in Ids : Exists(enr, e) => enr[e].class # c
  PROVE  SeatInv'
<1>1. BookTypeOK'
  BY DEF SeatInv, BookTypeOK
<1>2. \A d \in Classes : class'[d] = IF d = c THEN row ELSE class[d]
  BY DEF SeatInv, BookTypeOK
<1>3. CapacityRespected'
  <2>1. \A d \in Classes : Active(enr', d) = Active(enr, d)
    OBVIOUS
  <2> QED
    BY <1>1, <1>2, <2>1, SeatsFit DEF SeatInv
<1>4. EnrollmentsHaveParents'
  <2> SUFFICES ASSUME NEW e \in Ids, Exists(enr, e)
               PROVE  enr[e].student \in student /\ ClassExists(enr[e].class)'
    BY DEF EnrollmentsHaveParents
  <2>1. enr[e].class \in Classes
    BY ExistingRow DEF SeatInv, Row
  <2> QED
    BY <1>2, <2>1 DEF SeatInv, EnrollmentsHaveParents, ClassExists
<1>5. OneOpenPerStudentAndClass'
  BY DEF SeatInv, OneOpenPerStudentAndClass
<1> QED
  BY <1>1, <1>3, <1>4, <1>5 DEF SeatInv

\* A class without enrollments has every seat free.
LEMMA EmptyClassFits ==
  ASSUME SeatInv, NEW c \in Classes, \A e \in Ids : Exists(enr, e) => enr[e].class # c,
         NEW k \in Nat
  PROVE  Cardinality(Active(enr, c)) <= k
<1>1. Active(enr, c) = {}
  BY DEF Active, Exists, Statuses, OpenStatuses
<1> QED
  BY <1>1, FS_EmptySet

LEMMA BookNextKeeps == SeatInv /\ [BookNext]_bookVars => SeatInv'
<1> SUFFICES ASSUME SeatInv, [BookNext]_bookVars PROVE SeatInv'
  OBVIOUS
<1>1. ASSUME NEW e \in Ids, BookRemove(e) PROVE SeatInv'
  BY <1>1, FewerRowsKeep DEF BookRemove, SeatInv, BookTypeOK
<1>2. ASSUME NEW c \in Classes, NEW k \in Capacities, BookCreateClass(c, k) PROVE SeatInv'
  <2>1. [status |-> "active", capacity |-> k] \in ClassRow /\ k \in Nat
    BY DEF ClassRow, Capacities
  <2>2. \A e \in Ids : Exists(enr, e) => enr[e].class # c
    BY <1>2 DEF SeatInv, EnrollmentsHaveParents, ClassExists, BookCreateClass
  <2>3. Cardinality(Active(enr, c)) <= k
    BY <2>1, <2>2, EmptyClassFits
  <2> QED
    BY <1>2, <2>1, <2>3, ClassRowKeeps DEF BookCreateClass
<1>3. ASSUME NEW c \in Classes, NEW k \in Capacities, NEW status \in {"active", "archived"},
             BookUpdateClass(c, status, k)
      PROVE  SeatInv'
  <2>1. [status |-> status, capacity |-> k] \in ClassRow
    BY DEF ClassRow
  <2>2. Cardinality(Active(enr, c)) <= k
    BY <1>3 DEF BookUpdateClass, SeatInv, CapacityRespected
  <2> QED
    BY <1>3, <2>1, <2>2, ClassRowKeeps DEF BookUpdateClass
<1>4. ASSUME NEW c \in Classes, BookDeleteClass(c) PROVE SeatInv'
  <2> DEFINE row == [class[c] EXCEPT !.status = "deleted"]
  <2>1. row \in ClassRow /\ row.capacity = class[c].capacity
    BY DEF ClassRow, SeatInv, BookTypeOK
  <2>2. class' = [class EXCEPT ![c] = row]
    BY <1>4 DEF BookDeleteClass, SeatInv, BookTypeOK
  <2> QED
    BY <1>4, <2>1, <2>2, ClassRowKeeps DEF BookDeleteClass, SeatInv, CapacityRespected
<1>5. ASSUME NEW s \in Students, BookCreateStudent(s) PROVE SeatInv'
  BY <1>5, FewerRowsKeep DEF BookCreateStudent, SeatInv, BookTypeOK
<1>6. ASSUME NEW s \in Students, BookDeleteStudent(s) PROVE SeatInv'
  <2>1. /\ enr' \in [Ids -> Row \cup {Unborn, Deleted}]
        /\ \A e \in Ids : enr'[e] = enr[e] \/ enr'[e] = Deleted
    BY <1>6 DEF BookDeleteStudent, SeatInv, BookTypeOK
  <2>2. \A e \in Ids : Exists(enr', e) => enr[e].student # s
    BY <1>6, ClosedAreNotOpen DEF BookDeleteStudent, Exists, Deleted
  <2>3. class' = class /\ student' = student \ {s} /\ student \subseteq Students
    BY <1>6 DEF BookDeleteStudent, SeatInv, BookTypeOK
  <2> QED
    BY <2>1, <2>2, <2>3, FewerRowsKeep
<1>7. ASSUME UNCHANGED bookVars PROVE SeatInv'
  BY <1>7 DEF bookVars, SeatInv, BookTypeOK, CapacityRespected, OneOpenPerStudentAndClass,
              EnrollmentsHaveParents, ClassExists
<1> QED
  BY <1>1, <1>2, <1>3, <1>4, <1>5, <1>6, <1>7, BookEnrollKeeps, BookSetStatusKeeps DEF BookNext

LEMMA BookInitKeeps == BookInit => SeatInv
BY DEF BookInit, SeatInv, BookTypeOK, ClassRow

\* The promises are worth making: one atomic step at a time they are all kept,
\* for any number of classes, students and enrollments.
THEOREM SeatBookKeepsItsPromises ==
  BookSpec => [](CapacityRespected /\ OneOpenPerStudentAndClass /\ EnrollmentsHaveParents)
<1>1. SeatInv => CapacityRespected /\ OneOpenPerStudentAndClass /\ EnrollmentsHaveParents
  BY DEF SeatInv
<1> QED
  BY <1>1, BookInitKeeps, BookNextKeeps, PTL DEF BookSpec

-----------------------------------------------------------------------------
(***************************************************************************)
(* Typing, on either engine.                                               *)
(***************************************************************************)

\* What a request names, and which operations reach which places.
NamedBy(r) ==
  /\ r.op = "enroll" =>
       /\ r.pc \in {"find", "lock", "check", "write", "commit"}
       /\ r.student \in Students /\ r.class \in Classes /\ r.next \in OpenStatuses
       /\ r.pc \in {"write", "commit"} => r.id \in Ids
  /\ r.op \in {"update", "withdraw"} =>
       /\ r.pc \in {"find", "lock", "check", "write", "commit"}
       /\ r.id \in Ids
       /\ r.op = "withdraw" => r.next = "cancelled"
       /\ r.pc # "find" => r.student \in Students /\ r.class \in Classes
  /\ r.op = "remove" => r.id \in Ids
  /\ r.op \in {"updateClass", "deleteClass", "archive"} => r.class \in Classes
  /\ r.op = "deleteClass" => r.capacity = 0
  /\ r.op = "deleteStudent" => r.student \in Students
  /\ r.pc = "start" => r.op = "none"

TypeInv ==
  /\ TypeOK
  /\ \A p \in Requests : NamedBy(req[p])

\* The parts of a request that its steps change.
LEMMA RequestTyped ==
  ASSUME TypeOK, NEW p \in Requests, NEW r \in Request, req' = [req EXCEPT ![p] = r],
         TypeInv, NamedBy(r)
  PROVE  /\ req' \in [Requests -> Request]
         /\ \A q \in Requests : NamedBy(req'[q])
BY DEF TypeInv, TypeOK

LEMMA IdleTyped ==
  /\ Idle \in Request /\ NamedBy(Idle)
  /\ [Idle EXCEPT !.pc = "done"] \in Request /\ NamedBy([Idle EXCEPT !.pc = "done"])
BY DEF Idle, Request, Ops, Places, Statuses, OpenStatuses, NamedBy

LEMMA SeenTyped ==
  ASSUME TypeOK, NEW p \in Requests
  PROVE  Seen(p) \in [Ids -> Row \cup {Unborn, Deleted}]
BY DEF TypeOK, BookTypeOK, Seen

LEMMA SnapshotTyped ==
  ASSUME TypeOK, NEW p \in Requests, Snapshot(p)
  PROVE  view' \in [Requests -> [Ids -> Row \cup {Unborn, Deleted}] \cup {None}]
BY SeenTyped DEF TypeOK, Snapshot

LEMMA FinishTyped ==
  ASSUME TypeInv, NEW p \in Requests, Finish(p)
  PROVE  /\ req' \in [Requests -> Request]
         /\ \A q \in Requests : NamedBy(req'[q])
         /\ view' \in [Requests -> [Ids -> Row \cup {Unborn, Deleted}] \cup {None}]
BY IdleTyped DEF Finish, TypeInv, TypeOK

LEMMA RollBackTyped ==
  ASSUME TypeInv, NEW p \in Requests, RollBack(p) PROVE TypeInv'
<1>1. BookTypeOK'
  BY DEF RollBack, TypeInv, TypeOK, BookTypeOK, bookVars
<1> QED
  BY <1>1, FinishTyped, DbTyped DEF RollBack, TypeInv, TypeOK

\* A step that moves a request on and leaves the tables alone.
LEMMA GotoTyped ==
  ASSUME TypeInv, NEW p \in Requests, NEW r, NEW pc \in Places,
         Goto(p, pc), UNCHANGED bookVars, view' = view \/ Snapshot(p),
         UNCHANGED dbVars \/ PlainRead(p) \/ LockingRead(p, r) \/ WriteRow(p, r),
         NamedBy([req[p] EXCEPT !.pc = pc])
  PROVE  TypeInv'
<1>1. BookTypeOK'
  BY DEF TypeInv, TypeOK, BookTypeOK, bookVars
<1>2. [req[p] EXCEPT !.pc = pc] \in Request
  BY DEF TypeInv, TypeOK, Request
<1>3. req' = [req EXCEPT ![p] = [req[p] EXCEPT !.pc = pc]]
  BY DEF Goto
<1>4. req' \in [Requests -> Request] /\ \A q \in Requests : NamedBy(req'[q])
  BY <1>2, <1>3, RequestTyped DEF TypeInv
<1> QED
  BY <1>1, <1>4, SnapshotTyped, DbTyped DEF TypeInv, TypeOK

LEMMA BeginTyped ==
  ASSUME TypeInv, NEW p \in Requests, Begin(p) PROVE TypeInv'
<1>1. ASSUME NEW r \in Request, Arrive(p, r), NamedBy(r) PROVE TypeInv'
  BY <1>1, RequestTyped DEF Arrive, TypeInv, TypeOK, DbTypeOK, BookTypeOK, dbVars, bookVars
<1> USE DEF Request, Idle, Ops, Places, NamedBy
<1>2. CASE StartEnroll(p)
  BY <1>1, <1>2 DEF StartEnroll, Statuses, OpenStatuses
<1>3. CASE StartUpdate(p)
  BY <1>1, <1>3 DEF StartUpdate
<1>4. CASE StartWithdraw(p)
  BY <1>1, <1>4, SeatBookAssumption DEF StartWithdraw, Statuses
<1>5. CASE StartRemove(p)
  BY <1>1, <1>5 DEF StartRemove, Statuses, OpenStatuses
<1>6. CASE StartUpdateClass(p)
  BY <1>1, <1>6 DEF StartUpdateClass, Statuses, OpenStatuses
<1>7. CASE StartDeleteClass(p)
  BY <1>1, <1>7 DEF StartDeleteClass, Statuses, OpenStatuses
<1>8. CASE StartArchive(p)
  BY <1>1, <1>8 DEF StartArchive, Statuses, OpenStatuses
<1>9. CASE StartDeleteStudent(p)
  <2>1. student \subseteq Students
    BY DEF TypeInv, TypeOK, BookTypeOK
  <2> QED
    BY <1>1, <1>9, <2>1 DEF StartDeleteStudent, Statuses, OpenStatuses
<1> QED
  BY <1>2, <1>3, <1>4, <1>5, <1>6, <1>7, <1>8, <1>9 DEF Begin

LEMMA EnrollTyped ==
  ASSUME TypeInv, NEW p \in Requests, Enroll(p) PROVE TypeInv'
<1>0. req[p] \in Request /\ NamedBy(req[p])
  BY DEF TypeInv, TypeOK
<1>1. CASE EnrollFindStudent(p)
  <2> DEFINE found == req[p].student \in student
             r == [req[p] EXCEPT !.pc = "lock", !.found = found]
  <2>1. req' = [req EXCEPT ![p] = r]
    BY <1>1 DEF EnrollFindStudent
  <2>2. found \in BOOLEAN
    OBVIOUS
  <2> HIDE DEF found
  <2>3. r \in Request /\ NamedBy(r)
    BY <1>0, <1>1, <2>2 DEF EnrollFindStudent, At, Request, Places, NamedBy
  <2>4. req' \in [Requests -> Request] /\ \A q \in Requests : NamedBy(req'[q])
    BY <2>1, <2>3, RequestTyped DEF TypeInv
  <2>5. BookTypeOK'
    BY <1>1 DEF EnrollFindStudent, TypeInv, TypeOK, BookTypeOK, bookVars
  <2> QED
    BY <1>1, <2>4, <2>5, SnapshotTyped, DbTyped DEF EnrollFindStudent, TypeInv, TypeOK
<1>2. CASE EnrollLockClass(p)
  <2>1. NamedBy([req[p] EXCEPT !.pc = "check"])
    BY <1>0, <1>2 DEF EnrollLockClass, At, NamedBy, Request
  <2> QED
    BY <1>2, <2>1, GotoTyped DEF EnrollLockClass, Places
<1>3. CASE EnrollCheck(p)
  <2>1. PICK e \in Ids : req' = [req EXCEPT ![p].pc = "write", ![p].id = e]
    BY <1>3 DEF EnrollCheck
  <2> DEFINE r == [req[p] EXCEPT !.pc = "write", !.id = e]
  <2>2. r \in Request /\ NamedBy(r)
    BY <1>0, <1>3 DEF EnrollCheck, At, Request, Places, NamedBy
  <2>3. req' = [req EXCEPT ![p] = r]
    BY <2>1
  <2>4. req' \in [Requests -> Request] /\ \A q \in Requests : NamedBy(req'[q])
    BY <2>2, <2>3, RequestTyped DEF TypeInv
  <2> QED
    BY <1>3, <2>4 DEF EnrollCheck, TypeInv, TypeOK, BookTypeOK, DbTypeOK, bookVars, dbVars
<1>4. CASE EnrollRefused(p) \/ EnrollOrphan(p)
  BY <1>4, RollBackTyped DEF EnrollRefused, EnrollOrphan
<1>5. CASE EnrollInsert(p)
  <2>1. NamedBy([req[p] EXCEPT !.pc = "commit"])
    BY <1>0, <1>5 DEF EnrollInsert, At, NamedBy, Request
  <2> QED
    BY <1>5, <2>1, GotoTyped DEF EnrollInsert, Places
<1>6. CASE EnrollCommit(p)
  <2>1. [status |-> req[p].next, student |-> req[p].student, class |-> req[p].class] \in Row
    BY <1>0, <1>6 DEF EnrollCommit, At, NamedBy, Row, Statuses
  <2>2. BookTypeOK'
    BY <1>6, <2>1 DEF EnrollCommit, TypeInv, TypeOK, BookTypeOK
  <2> QED
    BY <1>6, <2>2, FinishTyped, DbTyped DEF EnrollCommit, TypeInv, TypeOK
<1> QED
  BY <1>1, <1>2, <1>3, <1>4, <1>5, <1>6 DEF Enroll

LEMMA ChangeEnrollmentTyped ==
  ASSUME TypeInv, NEW p \in Requests, ChangeEnrollment(p) PROVE TypeInv'
<1>0. req[p] \in Request /\ NamedBy(req[p]) /\ BookTypeOK
  BY DEF TypeInv, TypeOK
<1>1. CASE FindEnrollment(p)
  <2> DEFINE e == req[p].id
             r == [req[p] EXCEPT !.pc = IF req[p].op = "update" THEN "lock" ELSE "write",
                     !.was = enr[e].status, !.student = enr[e].student, !.class = enr[e].class]
  <2>1. e \in Ids /\ enr[e] \in Row
    BY <1>0, <1>1, ExistingRow DEF FindEnrollment, NamedBy
  <2>2. r \in Request /\ NamedBy(r)
    BY <1>0, <1>1, <2>1 DEF FindEnrollment, Request, Places, NamedBy, Row
  <2>3. req' = [req EXCEPT ![p] = r]
    BY <1>1 DEF FindEnrollment
  <2> HIDE DEF r
  <2>4. req' \in [Requests -> Request] /\ \A q \in Requests : NamedBy(req'[q])
    BY <2>2, <2>3, RequestTyped DEF TypeInv
  <2>5. BookTypeOK'
    BY <1>0, <1>1 DEF FindEnrollment, BookTypeOK, bookVars
  <2> QED
    BY <1>1, <2>4, <2>5, SnapshotTyped, DbTyped DEF FindEnrollment, TypeInv, TypeOK
<1>2. CASE EnrollmentNotFound(p) \/ UpdateRefused(p)
  BY <1>2, RollBackTyped DEF EnrollmentNotFound, UpdateRefused
<1>3. CASE UpdateCheck(p)
  <2>1. NamedBy([req[p] EXCEPT !.pc = "write"])
    BY <1>0, <1>3 DEF UpdateCheck, At, NamedBy, Request
  <2> QED
    BY <1>3, <2>1, GotoTyped DEF UpdateCheck, Places
<1>4. CASE SaveEnrollment(p)
  <2>1. NamedBy([req[p] EXCEPT !.pc = "commit"])
    BY <1>0, <1>4 DEF SaveEnrollment, NamedBy, Request
  <2> QED
    BY <1>4, <2>1, GotoTyped DEF SaveEnrollment, Places
<1>5. CASE CommitEnrollment(p)
  <2> DEFINE e == req[p].id
  <2>1. Exists(enr, e) => [enr[e] EXCEPT !.status = req[p].next] \in Row
    BY <1>0, <1>5, ExistingRow DEF CommitEnrollment, NamedBy, Row, Request
  <2>2. e \in Ids
    BY <1>0, <1>5 DEF CommitEnrollment, NamedBy
  <2>3. BookTypeOK'
    BY <1>0, <1>5, <2>1, <2>2 DEF CommitEnrollment, BookTypeOK
  <2> QED
    BY <1>5, <2>3, FinishTyped, DbTyped DEF CommitEnrollment, TypeInv, TypeOK
<1>6. CASE RemoveEnrollment(p)
  <2>1. BookTypeOK' /\ UNCHANGED dbVars
    BY <1>0, <1>6 DEF RemoveEnrollment, AutoCommitWrite, BookTypeOK
  <2> QED
    BY <1>6, <2>1, FinishTyped, DbTyped DEF RemoveEnrollment, TypeInv, TypeOK
<1> QED
  BY <1>1, <1>2, <1>3, <1>4, <1>5, <1>6 DEF ChangeEnrollment

\* The new row of a class that is saved.
SavedClass(p) ==
  [status |-> IF req[p].op = "deleteClass" THEN "deleted"
              ELSE IF req[p].status = "keep" THEN class[req[p].class].status
              ELSE req[p].status,
   capacity |-> NewCapacity(p)]

LEMMA ClassSaved ==
  ASSUME TypeInv, NEW p \in Requests, CommitClass(p)
  PROVE  /\ req[p].class \in Classes
         /\ SavedClass(p) \in ClassRow
         /\ class' = [class EXCEPT ![req[p].class] = SavedClass(p)]
<1>1. req[p] \in Request /\ NamedBy(req[p]) /\ class \in [Classes -> ClassRow]
  BY DEF TypeInv, TypeOK, BookTypeOK
<1>2. req[p].class \in Classes
  BY <1>1 DEF CommitClass, NamedBy
<1>3. SavedClass(p) \in ClassRow
  BY <1>1, <1>2 DEF SavedClass, NewCapacity, ClassRow, Request
<1>4. class' = [class EXCEPT ![req[p].class] = SavedClass(p)]
  <2> DEFINE c == req[p].class
  <2>1. class' = [class EXCEPT ![c] = [class[c] EXCEPT !.status = SavedClass(p).status,
                                                       !.capacity = SavedClass(p).capacity]]
    BY <1>1, <1>2 DEF CommitClass, SavedClass
  <2>2. [class[c] EXCEPT !.status = SavedClass(p).status, !.capacity = SavedClass(p).capacity]
          = SavedClass(p)
    BY <1>1, <1>2 DEF SavedClass, ClassRow
  <2> QED
    BY <2>1, <2>2
<1> QED
  BY <1>2, <1>3, <1>4

LEMMA ChangeClassTyped ==
  ASSUME TypeInv, NEW p \in Requests, ChangeClass(p) PROVE TypeInv'
<1>0. req[p] \in Request /\ NamedBy(req[p]) /\ BookTypeOK
  BY DEF TypeInv, TypeOK
<1>1. CASE LockClass(p)
  <2>1. NamedBy([req[p] EXCEPT !.pc = "check"])
    BY <1>0, <1>1 DEF LockClass, LocksClass, NamedBy, Request
  <2> QED
    BY <1>1, <2>1, GotoTyped DEF LockClass, Places
<1>2. CASE ClassNotFound(p) \/ ClassChangeRefused(p)
  BY <1>2, RollBackTyped DEF ClassNotFound, ClassChangeRefused
<1>3. CASE CheckClassChange(p)
  <2>1. NamedBy([req[p] EXCEPT !.pc = "write"])
    BY <1>0, <1>3 DEF CheckClassChange, ChecksClass, NamedBy, Request
  <2> QED
    BY <1>3, <2>1, GotoTyped DEF CheckClassChange, Places
<1>4. CASE SaveClass(p)
  <2>1. NamedBy([req[p] EXCEPT !.pc = "commit"])
    BY <1>0, <1>4 DEF SaveClass, NamedBy, Request
  <2> QED
    BY <1>4, <2>1, GotoTyped DEF SaveClass, Places
<1>5. CASE CommitClass(p)
  <2>1. class' \in [Classes -> ClassRow]
    BY <1>0, <1>5, ClassSaved DEF BookTypeOK
  <2>2. BookTypeOK'
    BY <1>0, <1>5, <2>1 DEF CommitClass, BookTypeOK
  <2> QED
    BY <1>5, <2>2, FinishTyped, DbTyped DEF CommitClass, TypeInv, TypeOK
<1>6. CASE Archive(p)
  <2>1. BookTypeOK' /\ UNCHANGED dbVars
    BY <1>0, <1>6 DEF Archive, AutoCommitWrite, BookTypeOK, ClassRow
  <2> QED
    BY <1>6, <2>1, FinishTyped, DbTyped DEF Archive, TypeInv, TypeOK
<1> QED
  BY <1>1, <1>2, <1>3, <1>4, <1>5, <1>6 DEF ChangeClass

LEMMA InitTypeInv == Init => TypeInv
<1> SUFFICES ASSUME Init PROVE TypeInv
  OBVIOUS
<1>1. DbTypeOK
  BY NoneAssumption DEF Init, DbInit, DbTypeOK
<1>2. BookTypeOK
  BY BookInitKeeps DEF Init, SeatInv
<1> QED
  BY <1>1, <1>2, IdleTyped DEF Init, TypeInv, TypeOK

LEMMA NextTypeInv == TypeInv /\ [Next]_vars => TypeInv'
<1>1. ASSUME TypeInv, UNCHANGED vars PROVE TypeInv'
  BY <1>1 DEF TypeInv, TypeOK, BookTypeOK, DbTypeOK, vars, dbVars, bookVars
<1>2. ASSUME TypeInv, NEW p \in Requests, Create(p) \/ DeleteStudent(p) PROVE TypeInv'
  <2>1. Finish(p) /\ UNCHANGED dbVars
    BY <1>2 DEF Create, CreateClass, CreateStudent, DeleteStudent, AutoCommitWrite
  <2>2. BookTypeOK'
    BY <1>2 DEF Create, CreateClass, CreateStudent, DeleteStudent, TypeInv, TypeOK,
                BookTypeOK, ClassRow
  <2> QED
    BY <1>2, <2>1, <2>2, FinishTyped, DbTyped DEF TypeInv, TypeOK
<1> QED
  BY <1>1, <1>2, BeginTyped, EnrollTyped, ChangeEnrollmentTyped, ChangeClassTyped, RollBackTyped
  DEF Next, Fail, Quiet

\* On either engine every row, snapshot, lock and request stays well-typed.
THEOREM EnrollmentTypeOK == Spec => []TypeOK
<1>1. TypeInv => TypeOK
  BY DEF TypeInv
<1> QED
  BY <1>1, InitTypeInv, NextTypeInv, PTL DEF Spec

-----------------------------------------------------------------------------
(***************************************************************************)
(* What a request holds while it works: on mysql the row lock of its       *)
(* class, on sqlite SHARED once it has read and RESERVED once it has       *)
(* written.  So nobody else can change what it decided on.                 *)
(***************************************************************************)

HoldsClass(p) ==
  /\ req[p].op \in {"enroll", "update", "updateClass", "deleteClass"}
  /\ req[p].pc \in {"check", "write", "commit"}

HasRead(p) ==
  \/ req[p].op \in {"enroll", "update", "withdraw"} /\ req[p].pc # "find"
  \/ req[p].op \in {"updateClass", "deleteClass"} /\ req[p].pc # "lock"

HasWritten(p) ==
  /\ req[p].pc = "commit"
  /\ \/ req[p].op \in {"enroll", "updateClass", "deleteClass"}
     \/ req[p].op \in {"update", "withdraw"} /\ req[p].next # req[p].was

Holds(p) ==
  /\ HasRowLocks /\ HoldsClass(p) => rowLock[req[p].class] = p
  /\ ~HasRowLocks /\ HasRead(p) => p \in shared
  /\ ~HasRowLocks /\ HasWritten(p) => reserved = p

LockInv == TypeInv /\ \A p \in Requests : Holds(p)

LEMMA OnlyOneMoves ==
  ASSUME TypeInv, NEW p \in Requests, NEW r, req' = [req EXCEPT ![p] = r]
  PROVE  req'[p] = r /\ \A q \in Requests \ {p} : req'[q] = req[q]
BY DEF TypeInv, TypeOK

\* A step of p keeps what the others hold.
LEMMA OthersHold ==
  ASSUME LockInv, TypeInv', NEW p \in Requests, NEW r,
         \/ UNCHANGED dbVars \/ EndTx(p) \/ CommitTx(p)
         \/ PlainRead(p) \/ LockingRead(p, r) \/ WriteRow(p, r),
         \A q \in Requests \ {p} : req'[q] = req[q],
         Holds(p)'
  PROVE  LockInv'
<1> SUFFICES ASSUME NEW q \in Requests, q # p PROVE Holds(q)'
  BY DEF LockInv
<1>1. DbTypeOK /\ req'[q] = req[q] /\ Holds(q)
  BY DEF LockInv, TypeInv, TypeOK
<1>2. CASE HasRowLocks
  <2> SUFFICES ASSUME HoldsClass(q) PROVE rowLock'[req[q].class] = q
    BY <1>1, <1>2 DEF Holds, HoldsClass
  <2>1. req[q].class \in Rows
    BY EnrollmentAssumption DEF LockInv, TypeInv, NamedBy, HoldsClass
  <2> QED
    BY <1>1, <1>2, <2>1, LockKept DEF Holds
<1>3. CASE ~HasRowLocks
  <2>1. (q \in shared => q \in shared') /\ (reserved = q => reserved' = q)
    BY <1>1, <1>3, WriterKept
  <2> QED
    BY <1>1, <1>3, <2>1 DEF Holds, HasRead, HasWritten
<1> QED
  BY <1>2, <1>3

LEMMA FinishHolds ==
  ASSUME LockInv, TypeInv', NEW p \in Requests, Finish(p),
         UNCHANGED dbVars \/ EndTx(p) \/ CommitTx(p)
  PROVE  LockInv'
<1>1. /\ \A q \in Requests \ {p} : req'[q] = req[q]
      /\ req'[p] = [Idle EXCEPT !.pc = "done"]
  BY OnlyOneMoves DEF Finish, LockInv
<1>2. Holds(p)'
  BY <1>1 DEF Holds, HoldsClass, HasRead, HasWritten, Idle
<1> QED
  BY <1>1, <1>2, OthersHold

LEMMA BeginHolds ==
  ASSUME LockInv, TypeInv', NEW p \in Requests, Begin(p) PROVE LockInv'
<1>1. ASSUME NEW r, Arrive(p, r),
             r.op \in {"enroll", "update", "withdraw"} => r.pc = "find",
             r.op \in {"updateClass", "deleteClass"} => r.pc = "lock"
      PROVE  LockInv'
  <2>1. req'[p] = r /\ \A q \in Requests \ {p} : req'[q] = req[q]
    BY <1>1, OnlyOneMoves DEF Arrive, LockInv
  <2>2. Holds(p)'
    BY <1>1, <2>1 DEF Holds, HoldsClass, HasRead, HasWritten
  <2> QED
    BY <1>1, <2>1, <2>2, OthersHold DEF Arrive
<1> USE DEF Idle
<1>2. CASE StartEnroll(p) \/ StartUpdate(p) \/ StartWithdraw(p) \/ StartRemove(p)
  BY <1>1, <1>2 DEF StartEnroll, StartUpdate, StartWithdraw, StartRemove
<1>3. CASE StartUpdateClass(p) \/ StartDeleteClass(p) \/ StartArchive(p) \/ StartDeleteStudent(p)
  BY <1>1, <1>3 DEF StartUpdateClass, StartDeleteClass, StartArchive, StartDeleteStudent
<1> QED
  BY <1>2, <1>3 DEF Begin

Reads(p) == PlainRead(p) \/ \E r : LockingRead(p, r)
Writes(p) == \E r : WriteRow(p, r)

\* A step of p within its transaction: it holds what it held, or has just
\* locked its class, read or written.
LEMMA WorkHolds ==
  ASSUME LockInv, TypeInv', NEW p \in Requests,
         req' = [req EXCEPT ![p] = req'[p]],
         req'[p].class = req[p].class \/ ~HoldsClass(p),
         UNCHANGED dbVars \/ Reads(p) \/ Writes(p),
         HoldsClass(p)' => HoldsClass(p) \/ LockingRead(p, req'[p].class),
         HasRead(p)' => HasRead(p) \/ Reads(p),
         HasWritten(p)' => Writes(p)
  PROVE  LockInv'
<1>1. \A q \in Requests \ {p} : req'[q] = req[q]
  BY OnlyOneMoves DEF LockInv
<1>2. DbTypeOK /\ Holds(p)
  BY DEF LockInv, TypeInv, TypeOK
<1>3. PICK r : UNCHANGED dbVars \/ PlainRead(p) \/ LockingRead(p, r) \/ WriteRow(p, r)
  BY DEF Reads, Writes
<1>4. ASSUME HasRowLocks, HoldsClass(p)' PROVE rowLock'[req'[p].class] = p
  <2>1. req'[p].class \in Rows
    BY <1>4, EnrollmentAssumption DEF TypeInv, NamedBy, HoldsClass
  <2>2. CASE HoldsClass(p)
    BY <1>2, <1>3, <1>4, <2>1, <2>2, OwnLockKept DEF Holds
  <2>3. CASE LockingRead(p, req'[p].class)
    BY <1>2, <1>4, <2>1, <2>3, LockTaken
  <2> QED
    BY <1>4, <2>2, <2>3
<1>5. ASSUME ~HasRowLocks, HasRead(p)' PROVE p \in shared'
  <2>1. CASE Reads(p) \/ Writes(p)
    BY <1>5, <2>1, ReaderIsShared DEF Reads, Writes
  <2>2. CASE UNCHANGED dbVars /\ HasRead(p)
    BY <1>2, <1>5, <2>2 DEF Holds, dbVars
  <2> QED
    BY <1>5, <2>1, <2>2
<1>6. ASSUME ~HasRowLocks, HasWritten(p)' PROVE reserved' = p
  BY <1>6, ReaderIsShared DEF Writes
<1>7. Holds(p)'
  BY <1>4, <1>5, <1>6 DEF Holds
<1> QED
  BY <1>1, <1>3, <1>7, OthersHold

\* Goto moves one request on, and touches nothing but its place.
LEMMA MovesOn ==
  ASSUME TypeInv, NEW p \in Requests, NEW pc \in Places, Goto(p, pc)
  PROVE  /\ \A q \in Requests \ {p} : req'[q] = req[q]
         /\ req'[p] \in Request /\ req' = [req EXCEPT ![p] = req'[p]]
         /\ req'[p].pc = pc /\ req'[p].op = req[p].op
         /\ req'[p].id = req[p].id
         /\ req'[p].student = req[p].student /\ req'[p].class = req[p].class
         /\ req'[p].was = req[p].was /\ req'[p].next = req[p].next
         /\ req'[p].capacity = req[p].capacity /\ req'[p].status = req[p].status
         /\ req'[p].found = req[p].found
<1>1. req \in [Requests -> Request] /\ req[p] \in Request
  BY DEF TypeInv, TypeOK
<1>2. req' = [req EXCEPT ![p] = [req[p] EXCEPT !.pc = pc]]
  BY DEF Goto
<1> QED
  BY <1>1, <1>2 DEF Request

LEMMA EnrollHolds ==
  ASSUME LockInv, TypeInv', NEW p \in Requests, Enroll(p) PROVE LockInv'
<1>0. TypeInv /\ req \in [Requests -> Request] /\ req[p] \in Request /\ NamedBy(req[p])
  BY DEF LockInv, TypeInv, TypeOK
<1>1. CASE EnrollFindStudent(p)
  <2>1. req[p].op = "enroll" /\ PlainRead(p)
    BY <1>1 DEF EnrollFindStudent, At
  <2>2. PICK f : req' = [req EXCEPT ![p] = [req[p] EXCEPT !.pc = "lock", !.found = f]]
    BY <1>1 DEF EnrollFindStudent
  <2>3. /\ req' = [req EXCEPT ![p] = req'[p]]
        /\ req'[p].op = "enroll" /\ req'[p].pc = "lock" /\ req'[p].class = req[p].class
    BY <1>0, <2>1, <2>2 DEF Request
  <2> QED
    BY <2>1, <2>3, WorkHolds DEF HoldsClass, HasRead, HasWritten, Reads
<1>2. CASE EnrollLockClass(p)
  BY <1>0, <1>2, MovesOn, WorkHolds
  DEF EnrollLockClass, At, HoldsClass, HasRead, HasWritten, Reads, Places
<1>3. CASE EnrollCheck(p)
  <2>1. PICK e \in Ids : req' = [req EXCEPT ![p].pc = "write", ![p].id = e]
    BY <1>3 DEF EnrollCheck
  <2>2. /\ req' = [req EXCEPT ![p] = req'[p]]
        /\ req'[p].op = "enroll" /\ req'[p].pc = "write" /\ req'[p].class = req[p].class
    BY <1>0, <1>3, <2>1 DEF EnrollCheck, At, Request
  <2> QED
    BY <1>3, <2>2, WorkHolds DEF EnrollCheck, At, HoldsClass, HasRead, HasWritten
<1>4. CASE EnrollInsert(p)
  BY <1>0, <1>4, MovesOn, WorkHolds
  DEF EnrollInsert, At, HoldsClass, HasRead, HasWritten, Writes, Places
<1>5. CASE EnrollRefused(p) \/ EnrollOrphan(p) \/ EnrollCommit(p)
  BY <1>5, FinishHolds DEF EnrollRefused, EnrollOrphan, EnrollCommit, RollBack
<1> QED
  BY <1>1, <1>2, <1>3, <1>4, <1>5 DEF Enroll

LEMMA ChangeEnrollmentHolds ==
  ASSUME LockInv, TypeInv', NEW p \in Requests, ChangeEnrollment(p) PROVE LockInv'
<1>0. TypeInv /\ req \in [Requests -> Request] /\ req[p] \in Request /\ NamedBy(req[p])
  BY DEF LockInv, TypeInv, TypeOK
<1>1. CASE FindEnrollment(p)
  <2>1. req[p].op \in {"update", "withdraw"} /\ req[p].pc = "find" /\ PlainRead(p)
    BY <1>1 DEF FindEnrollment
  <2> DEFINE pc == IF req[p].op = "update" THEN "lock" ELSE "write"
             e == req[p].id
  <2>2. req' = [req EXCEPT ![p] = [req[p] EXCEPT !.pc = pc, !.was = enr[e].status,
                                     !.student = enr[e].student, !.class = enr[e].class]]
    BY <1>1 DEF FindEnrollment
  <2>3. /\ req' = [req EXCEPT ![p] = req'[p]]
        /\ req'[p].op = req[p].op /\ req'[p].pc = pc
    BY <1>0, <2>2 DEF Request
  <2>4. pc \in {"lock", "write"} /\ (req[p].op = "update" => pc = "lock")
    OBVIOUS
  <2> HIDE DEF pc
  <2> QED
    BY <2>1, <2>3, <2>4, WorkHolds DEF HoldsClass, HasRead, HasWritten, Reads
<1>2. CASE UpdateCheck(p)
  BY <1>0, <1>2, MovesOn, WorkHolds
  DEF UpdateCheck, At, HoldsClass, HasRead, HasWritten, Places
<1>3. CASE SaveEnrollment(p)
  BY <1>0, <1>3, MovesOn, WorkHolds
  DEF SaveEnrollment, HoldsClass, HasRead, HasWritten, Writes, Places
<1>4. CASE EnrollmentNotFound(p) \/ UpdateRefused(p) \/ CommitEnrollment(p) \/ RemoveEnrollment(p)
  BY <1>4, FinishHolds
  DEF EnrollmentNotFound, UpdateRefused, CommitEnrollment, RemoveEnrollment, RollBack,
      AutoCommitWrite
<1> QED
  BY <1>1, <1>2, <1>3, <1>4 DEF ChangeEnrollment

LEMMA ChangeClassHolds ==
  ASSUME LockInv, TypeInv', NEW p \in Requests, ChangeClass(p) PROVE LockInv'
<1>0. TypeInv /\ req \in [Requests -> Request] /\ req[p] \in Request /\ NamedBy(req[p])
  BY DEF LockInv, TypeInv, TypeOK
<1>1. CASE LockClass(p)
  BY <1>0, <1>1, MovesOn, WorkHolds
  DEF LockClass, LocksClass, HoldsClass, HasRead, HasWritten, Reads, Places
<1>2. CASE CheckClassChange(p)
  BY <1>0, <1>2, MovesOn, WorkHolds
  DEF CheckClassChange, ChecksClass, HoldsClass, HasRead, HasWritten, Reads, Places
<1>3. CASE SaveClass(p)
  BY <1>0, <1>3, MovesOn, WorkHolds
  DEF SaveClass, HoldsClass, HasRead, HasWritten, Writes, Places
<1>4. CASE ClassNotFound(p) \/ ClassChangeRefused(p) \/ CommitClass(p) \/ Archive(p)
  BY <1>4, FinishHolds
  DEF ClassNotFound, ClassChangeRefused, CommitClass, Archive, RollBack, AutoCommitWrite
<1> QED
  BY <1>1, <1>2, <1>3, <1>4 DEF ChangeClass

LEMMA InitLockInv == Init => LockInv
BY InitTypeInv DEF Init, LockInv, Holds, HoldsClass, HasRead, HasWritten, Idle

LEMMA NextLockInv == LockInv /\ [Next]_vars => LockInv'
<1> SUFFICES ASSUME LockInv, [Next]_vars PROVE LockInv'
  OBVIOUS
<1>1. TypeInv'
  BY NextTypeInv DEF LockInv
<1>2. CASE UNCHANGED vars
  BY <1>1, <1>2 DEF LockInv, Holds, HoldsClass, HasRead, HasWritten, vars, dbVars
<1>3. ASSUME NEW p \in Requests, Create(p) \/ DeleteStudent(p) \/ Fail(p) PROVE LockInv'
  BY <1>1, <1>3, FinishHolds
  DEF Create, CreateClass, CreateStudent, DeleteStudent, Fail, RollBack, AutoCommitWrite
<1> QED
  BY <1>1, <1>2, <1>3, BeginHolds, EnrollHolds, ChangeEnrollmentHolds, ChangeClassHolds
  DEF Next, Quiet

-----------------------------------------------------------------------------
(***************************************************************************)
(* What a step may change.                                                 *)
(***************************************************************************)

Step(p) ==
  \/ Begin(p) \/ Enroll(p) \/ ChangeEnrollment(p) \/ ChangeClass(p)
  \/ Create(p) \/ DeleteStudent(p) \/ Fail(p)

\* The steps whose writes become visible to the other requests.
Commits(p) ==
  \/ EnrollCommit(p) \/ CommitEnrollment(p) \/ RemoveEnrollment(p)
  \/ CommitClass(p) \/ Archive(p) \/ Create(p) \/ DeleteStudent(p)

LEMMA OnlyCommitsWrite ==
  ASSUME NEW p \in Requests, Step(p) PROVE Commits(p) \/ UNCHANGED bookVars
<1>1. CASE Begin(p) \/ Fail(p)
  BY <1>1 DEF Begin, StartEnroll, StartUpdate, StartWithdraw, StartRemove, StartUpdateClass,
              StartDeleteClass, StartArchive, StartDeleteStudent, Arrive, Fail, RollBack
<1>2. CASE Enroll(p)
  BY <1>2 DEF Enroll, EnrollFindStudent, EnrollLockClass, EnrollCheck, EnrollRefused,
              EnrollInsert, EnrollOrphan, RollBack, Commits
<1>3. CASE ChangeEnrollment(p)
  BY <1>3 DEF ChangeEnrollment, FindEnrollment, EnrollmentNotFound, UpdateCheck, UpdateRefused,
              SaveEnrollment, RollBack, Commits
<1>4. CASE ChangeClass(p)
  BY <1>4 DEF ChangeClass, LockClass, ClassNotFound, CheckClassChange, ClassChangeRefused,
              SaveClass, RollBack, Commits
<1> QED
  BY <1>1, <1>2, <1>3, <1>4 DEF Step, Commits

LEMMA CommitsFinish == ASSUME NEW p \in Requests, Commits(p) PROVE Finish(p)
BY DEF Commits, EnrollCommit, CommitEnrollment, RemoveEnrollment, CommitClass, Archive,
       Create, CreateClass, CreateStudent, DeleteStudent

\* On sqlite nobody else has an open transaction when the tables change.
LEMMA WritesAlone ==
  ASSUME LockInv, ~HasRowLocks, NEW p \in Requests, Commits(p), bookVars' # bookVars
  PROVE  shared \subseteq {p}
<1>0. Holds(p)
  BY DEF LockInv
<1>1. CASE EnrollCommit(p)
  BY <1>0, <1>1 DEF EnrollCommit, At, CommitTx, Holds, HasWritten
<1>2. CASE CommitEnrollment(p)
  <2>1. CASE req[p].next # req[p].was
    BY <1>0, <1>2, <2>1 DEF CommitEnrollment, CommitTx, Holds, HasWritten
  <2>2. CASE req[p].next = req[p].was
    BY <1>2, <2>2 DEF CommitEnrollment, bookVars
  <2> QED
    BY <2>1, <2>2
<1>3. CASE CommitClass(p)
  BY <1>0, <1>3 DEF CommitClass, CommitTx, Holds, HasWritten
<1>4. CASE RemoveEnrollment(p) \/ Archive(p) \/ Create(p) \/ DeleteStudent(p)
  BY <1>4 DEF RemoveEnrollment, Archive, Create, CreateClass, CreateStudent, DeleteStudent,
              AutoCommitWrite
<1> QED
  BY <1>1, <1>2, <1>3, <1>4 DEF Commits

\* On mysql a class row changes only under its row lock.
LEMMA ClassChangesUnderLock ==
  ASSUME LockInv, HasRowLocks, NEW p \in Requests, Commits(p),
         NEW c \in Classes, class'[c] # class[c]
  PROVE  rowLock[c] \in {None, p}
<1>1. class \in [Classes -> ClassRow] /\ NamedBy(req[p]) /\ Holds(p)
  BY DEF LockInv, TypeInv, TypeOK, BookTypeOK
<1>2. CASE CommitClass(p)
  <2>1. c = req[p].class
    BY <1>1, <1>2, ClassSaved DEF LockInv
  <2> QED
    BY <1>1, <1>2, <2>1 DEF CommitClass, Holds, HoldsClass
<1>3. CASE Archive(p)
  BY <1>1, <1>3 DEF Archive, AutoCommitWrite
<1>4. CASE Create(p)
  BY <1>1, <1>4 DEF Create, CreateClass, CreateStudent, AutoCommitWrite
<1>5. CASE EnrollCommit(p) \/ CommitEnrollment(p) \/ RemoveEnrollment(p) \/ DeleteStudent(p)
  BY <1>5 DEF EnrollCommit, CommitEnrollment, RemoveEnrollment, DeleteStudent
<1> QED
  BY <1>2, <1>3, <1>4, <1>5 DEF Commits

\* Only an enrolling request adds a row, and no row changes its parents.
LEMMA RowsKeepParents ==
  ASSUME LockInv, NEW p \in Requests, Commits(p), NEW e \in Ids, Exists(enr', e)
  PROVE  \/ /\ Exists(enr, e)
            /\ enr'[e].student = enr[e].student /\ enr'[e].class = enr[e].class
         \/ /\ EnrollCommit(p) /\ e = req[p].id
            /\ enr'[e].student = req[p].student /\ enr'[e].class = req[p].class
<1>0. BookTypeOK /\ NamedBy(req[p])
  BY DEF LockInv, TypeInv, TypeOK
<1>1. CASE EnrollCommit(p)
  BY <1>0, <1>1 DEF EnrollCommit, Exists, BookTypeOK
<1>2. CASE CommitEnrollment(p)
  <2>1. CASE enr' = enr
    BY <2>1
  <2>2. CASE Exists(enr, req[p].id) /\ enr' = [enr EXCEPT ![req[p].id].status = req[p].next]
    <3>1. Exists(enr, e)
      BY <1>0, <2>2 DEF BookTypeOK, Exists
    <3>2. enr[e] \in Row
      BY <1>0, <3>1, ExistingRow
    <3> QED
      BY <1>0, <2>2, <3>1, <3>2 DEF BookTypeOK, Row
  <2> QED
    BY <1>2, <2>1, <2>2 DEF CommitEnrollment
<1>3. CASE RemoveEnrollment(p) \/ DeleteStudent(p)
  <2>1. enr'[e] = enr[e] \/ enr'[e] = Deleted
    BY <1>0, <1>3 DEF RemoveEnrollment, DeleteStudent, BookTypeOK
  <2> QED
    BY <2>1, ClosedAreNotOpen DEF Exists, Deleted
<1>4. CASE CommitClass(p) \/ Archive(p) \/ Create(p)
  BY <1>4 DEF CommitClass, Archive, Create, CreateClass, CreateStudent
<1> QED
  BY <1>1, <1>2, <1>3, <1>4 DEF Commits

\* On mysql a student is not deleted under an enrollment about to commit.
LEMMA StudentsStay ==
  ASSUME LockInv, HasRowLocks, NEW p \in Requests, Commits(p),
         NEW q \in Requests, At(q, "enroll", "commit"), req[q].student \in student
  PROVE  req[q].student \in student'
<1>1. CASE DeleteStudent(p)
  BY <1>1 DEF DeleteStudent
<1>2. CASE ~DeleteStudent(p)
  BY <1>2 DEF Commits, EnrollCommit, CommitEnrollment, RemoveEnrollment, CommitClass, Archive,
              Create, CreateClass, CreateStudent
<1> QED
  BY <1>1, <1>2

-----------------------------------------------------------------------------
(***************************************************************************)
(* Parents, on either engine.  A request that enrolls keeps its class      *)
(* active, and one that deletes a class keeps it empty, by the row lock or *)
(* by its SHARED lock.                                                     *)
(***************************************************************************)

ParentsKept(p) ==
  /\ req[p].op = "enroll" /\ req[p].pc \in {"write", "commit"} =>
       class[req[p].class].status = "active"
  /\ At(p, "enroll", "commit") => req[p].student \in student
  /\ req[p].op = "deleteClass" /\ req[p].pc \in {"write", "commit"} =>
       \A e \in Ids : Exists(enr, e) => enr[e].class # req[p].class
  /\ \/ req[p].pc = "start"
     \/ ChecksClass(p)
     \/ LocksClass(p) /\ req[p].op # "update"
     => view[p] = None

ParentInv ==
  /\ LockInv
  /\ EnrollmentsHaveParents
  /\ \A p \in Requests : ParentsKept(p)

LEMMA StepIsOwn ==
  ASSUME TypeInv, NEW p \in Requests, Step(p)
  PROVE  \A q \in Requests \ {p} : req'[q] = req[q] /\ view'[q] = view[q]
<1> USE DEF TypeInv, TypeOK, Finish, RollBack, Snapshot, Goto, Arrive
<1>1. CASE Begin(p) \/ Fail(p) \/ Create(p) \/ DeleteStudent(p)
  BY <1>1 DEF Begin, StartEnroll, StartUpdate, StartWithdraw, StartRemove, StartUpdateClass,
              StartDeleteClass, StartArchive, StartDeleteStudent, Fail,
              Create, CreateClass, CreateStudent, DeleteStudent
<1>2. CASE Enroll(p)
  BY <1>2 DEF Enroll, EnrollFindStudent, EnrollLockClass, EnrollCheck, EnrollRefused,
              EnrollInsert, EnrollOrphan, EnrollCommit
<1>3. CASE ChangeEnrollment(p)
  BY <1>3 DEF ChangeEnrollment, FindEnrollment, EnrollmentNotFound, UpdateCheck, UpdateRefused,
              SaveEnrollment, CommitEnrollment, RemoveEnrollment
<1>4. CASE ChangeClass(p)
  BY <1>4 DEF ChangeClass, LockClass, ClassNotFound, CheckClassChange, ClassChangeRefused,
              SaveClass, CommitClass, Archive
<1> QED
  BY <1>1, <1>2, <1>3, <1>4 DEF Step

\* What another request decided on stays so, whatever p does.
LEMMA OthersKeepParents ==
  ASSUME ParentInv, NEW p \in Requests, Step(p), NEW q \in Requests, q # p
  PROVE  ParentsKept(q)'
<1>0. LockInv /\ TypeInv /\ Holds(q) /\ ParentsKept(q) /\ NamedBy(req[q])
  BY DEF ParentInv, LockInv, TypeInv
<1>1. req'[q] = req[q] /\ view'[q] = view[q]
  BY <1>0, StepIsOwn
<1>2. CASE UNCHANGED bookVars
  BY <1>0, <1>1, <1>2 DEF ParentsKept, bookVars, At, ChecksClass, LocksClass
<1>3. CASE Commits(p) /\ HasRowLocks
  <2>1. ASSUME HoldsClass(q)
        PROVE  /\ class'[req[q].class] = class[req[q].class]
               /\ \A e \in Ids : Exists(enr', e) /\ enr'[e].class = req[q].class
                                   => Exists(enr, e) /\ enr[e].class = req[q].class
    <3>1. rowLock[req[q].class] = q /\ req[q].class \in Classes
      BY <1>0, <1>3, <2>1 DEF Holds, NamedBy, HoldsClass
    <3>2. class'[req[q].class] = class[req[q].class]
      BY <1>0, <1>3, <3>1, ClassChangesUnderLock, NoneAssumption
    <3>3. EnrollCommit(p) => rowLock[req[p].class] = p
      BY <1>0, <1>3 DEF LockInv, Holds, HoldsClass, EnrollCommit, At
    <3> QED
      BY <1>0, <1>3, <3>1, <3>2, <3>3, RowsKeepParents
  <2>2. At(q, "enroll", "commit") /\ req[q].student \in student => req[q].student \in student'
    BY <1>0, <1>3, StudentsStay
  <2> QED
    BY <1>0, <1>1, <2>1, <2>2 DEF ParentsKept, At, ChecksClass, LocksClass, HoldsClass
<1>4. CASE Commits(p) /\ ~HasRowLocks /\ bookVars' # bookVars
  <2>1. ~HasRead(q)
    BY <1>0, <1>4, WritesAlone DEF Holds
  <2> QED
    BY <1>0, <1>1, <2>1 DEF HasRead, ParentsKept, At, ChecksClass, LocksClass
<1> QED
  BY <1>2, <1>3, <1>4, OnlyCommitsWrite

LEMMA FinishKeepsParents ==
  ASSUME TypeInv, NEW p \in Requests, Finish(p) PROVE ParentsKept(p)'
<1>1. req'[p] = [Idle EXCEPT !.pc = "done"]
  BY DEF Finish, TypeInv, TypeOK
<1> QED
  BY <1>1 DEF ParentsKept, At, ChecksClass, LocksClass, Idle

\* p's own step inside its transaction.
LEMMA OwnParents ==
  ASSUME ParentInv, NEW p \in Requests, Step(p), UNCHANGED bookVars PROVE ParentsKept(p)'
<1>0. /\ LockInv /\ TypeInv /\ ParentsKept(p)
      /\ req \in [Requests -> Request] /\ req[p] \in Request /\ NamedBy(req[p])
  BY DEF ParentInv, LockInv, TypeInv, TypeOK
<1>1. CASE EnrollFindStudent(p)
  <2> DEFINE found == req[p].student \in student
  <2>1. req' = [req EXCEPT ![p] = [req[p] EXCEPT !.pc = "lock", !.found = found]]
    BY <1>1 DEF EnrollFindStudent
  <2>2. req[p].op = "enroll"
    BY <1>1 DEF EnrollFindStudent, At
  <2> HIDE DEF found
  <2>3. req'[p].op = "enroll" /\ req'[p].pc = "lock"
    BY <1>0, <2>1, <2>2 DEF Request
  <2> QED
    BY <2>3 DEF ParentsKept, At, ChecksClass, LocksClass
<1> USE DEF ParentsKept, At, ChecksClass, LocksClass, bookVars
<1>2. CASE Begin(p)
  <2>1. ASSUME NEW r, Arrive(p, r),
               r.op = "enroll" => r.pc = "find", r.pc # "start",
               r.op = "deleteClass" => r.pc = "lock"
        PROVE  ParentsKept(p)'
    <3>1. req'[p] = r /\ view' = view /\ view[p] = None
      BY <1>0, <2>1 DEF Arrive
    <3> QED
      BY <2>1, <3>1
  <2> HIDE DEF ParentsKept, At, ChecksClass, LocksClass, bookVars
  <2> USE DEF Idle
  <2>2. CASE StartEnroll(p) \/ StartUpdate(p) \/ StartWithdraw(p) \/ StartRemove(p)
    BY <2>1, <2>2 DEF StartEnroll, StartUpdate, StartWithdraw, StartRemove
  <2>3. CASE StartUpdateClass(p) \/ StartDeleteClass(p) \/ StartArchive(p) \/ StartDeleteStudent(p)
    BY <2>1, <2>3 DEF StartUpdateClass, StartDeleteClass, StartArchive, StartDeleteStudent
  <2> QED
    BY <1>2, <2>2, <2>3 DEF Begin
<1>3. CASE EnrollCheck(p)
  <2>1. PICK e \in Ids : req' = [req EXCEPT ![p].pc = "write", ![p].id = e]
    BY <1>3 DEF EnrollCheck
  <2>2. req[p].op = "enroll" /\ class[req[p].class].status = "active"
    BY <1>3 DEF EnrollCheck, EnrollAllowed
  <2>3. req'[p].op = "enroll" /\ req'[p].pc = "write" /\ req'[p].class = req[p].class
    BY <1>0, <2>1, <2>2 DEF Request
  <2> QED
    BY <2>2, <2>3
<1>4. CASE EnrollLockClass(p) \/ EnrollInsert(p)
  BY <1>0, <1>4, MovesOn DEF EnrollLockClass, EnrollInsert, Places
<1>5. CASE FindEnrollment(p)
  <2> DEFINE pc == IF req[p].op = "update" THEN "lock" ELSE "write"
             e == req[p].id
  <2>1. req[p].op \in {"update", "withdraw"}
    BY <1>5 DEF FindEnrollment
  <2>2. req' = [req EXCEPT ![p] = [req[p] EXCEPT !.pc = pc, !.was = enr[e].status,
                                     !.student = enr[e].student, !.class = enr[e].class]]
    BY <1>5 DEF FindEnrollment
  <2>3. req'[p].op = req[p].op /\ req'[p].pc = pc
    BY <1>0, <2>2 DEF Request
  <2> QED
    BY <2>1, <2>3
<1>6. CASE UpdateCheck(p) \/ SaveEnrollment(p)
  BY <1>0, <1>6, MovesOn DEF UpdateCheck, SaveEnrollment, Places
<1>7. CASE LockClass(p)
  BY <1>0, <1>7, MovesOn DEF LockClass, Places
<1>8. CASE CheckClassChange(p)
  <2>1. /\ req'[p].op = req[p].op /\ req'[p].pc = "write" /\ req'[p].class = req[p].class
    BY <1>0, <1>8, MovesOn DEF CheckClassChange, Places
  <2>2. Seen(p) = enr
    BY <1>0, <1>8 DEF CheckClassChange, Seen
  <2>3. req[p].op = "deleteClass" => \A e \in Ids : Exists(enr, e) => enr[e].class # req[p].class
    BY <1>8, <2>2 DEF CheckClassChange, ClassChangeAllowed
  <2>4. req[p].op \in {"updateClass", "deleteClass"}
    BY <1>8 DEF CheckClassChange
  <2> QED
    BY <2>1, <2>3, <2>4
<1>9. CASE SaveClass(p)
  BY <1>0, <1>9, MovesOn DEF SaveClass, Places
<1> HIDE DEF ParentsKept, At, ChecksClass, LocksClass, bookVars
<1>10. CASE Fail(p) \/ EnrollRefused(p) \/ EnrollOrphan(p) \/ EnrollmentNotFound(p)
            \/ UpdateRefused(p) \/ ClassNotFound(p) \/ ClassChangeRefused(p) \/ Commits(p)
  BY <1>0, <1>10, FinishKeepsParents, CommitsFinish
  DEF Fail, EnrollRefused, EnrollOrphan, EnrollmentNotFound, UpdateRefused, ClassNotFound,
      ClassChangeRefused, RollBack
<1> QED
  BY <1>1, <1>2, <1>3, <1>4, <1>5, <1>6, <1>7, <1>8, <1>9, <1>10
  DEF Step, Enroll, ChangeEnrollment, ChangeClass, Commits

\* A commit leaves every row with its parents.
LEMMA CommitKeepsParents ==
  ASSUME ParentInv, NEW p \in Requests, Commits(p) PROVE EnrollmentsHaveParents'
<1>0. /\ LockInv /\ BookTypeOK /\ ParentsKept(p) /\ EnrollmentsHaveParents
      /\ req[p] \in Request /\ NamedBy(req[p])
  BY DEF ParentInv, LockInv, TypeInv, TypeOK
<1> SUFFICES ASSUME NEW e \in Ids, Exists(enr', e)
             PROVE  /\ enr'[e].student \in student'
                    /\ class'[enr'[e].class].status \in {"active", "archived"}
  BY DEF EnrollmentsHaveParents, ClassExists
<1>1. CASE EnrollCommit(p)
  <2>1. /\ req[p].student \in student /\ class[req[p].class].status = "active"
        /\ UNCHANGED <<class, student>>
    BY <1>0, <1>1 DEF EnrollCommit, ParentsKept, At
  <2>2. \/ Exists(enr, e) /\ enr'[e].student = enr[e].student /\ enr'[e].class = enr[e].class
        \/ enr'[e].student = req[p].student /\ enr'[e].class = req[p].class
    BY <1>0, RowsKeepParents
  <2> QED
    BY <1>0, <2>1, <2>2 DEF ClassExists, EnrollmentsHaveParents
<1>2. CASE ~EnrollCommit(p)
  <2>1. /\ Exists(enr, e)
        /\ enr'[e].student = enr[e].student /\ enr'[e].class = enr[e].class
    BY <1>0, <1>2, RowsKeepParents
  <2>2. enr[e].student \in student /\ ClassExists(enr[e].class) /\ enr[e].class \in Classes
    BY <1>0, <2>1, ExistingRow DEF EnrollmentsHaveParents, Row
  <2>3. CASE CommitEnrollment(p) \/ RemoveEnrollment(p)
    BY <2>1, <2>2, <2>3 DEF CommitEnrollment, RemoveEnrollment, ClassExists
  <2>4. CASE CommitClass(p)
    <3>1. class' = [class EXCEPT ![req[p].class] = SavedClass(p)] /\ UNCHANGED <<student, enr>>
      BY <1>0, <2>4, ClassSaved DEF CommitClass, LockInv
    <3>2. req[p].op = "deleteClass" => enr[e].class # req[p].class
      BY <1>0, <2>1, <2>4 DEF CommitClass, ParentsKept
    <3>3. enr[e].class = req[p].class => SavedClass(p).status \in {"active", "archived"}
      BY <1>0, <2>2, <2>4, <3>2 DEF SavedClass, ClassExists, Request
    <3> QED
      BY <1>0, <2>2, <3>1, <3>3 DEF ClassExists, BookTypeOK
  <2>5. CASE Archive(p)
    BY <1>0, <2>2, <2>5 DEF Archive, ClassExists, BookTypeOK, ClassRow
  <2>6. CASE Create(p)
    BY <1>0, <2>2, <2>6 DEF Create, CreateClass, CreateStudent, ClassExists, BookTypeOK
  <2>7. CASE DeleteStudent(p)
    <3>1. enr[e].student # req[p].student
      BY <1>0, <2>1, <2>7, ClosedAreNotOpen DEF DeleteStudent, Exists, Deleted
    <3> QED
      BY <2>1, <2>2, <2>7, <3>1 DEF DeleteStudent, ClassExists
  <2> QED
    BY <1>2, <2>3, <2>4, <2>5, <2>6, <2>7 DEF Commits
<1> QED
  BY <1>1, <1>2

LEMMA InitParentInv == Init => ParentInv
<1> SUFFICES ASSUME Init PROVE ParentInv
  OBVIOUS
<1>1. EnrollmentsHaveParents
  BY DEF Init, BookInit
<1>2. \A p \in Requests : ParentsKept(p)
  BY DEF Init, ParentsKept, At, ChecksClass, LocksClass, Idle
<1> QED
  BY <1>1, <1>2, InitLockInv DEF ParentInv

LEMMA StepParentInv ==
  ASSUME ParentInv, NEW p \in Requests, Step(p), LockInv' PROVE ParentInv'
<1>1. EnrollmentsHaveParents'
  <2>1. CASE UNCHANGED bookVars
    BY <2>1 DEF ParentInv, EnrollmentsHaveParents, bookVars, ClassExists
  <2> QED
    BY <2>1, OnlyCommitsWrite, CommitKeepsParents
<1>2. ParentsKept(p)'
  BY OnlyCommitsWrite, CommitsFinish, FinishKeepsParents, OwnParents DEF ParentInv, LockInv
<1> QED
  BY <1>1, <1>2, OthersKeepParents DEF ParentInv

LEMMA NextParentInv == ParentInv /\ [Next]_vars => ParentInv'
<1> SUFFICES ASSUME ParentInv, [Next]_vars PROVE ParentInv'
  OBVIOUS
<1>1. LockInv'
  BY NextLockInv DEF ParentInv
<1>2. CASE UNCHANGED vars
  BY <1>1, <1>2 DEF ParentInv, EnrollmentsHaveParents, ClassExists, ParentsKept, At, ChecksClass,
                    LocksClass, vars, bookVars
<1> QED
  BY <1>1, <1>2, StepParentInv DEF Next, Step, Quiet

\* Whatever the engine, however many requests, and wherever one of them dies:
\* no committed enrollment ever lacks its student or its class.
THEOREM EnrollmentHasParents == Spec => []EnrollmentsHaveParents
<1>1. ParentInv => EnrollmentsHaveParents
  BY DEF ParentInv
<1> QED
  BY <1>1, InitParentInv, NextParentInv, PTL DEF Spec

\* "Archived classes accept no new enrollment", on either engine: the class a
\* new row belongs to is still active in the state its commit meets.
THEOREM EnrollmentArchivedIsClosed == Spec => ArchivedGainsNoEnrollment
<1> DEFINE A == \A e \in Ids :
                  ~Exists(enr, e) /\ Exists(enr', e) => class[enr'[e].class].status = "active"
<1>1. ParentInv /\ [Next]_vars => [A]_vars
  <2> SUFFICES ASSUME ParentInv, NEW p \in Requests, Step(p), NEW e \in Ids,
                      ~Exists(enr, e), Exists(enr', e)
               PROVE  class[enr'[e].class].status = "active"
    BY DEF Next, Step, Quiet
  <2>1. Commits(p)
    BY OnlyCommitsWrite DEF bookVars, Exists
  <2>2. EnrollCommit(p) /\ enr'[e].class = req[p].class
    BY <2>1, RowsKeepParents DEF ParentInv
  <2> QED
    BY <2>2 DEF ParentInv, ParentsKept, EnrollCommit, At
<1> QED
  BY <1>1, InitParentInv, NextParentInv, PTL DEF Spec, ArchivedGainsNoEnrollment

-----------------------------------------------------------------------------
(***************************************************************************)
(* On sqlite the services implement the seat book.  What a request has     *)
(* decided on is the committed state, and it stays that until the request  *)
(* ends, since every other commit waits for its SHARED lock.               *)
(***************************************************************************)

Decided(p) ==
  /\ req[p].op = "enroll" /\ req[p].pc \in {"write", "commit"} =>
       EnrollAllowed(p) /\ enr[req[p].id] = Unborn
  /\ req[p].op \in {"update", "withdraw"} /\ req[p].pc # "find" =>
       /\ Exists(enr, req[p].id)
       /\ enr[req[p].id].status = req[p].was
       /\ enr[req[p].id].student = req[p].student /\ enr[req[p].id].class = req[p].class
  /\ req[p].op = "update" /\ req[p].pc \in {"write", "commit"} => UpdateAllowed(p)
  /\ req[p].op \in {"updateClass", "deleteClass"} /\ req[p].pc # "lock" =>
       ClassExists(req[p].class)
  /\ req[p].op \in {"updateClass", "deleteClass"} /\ req[p].pc \in {"write", "commit"} =>
       ClassChangeAllowed(p)
  /\ req[p].op = "remove" => enr[req[p].id] # Unborn

BookInv ==
  /\ ParentInv
  /\ SeatInv
  /\ \A p \in Requests : Decided(p)

\* Without row locks a request sees the committed rows.
LEMMA SeesCommitted ==
  ASSUME ~HasRowLocks, NEW p \in Requests PROVE Seen(p) = enr /\ Seen(p)' = enr'
BY DEF Seen

LEMMA DecisionStands ==
  ASSUME ~HasRowLocks, NEW p \in Requests, Decided(p), req'[p] = req[p], UNCHANGED bookVars
  PROVE  Decided(p)'
<1>1. EnrollAllowed(p) => EnrollAllowed(p)'
  BY SeesCommitted DEF EnrollAllowed, SeatFree, Active, Open, bookVars
<1>2. UpdateAllowed(p) => UpdateAllowed(p)'
  BY SeesCommitted DEF UpdateAllowed, SeatFree, Active, Open, bookVars
<1>3. ClassChangeAllowed(p) => ClassChangeAllowed(p)'
  BY SeesCommitted DEF ClassChangeAllowed, Active, Exists, bookVars
<1> QED
  BY <1>1, <1>2, <1>3 DEF Decided, bookVars, Exists, ClassExists

\* No row goes back to being unborn.
LEMMA RowsStayBorn ==
  ASSUME LockInv, NEW p \in Requests, Commits(p), NEW e \in Ids, enr[e] # Unborn
  PROVE  enr'[e] # Unborn
<1>0. BookTypeOK /\ NamedBy(req[p])
  BY DEF LockInv, TypeInv, TypeOK
<1>1. CASE EnrollCommit(p)
  <2>1. req[p].next \in Statuses
    BY <1>0, <1>1 DEF EnrollCommit, At, NamedBy, Statuses
  <2> QED
    BY <1>0, <1>1, <2>1, ClosedAreNotOpen DEF EnrollCommit, BookTypeOK, Unborn
<1>2. CASE CommitEnrollment(p)
  <2>1. CASE enr' = enr
    BY <2>1
  <2>2. CASE Exists(enr, req[p].id) /\ enr' = [enr EXCEPT ![req[p].id].status = req[p].next]
    <3>1. req[p].id \in Ids /\ enr[req[p].id] \in Row /\ req[p].next \in Statuses
      BY <1>0, <1>2, <2>2, ExistingRow
      DEF CommitEnrollment, NamedBy, LockInv, TypeInv, TypeOK, Request
    <3>2. [enr[req[p].id] EXCEPT !.status = req[p].next].status = req[p].next
      BY <3>1 DEF Row
    <3> QED
      BY <1>0, <2>2, <3>1, <3>2, ClosedAreNotOpen DEF BookTypeOK, Unborn
  <2> QED
    BY <1>2, <2>1, <2>2 DEF CommitEnrollment
<1>3. CASE RemoveEnrollment(p) \/ DeleteStudent(p)
  <2>1. enr'[e] = enr[e] \/ enr'[e] = Deleted
    BY <1>0, <1>3 DEF RemoveEnrollment, DeleteStudent, BookTypeOK
  <2> QED
    BY <2>1 DEF Unborn, Deleted
<1>4. CASE CommitClass(p) \/ Archive(p) \/ Create(p)
  BY <1>4 DEF CommitClass, Archive, Create, CreateClass, CreateStudent
<1> QED
  BY <1>1, <1>2, <1>3, <1>4 DEF Commits

LEMMA OthersStayDecided ==
  ASSUME BookInv, ~HasRowLocks, NEW p \in Requests, Step(p), NEW q \in Requests, q # p
  PROVE  Decided(q)'
<1>0. LockInv /\ TypeInv /\ Holds(q) /\ Decided(q) /\ NamedBy(req[q])
  BY DEF BookInv, ParentInv, LockInv, TypeInv
<1>1. req'[q] = req[q]
  BY <1>0, StepIsOwn
<1>2. CASE UNCHANGED bookVars
  BY <1>0, <1>1, <1>2, DecisionStands
<1>3. CASE Commits(p) /\ bookVars' # bookVars
  <2>1. ~HasRead(q)
    BY <1>0, <1>3, WritesAlone DEF Holds
  <2>2. req[q].op = "remove" => enr'[req[q].id] # Unborn
    BY <1>0, <1>3, RowsStayBorn DEF Decided, NamedBy
  <2> QED
    BY <1>0, <1>1, <2>1, <2>2 DEF HasRead, Decided, NamedBy
<1> QED
  BY <1>2, <1>3, OnlyCommitsWrite

LEMMA FinishIsDecided ==
  ASSUME TypeInv, NEW p \in Requests, Finish(p) PROVE Decided(p)'
<1>1. req'[p] = [Idle EXCEPT !.pc = "done"]
  BY DEF Finish, TypeInv, TypeOK
<1> QED
  BY <1>1 DEF Decided, Idle

\* The decisions are those the code has just taken or already had.
LEMMA OwnDecision ==
  ASSUME BookInv, ~HasRowLocks, NEW p \in Requests, Step(p), UNCHANGED bookVars
  PROVE  Decided(p)'
<1>0. /\ LockInv /\ TypeInv /\ Decided(p)
      /\ req \in [Requests -> Request] /\ req[p] \in Request /\ NamedBy(req[p])
  BY DEF BookInv, ParentInv, LockInv, TypeInv, TypeOK
<1>s. Seen(p) = enr /\ Seen(p)' = enr /\ class' = class /\ enr' = enr
  BY SeesCommitted DEF bookVars
<1>1. CASE EnrollFindStudent(p)
  <2> DEFINE found == req[p].student \in student
  <2>1. req' = [req EXCEPT ![p] = [req[p] EXCEPT !.pc = "lock", !.found = found]]
    BY <1>1 DEF EnrollFindStudent
  <2>2. req[p].op = "enroll"
    BY <1>1 DEF EnrollFindStudent, At
  <2> HIDE DEF found
  <2>3. req'[p].op = "enroll" /\ req'[p].pc = "lock"
    BY <1>0, <2>1, <2>2 DEF Request
  <2> QED
    BY <2>3 DEF Decided
<1>2. CASE Begin(p)
  <2>1. ASSUME NEW r, Arrive(p, r),
               r.op = "enroll" => r.pc = "find",
               r.op \in {"update", "withdraw"} => r.pc = "find",
               r.op \in {"updateClass", "deleteClass"} => r.pc = "lock",
               r.op = "remove" => Exists(enr, r.id)
        PROVE  Decided(p)'
    <3>1. req'[p] = r
      BY <1>0, <2>1 DEF Arrive
    <3> QED
      BY <1>s, <2>1, <3>1, ClosedAreNotOpen DEF Decided, Exists, Unborn
  <2> USE DEF Idle
  <2>2. CASE StartEnroll(p) \/ StartUpdate(p) \/ StartWithdraw(p) \/ StartRemove(p)
    BY <2>1, <2>2 DEF StartEnroll, StartUpdate, StartWithdraw, StartRemove
  <2>3. CASE StartUpdateClass(p) \/ StartDeleteClass(p) \/ StartArchive(p) \/ StartDeleteStudent(p)
    BY <2>1, <2>3 DEF StartUpdateClass, StartDeleteClass, StartArchive, StartDeleteStudent
  <2> QED
    BY <1>2, <2>2, <2>3 DEF Begin
<1>3. CASE EnrollLockClass(p)
  BY <1>0, <1>3, MovesOn DEF EnrollLockClass, At, Places, Decided
<1>4. CASE EnrollCheck(p)
  <2>1. PICK e \in Ids : enr[e] = Unborn /\ req' = [req EXCEPT ![p].pc = "write", ![p].id = e]
    BY <1>4 DEF EnrollCheck
  <2>2. req[p].op = "enroll" /\ EnrollAllowed(p)
    BY <1>4 DEF EnrollCheck, At
  <2>3. /\ req'[p].op = "enroll" /\ req'[p].pc = "write" /\ req'[p].id = e
        /\ req'[p].class = req[p].class /\ req'[p].student = req[p].student
        /\ req'[p].next = req[p].next /\ req'[p].found = req[p].found
    BY <1>0, <2>1, <2>2 DEF Request
  <2>4. EnrollAllowed(p)'
    BY <1>s, <2>2, <2>3 DEF EnrollAllowed, SeatFree
  <2> QED
    BY <1>s, <2>1, <2>3, <2>4 DEF Decided
<1>5. CASE EnrollInsert(p)
  <2>1. req[p].op = "enroll" /\ EnrollAllowed(p) /\ enr[req[p].id] = Unborn
    BY <1>0, <1>5 DEF EnrollInsert, At, Decided
  <2>2. /\ req'[p].op = "enroll" /\ req'[p].id = req[p].id
        /\ req'[p].class = req[p].class /\ req'[p].student = req[p].student
        /\ req'[p].next = req[p].next /\ req'[p].found = req[p].found
    BY <1>0, <1>5, <2>1, MovesOn DEF EnrollInsert, Places
  <2>3. EnrollAllowed(p)'
    BY <1>s, <2>1, <2>2 DEF EnrollAllowed, SeatFree
  <2> QED
    BY <1>s, <2>1, <2>2, <2>3 DEF Decided
<1>6. CASE FindEnrollment(p)
  <2> DEFINE pc == IF req[p].op = "update" THEN "lock" ELSE "write"
             e == req[p].id
  <2>1. req[p].op \in {"update", "withdraw"} /\ Exists(enr, e)
    BY <1>6 DEF FindEnrollment
  <2>2. req' = [req EXCEPT ![p] = [req[p] EXCEPT !.pc = pc, !.was = enr[e].status,
                                     !.student = enr[e].student, !.class = enr[e].class]]
    BY <1>6 DEF FindEnrollment
  <2>3. /\ req'[p].op = req[p].op /\ req'[p].pc = pc /\ req'[p].id = e
        /\ req'[p].was = enr[e].status
        /\ req'[p].student = enr[e].student /\ req'[p].class = enr[e].class
    BY <1>0, <2>2 DEF Request
  <2> QED
    BY <1>s, <2>1, <2>3 DEF Decided, Exists
<1>7. ASSUME NEW pc \in Places \ {"find"}, Goto(p, pc),
             req[p].op \in {"update", "withdraw"}, req[p].pc # "find",
             req[p].op = "update" /\ pc \in {"write", "commit"} => UpdateAllowed(p)
      PROVE  Decided(p)'
  <2>1. /\ req'[p].op = req[p].op /\ req'[p].pc = pc /\ req'[p].id = req[p].id
        /\ req'[p].class = req[p].class /\ req'[p].student = req[p].student
        /\ req'[p].next = req[p].next /\ req'[p].was = req[p].was
    BY <1>0, <1>7, MovesOn
  <2>2. UpdateAllowed(p) => UpdateAllowed(p)'
    BY <1>s, <2>1 DEF UpdateAllowed, SeatFree
  <2> QED
    BY <1>0, <1>s, <1>7, <2>1, <2>2 DEF Decided, Exists
<1>8. ASSUME NEW pc \in {"check", "write", "commit"}, Goto(p, pc),
             req[p].op \in {"updateClass", "deleteClass"}, ClassExists(req[p].class),
             pc # "check" => ClassChangeAllowed(p)
      PROVE  Decided(p)'
  <2>1. /\ req'[p].op = req[p].op /\ req'[p].pc = pc /\ req'[p].class = req[p].class
        /\ req'[p].capacity = req[p].capacity
    BY <1>0, <1>8, MovesOn DEF Places
  <2>2. ClassChangeAllowed(p) => ClassChangeAllowed(p)'
    BY <1>s, <2>1 DEF ClassChangeAllowed
  <2> QED
    BY <1>s, <1>8, <2>1, <2>2 DEF Decided, ClassExists
<1>9. CASE UpdateCheck(p) \/ SaveEnrollment(p)
  <2>1. CASE UpdateCheck(p)
    BY <1>7, <2>1 DEF UpdateCheck, At, Places
  <2>2. CASE SaveEnrollment(p)
    BY <1>0, <1>7, <2>2 DEF SaveEnrollment, Decided, Places
  <2> QED
    BY <1>9, <2>1, <2>2
<1>10. CASE LockClass(p) \/ CheckClassChange(p) \/ SaveClass(p)
  <2>1. CASE LockClass(p)
    BY <1>7, <1>8, <2>1 DEF LockClass, LocksClass, Places
  <2>2. CASE CheckClassChange(p)
    BY <1>0, <1>8, <2>2 DEF CheckClassChange, ChecksClass, Decided
  <2>3. CASE SaveClass(p)
    BY <1>0, <1>8, <2>3 DEF SaveClass, Decided
  <2> QED
    BY <1>10, <2>1, <2>2, <2>3
<1>11. CASE Fail(p) \/ EnrollRefused(p) \/ EnrollOrphan(p) \/ EnrollmentNotFound(p)
            \/ UpdateRefused(p) \/ ClassNotFound(p) \/ ClassChangeRefused(p) \/ Commits(p)
  BY <1>0, <1>11, FinishIsDecided, CommitsFinish
  DEF Fail, EnrollRefused, EnrollOrphan, EnrollmentNotFound, UpdateRefused, ClassNotFound,
      ClassChangeRefused, RollBack
<1> QED
  BY <1>1, <1>2, <1>3, <1>4, <1>5, <1>6, <1>9, <1>10, <1>11
  DEF Step, Enroll, ChangeEnrollment, ChangeClass, Commits

LEMMA EnrollIsBookStep ==
  ASSUME BookInv, ~HasRowLocks, NEW p \in Requests, EnrollCommit(p)
  PROVE  BookEnroll(req[p].id, req[p].student, req[p].class, req[p].next)
<1>1. ParentsKept(p) /\ Decided(p)
  BY DEF BookInv, ParentInv
<1>2. /\ enr[req[p].id] = Unborn
      /\ Open(enr, req[p].student, req[p].class) = {}
      /\ req[p].next = "active" => SeatIn(req[p].class)
  BY <1>1, SeesCommitted DEF EnrollCommit, At, Decided, EnrollAllowed, SeatFree, SeatIn
<1> QED
  BY <1>1, <1>2 DEF EnrollCommit, At, ParentsKept, BookEnroll

LEMMA SetStatusIsBookStep ==
  ASSUME BookInv, ~HasRowLocks, NEW p \in Requests, CommitEnrollment(p)
  PROVE  BookSetStatus(req[p].id, req[p].next) \/ UNCHANGED bookVars
<1> DEFINE e == req[p].id
<1>1. /\ Decided(p) /\ NamedBy(req[p]) /\ e \in Ids
      /\ Exists(enr, e)
      /\ enr[e].status = req[p].was
      /\ enr[e].student = req[p].student /\ enr[e].class = req[p].class
  BY DEF BookInv, ParentInv, LockInv, TypeInv, CommitEnrollment, Decided, NamedBy
<1>2. req[p].op = "update" => UpdateAllowed(p)
  BY <1>1 DEF CommitEnrollment, Decided
<1>3. req[p].op = "withdraw" => req[p].next \notin OpenStatuses
  BY <1>1 DEF NamedBy, OpenStatuses
<1>4. enr[e].status \notin OpenStatuses /\ req[p].next \in OpenStatuses
        => Open(enr, enr[e].student, enr[e].class) = {}
  <2> SUFFICES ASSUME enr[e].status \notin OpenStatuses, req[p].next \in OpenStatuses
               PROVE  Open(enr, enr[e].student, enr[e].class) = {}
    OBVIOUS
  <2>1. Open(enr, enr[e].student, enr[e].class) \subseteq {e}
    BY <1>1, <1>2, <1>3, SeesCommitted DEF UpdateAllowed, CommitEnrollment
  <2>2. e \notin Open(enr, enr[e].student, enr[e].class)
    BY DEF Open
  <2> QED
    BY <2>1, <2>2
<1>5. enr[e].status # "active" /\ req[p].next = "active" => SeatIn(enr[e].class)
  BY <1>1, <1>2, <1>3, SeesCommitted
  DEF UpdateAllowed, CommitEnrollment, SeatFree, SeatIn, OpenStatuses
<1> QED
  BY <1>1, <1>4, <1>5 DEF CommitEnrollment, BookSetStatus, bookVars

LEMMA ClassCommitIsBookStep ==
  ASSUME BookInv, ~HasRowLocks, NEW p \in Requests, CommitClass(p)
  PROVE  \/ BookDeleteClass(req[p].class)
         \/ BookUpdateClass(req[p].class, SavedClass(p).status, SavedClass(p).capacity)
            /\ SavedClass(p).status \in {"active", "archived"}
<1> DEFINE c == req[p].class
<1>1. /\ Decided(p) /\ ParentsKept(p) /\ NamedBy(req[p]) /\ req[p] \in Request
      /\ class \in [Classes -> ClassRow] /\ c \in Classes
      /\ class' = [class EXCEPT ![c] = SavedClass(p)]
      /\ UNCHANGED <<student, enr>>
  BY ClassSaved DEF BookInv, ParentInv, LockInv, TypeInv, TypeOK, BookTypeOK, CommitClass
<1>2. ClassExists(c) /\ ClassChangeAllowed(p)
  BY <1>1 DEF CommitClass, Decided
<1>3. CASE req[p].op = "deleteClass"
  <2>1. SavedClass(p) = [class[c] EXCEPT !.status = "deleted"]
    BY <1>1, <1>3 DEF SavedClass, NewCapacity, NamedBy, ClassRow
  <2>2. class' = [class EXCEPT ![c].status = "deleted"]
    BY <1>1, <2>1
  <2> QED
    BY <1>1, <1>2, <1>3, <2>2 DEF BookDeleteClass, ParentsKept, CommitClass
<1>4. CASE req[p].op = "updateClass"
  <2>1. SavedClass(p).status \in {"active", "archived"}
    BY <1>1, <1>2, <1>4 DEF SavedClass, ClassExists, Request
  <2>2. SavedClass(p).capacity # class[c].capacity
          => Cardinality(Active(enr, c)) <= SavedClass(p).capacity
    BY <1>2, <1>4, SeesCommitted DEF SavedClass, NewCapacity, ClassChangeAllowed
  <2>3. SavedClass(p) = [status |-> SavedClass(p).status, capacity |-> SavedClass(p).capacity]
    BY DEF SavedClass
  <2> QED
    BY <1>1, <1>2, <2>1, <2>2, <2>3 DEF BookUpdateClass
<1> QED
  BY <1>3, <1>4 DEF CommitClass

LEMMA CommitIsBookStep ==
  ASSUME BookInv, ~HasRowLocks, NEW p \in Requests, Commits(p)
  PROVE  BookNext \/ UNCHANGED bookVars
<1>0. /\ Decided(p) /\ NamedBy(req[p]) /\ req[p] \in Request
      /\ BookTypeOK /\ EnrollmentsHaveParents
  BY DEF BookInv, ParentInv, LockInv, TypeInv, TypeOK
<1>1. CASE EnrollCommit(p)
  BY <1>0, <1>1, EnrollIsBookStep DEF EnrollCommit, At, NamedBy, BookNext
<1>2. CASE CommitEnrollment(p)
  BY <1>0, <1>2, SetStatusIsBookStep DEF CommitEnrollment, NamedBy, Request, BookNext
<1>3. CASE RemoveEnrollment(p)
  <2> DEFINE e == req[p].id
  <2>1. e \in Ids /\ enr[e] # Unborn
    BY <1>0, <1>3 DEF RemoveEnrollment, At, NamedBy, Decided
  <2>2. CASE Exists(enr, e)
    BY <1>3, <2>1, <2>2 DEF RemoveEnrollment, BookRemove, BookNext
  <2>3. CASE ~Exists(enr, e)
    <3>1. enr[e] = Deleted
      BY <1>0, <2>1, <2>3, ExistingRow
    <3>2. enr' = enr
      BY <1>0, <1>3, <2>1, <3>1 DEF RemoveEnrollment, BookTypeOK
    <3> QED
      BY <1>3, <3>2 DEF RemoveEnrollment, bookVars
  <2> QED
    BY <2>2, <2>3
<1>4. CASE CommitClass(p)
  <2>1. req[p].class \in Classes /\ SavedClass(p).capacity \in Capacities
    BY <1>4, ClassSaved DEF BookInv, ParentInv, LockInv, ClassRow
  <2> QED
    BY <1>4, <2>1, ClassCommitIsBookStep DEF BookNext
<1>5. CASE Archive(p)
  <2> DEFINE c == req[p].class
  <2>1. c \in Classes /\ class[c] \in ClassRow
    BY <1>0, <1>5 DEF Archive, At, NamedBy, BookTypeOK
  <2>2. CASE ClassExists(c)
    <3>1. class' = [class EXCEPT ![c] = [class[c] EXCEPT !.status = "archived"]]
      BY <1>5, <2>2 DEF Archive
    <3>2. [class[c] EXCEPT !.status = "archived"]
            = [status |-> "archived", capacity |-> class[c].capacity]
      BY <2>1 DEF ClassRow
    <3>3. BookUpdateClass(c, "archived", class[c].capacity)
      BY <1>5, <2>2, <3>1, <3>2 DEF Archive, BookUpdateClass
    <3> QED
      BY <2>1, <3>3 DEF BookNext, ClassRow
  <2>3. CASE ~ClassExists(c)
    BY <1>5, <2>3 DEF Archive, bookVars
  <2> QED
    BY <2>2, <2>3
<1>6. CASE Create(p)
  BY <1>6 DEF Create, CreateClass, CreateStudent, BookNext, BookCreateClass, BookCreateStudent
<1>7. CASE DeleteStudent(p)
  <2> DEFINE s == req[p].student
  <2>1. s \in Students
    BY <1>0, <1>7 DEF DeleteStudent, At, NamedBy
  <2>2. enr' = [e \in Ids |-> IF Exists(enr, e) /\ enr[e].student = s THEN Deleted ELSE enr[e]]
    BY <1>7 DEF DeleteStudent
  <2>3. CASE s \in student
    BY <1>7, <2>1, <2>2, <2>3 DEF DeleteStudent, BookDeleteStudent, BookNext
  <2>4. CASE s \notin student
    <3>1. enr' = enr
      BY <1>0, <2>2, <2>4 DEF EnrollmentsHaveParents, BookTypeOK
    <3> QED
      BY <1>7, <2>4, <3>1 DEF DeleteStudent, bookVars
  <2> QED
    BY <2>3, <2>4
<1> QED
  BY <1>1, <1>2, <1>3, <1>4, <1>5, <1>6, <1>7 DEF Commits

LEMMA StepIsBookStep ==
  ASSUME ~HasRowLocks PROVE BookInv /\ [Next]_vars => [BookNext]_bookVars
<1> SUFFICES ASSUME BookInv, [Next]_vars PROVE BookNext \/ UNCHANGED bookVars
  OBVIOUS
<1>1. CASE UNCHANGED vars
  BY <1>1 DEF vars, bookVars
<1> QED
  BY <1>1, OnlyCommitsWrite, CommitIsBookStep DEF Next, Step, Quiet

LEMMA InitBookInv == Init => BookInv
<1> SUFFICES ASSUME Init PROVE BookInv
  OBVIOUS
<1>1. \A p \in Requests : Decided(p)
  BY DEF Init, Decided, Idle
<1> QED
  BY <1>1, InitParentInv, BookInitKeeps DEF Init, BookInv

LEMMA NextBookInv == ASSUME ~HasRowLocks PROVE BookInv /\ [Next]_vars => BookInv'
<1> SUFFICES ASSUME BookInv, [Next]_vars PROVE BookInv'
  OBVIOUS
<1>1. SeatInv'
  BY StepIsBookStep, BookNextKeeps DEF BookInv
<1>2. ParentInv'
  BY NextParentInv DEF BookInv
<1>3. CASE UNCHANGED vars
  BY <1>1, <1>2, <1>3, DecisionStands DEF BookInv, vars
<1>4. ASSUME NEW p \in Requests, Step(p) PROVE \A q \in Requests : Decided(q)'
  BY <1>4, OthersStayDecided, OwnDecision, OnlyCommitsWrite, CommitsFinish, FinishIsDecided
  DEF BookInv, ParentInv, LockInv
<1> QED
  BY <1>1, <1>2, <1>3, <1>4 DEF BookInv, Next, Step, Quiet

\* On an engine without row locks the services, with all their interleavings,
\* refusals and failures, behave as the seat book's atomic operations.
THEOREM EnrollmentImplementsSeatBook == ASSUME ~HasRowLocks PROVE Spec => BookSpec
<1>1. Init => BookInit
  BY DEF Init
<1> QED
  BY <1>1, InitBookInv, NextBookInv, StepIsBookStep, PTL DEF Spec, BookSpec

\* "Active enrollments never exceed capacity", on an engine without row locks:
\* enrolling, promoting and resizing never overfill a class.
THEOREM EnrollmentRespectsCapacity == ASSUME ~HasRowLocks PROVE Spec => []CapacityRespected
<1>1. BookInv => CapacityRespected
  BY DEF BookInv, SeatInv
<1> QED
  BY <1>1, InitBookInv, NextBookInv, PTL DEF Spec

\* "At most one open (active|waitlist) enrollment per student and class", on an
\* engine without row locks.
THEOREM EnrollmentOneOpen == ASSUME ~HasRowLocks PROVE Spec => []OneOpenPerStudentAndClass
<1>1. BookInv => OneOpenPerStudentAndClass
  BY DEF BookInv, SeatInv
<1> QED
  BY <1>1, InitBookInv, NextBookInv, PTL DEF Spec
=============================================================================
