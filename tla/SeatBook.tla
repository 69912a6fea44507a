------------------------------- MODULE SeatBook -------------------------------
(***************************************************************************)
(* What the enrollment and class services promise, as if every write were  *)
(* one atomic step on the committed rows: seats, waiting lists and the     *)
(* rows they belong to.  Enrollment shows which engine keeps the promise.  *)
(***************************************************************************)
EXTENDS Naturals, FiniteSets

CONSTANTS Classes, Students,
          Ids,             \* enrollment ids
          ClosedStatuses,  \* completed and cancelled (one is enough for small runs)
          MaxCapacity      \* bound on a class's capacity (the API allows 500)

VARIABLES class,     \* committed class rows
          student,   \* committed student rows
          enr        \* committed enrollment rows

bookVars == <<class, student, enr>>

ASSUME SeatBookAssumption ==
  /\ IsFiniteSet(Ids)
  /\ MaxCapacity \in Nat \ {0}
  /\ ClosedStatuses \subseteq {"completed", "cancelled"} /\ "cancelled" \in ClosedStatuses

OpenStatuses == {"active", "waitlist"}
Statuses == OpenStatuses \cup ClosedStatuses
Capacities == 1..MaxCapacity

\* `unborn' and `deleted' rows are not in their table; no id is used twice.
ClassRow == [status : {"unborn", "active", "archived", "deleted"}, capacity : Capacities]
Row == [status : Statuses, student : Students, class : Classes]
Unborn == [status |-> "unborn"]
Deleted == [status |-> "deleted"]

BookTypeOK ==
  /\ class \in [Classes -> ClassRow]
  /\ student \subseteq Students
  /\ enr \in [Ids -> Row \cup {Unborn, Deleted}]

ClassExists(c) == class[c].status \in {"active", "archived"}

\* Queries on enrollment rows: present, taking a seat of c, open for s in c.
Exists(rows, e) == rows[e].status \in Statuses
Active(rows, c) == {e \in Ids : rows[e].status = "active" /\ rows[e].class = c}
Open(rows, s, c) ==
  {e \in Ids : rows[e].status \in OpenStatuses /\ rows[e].class = c /\ rows[e].student = s}

(***************************************************************************)
(* The promises                                                            *)
(***************************************************************************)

\* "Active enrollments never exceed capacity" (EnrollmentService): no
\* interleaving of enrolling, promoting and resizing overfills a class.
CapacityRespected ==
  \A c \in Classes : Cardinality(Active(enr, c)) <= class[c].capacity

\* "At most one open (active|waitlist) enrollment per student and class".
OneOpenPerStudentAndClass ==
  \A s \in Students, c \in Classes : \A d, e \in Open(enr, s, c) : d = e

\* Every enrollment's student and class still exist, although both may be
\* deleted while the enrollment is being written.
EnrollmentsHaveParents ==
  \A e \in Ids : Exists(enr, e) => enr[e].student \in student /\ ClassExists(enr[e].class)

(***************************************************************************)
(* The atomic operations                                                   *)
(***************************************************************************)

SeatIn(c) == Cardinality(Active(enr, c)) < class[c].capacity

BookEnroll(e, s, c, status) ==
  /\ enr[e] = Unborn
  /\ s \in student /\ class[c].status = "active"
  /\ Open(enr, s, c) = {}
  /\ status = "active" => SeatIn(c)
  /\ enr' = [enr EXCEPT ![e] = [status |-> status, student |-> s, class |-> c]]
  /\ UNCHANGED <<class, student>>

\* Reopening needs the student to have no other open enrollment in the class,
\* and becoming active needs a seat; withdrawing sets "cancelled".
BookSetStatus(e, next) ==
  /\ Exists(enr, e)
  /\ enr[e].status \notin OpenStatuses /\ next \in OpenStatuses
       => Open(enr, enr[e].student, enr[e].class) = {}
  /\ enr[e].status # "active" /\ next = "active" => SeatIn(enr[e].class)
  /\ enr' = [enr EXCEPT ![e].status = next]
  /\ UNCHANGED <<class, student>>

BookRemove(e) ==
  /\ Exists(enr, e)
  /\ enr' = [enr EXCEPT ![e] = Deleted]
  /\ UNCHANGED <<class, student>>

BookCreateClass(c, k) ==
  /\ class[c].status = "unborn"
  /\ class' = [class EXCEPT ![c] = [status |-> "active", capacity |-> k]]
  /\ UNCHANGED <<student, enr>>

BookUpdateClass(c, status, k) ==
  /\ ClassExists(c)
  /\ k # class[c].capacity => Cardinality(Active(enr, c)) <= k
  /\ class' = [class EXCEPT ![c] = [status |-> status, capacity |-> k]]
  /\ UNCHANGED <<student, enr>>

BookDeleteClass(c) ==
  /\ ClassExists(c)
  /\ \A e \in Ids : Exists(enr, e) => enr[e].class # c
  /\ class' = [class EXCEPT ![c].status = "deleted"]
  /\ UNCHANGED <<student, enr>>

BookCreateStudent(s) ==
  /\ student' = student \cup {s}
  /\ UNCHANGED <<class, enr>>

BookDeleteStudent(s) ==
  /\ s \in student
  /\ student' = student \ {s}
  /\ enr' = [e \in Ids |-> IF Exists(enr, e) /\ enr[e].student = s THEN Deleted ELSE enr[e]]
  /\ UNCHANGED class

\* Any history of the service led to some state that keeps the promises.
BookInit ==
  /\ class \in [Classes -> [status : {"unborn", "active", "archived"}, capacity : Capacities]]
  /\ student \in SUBSET Students
  /\ enr \in [Ids -> Row \cup {Unborn}]
  /\ CapacityRespected /\ OneOpenPerStudentAndClass /\ EnrollmentsHaveParents

BookNext ==
  \/ \E e \in Ids, s \in Students, c \in Classes, status \in OpenStatuses :
       BookEnroll(e, s, c, status)
  \/ \E e \in Ids : BookRemove(e) \/ \E next \in Statuses : BookSetStatus(e, next)
  \/ \E c \in Classes, k \in Capacities :
       BookCreateClass(c, k) \/ \E status \in {"active", "archived"} : BookUpdateClass(c, status, k)
  \/ \E c \in Classes : BookDeleteClass(c)
  \/ \E s \in Students : BookCreateStudent(s) \/ BookDeleteStudent(s)

BookSpec == BookInit /\ [][BookNext]_bookVars
=============================================================================
