------------------------------- MODULE Scope -------------------------------
(***************************************************************************)
(* Which students and sessions an account reaches (domains/auth/scope.ts): *)
(* a permission opens a capability, the assignment of a teacher narrows    *)
(* it.  An actor is its role, its permissions and the teacher or student   *)
(* it is linked to, Unlinked if none.                                      *)
(***************************************************************************)
CONSTANT Unlinked

Holds(actor, permission) == permission \in actor.permissions
IsLinkedTeacher(actor) == actor.role = "teacher" /\ actor.teacher # Unlinked

isAssignedStudent(t, s, classes, enrollments) ==
    \E e \in enrollments : e.student = s /\ e.status = "active" /\ \E c \in classes : c.id = e.class /\ c.teacher = t
assignedStudentIdsForTeacher(t, classes, enrollments) ==
    {s \in {e.student : e \in enrollments} : isAssignedStudent(t, s, classes, enrollments)}

canReadStudent(actor, s, classes, enrollments) ==
    /\ Holds(actor, "students.read")
    /\ IF IsLinkedTeacher(actor) THEN isAssignedStudent(actor.teacher, s, classes, enrollments)
       ELSE actor.role \in {"administrator", "manager", "staff", "accountant", "teacher"} \/ actor.student = s
canWriteStudent(actor, s, classes, enrollments) ==
    /\ Holds(actor, "students.write")
    /\ IsLinkedTeacher(actor) => isAssignedStudent(actor.teacher, s, classes, enrollments)
(* A session of another teacher is out of reach even for a student of      *)
(* one's own.                                                              *)
canWriteAttendance(actor, s, session, classes, enrollments) ==
    /\ Holds(actor, "attendance.write")
    /\ \/ actor.role \in {"administrator", "manager"}
       \/ /\ IsLinkedTeacher(actor) /\ session.teacher = actor.teacher
          /\ isAssignedStudent(actor.teacher, s, classes, enrollments)
=============================================================================
