----------------------------- MODULE MCEnrollment -----------------------------
(* Enrollment for TLC: symmetric sets of requests, students, classes, ids. *)
EXTENDS Enrollment, TLC

MCSymmetry ==
  Permutations(Requests) \cup Permutations(Students)
    \cup Permutations(Classes) \cup Permutations(Ids)
=============================================================================
