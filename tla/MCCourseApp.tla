----------------------------- MODULE MCCourseApp -----------------------------
(***************************************************************************)
(* Small instances of CourseApp for TLC.                                   *)
(***************************************************************************)
EXTENDS CourseApp

CONSTANTS c1, c2, l1, l2, p1

OneCourse == {c1}
TwoCourses == {c1, c2}
TwoLoads == {l1, l2}
OnePoll == {p1}
==============================================================================
