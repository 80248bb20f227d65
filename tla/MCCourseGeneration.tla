-------------------------- MODULE MCCourseGeneration --------------------------
(***************************************************************************)
(* Small instances of CourseGeneration for TLC.                            *)
(***************************************************************************)
EXTENDS CourseGeneration, TLC

CONSTANTS r1, r2, r3, w1, w2

TwoRequests == {r1, r2}
ThreeRequests == {r1, r2, r3}
OneRequest == {r1}
TwoWorkers == {w1, w2}
OneWorker == {w1}

\* Requests are interchangeable, and so are workers.  Only the runs that check
\* no temporal property use it.
Symmetry == Permutations(Requests) \cup Permutations(Workers)

\* Everything that can fail while each push is delivered at most once and the
\* list is not wiped.
SingleDeliveryFaults == AllFaultKinds \ {"redis_resend", "redis_restart"}

LosingErrors == {"redis_error", "db_error"}
===============================================================================
