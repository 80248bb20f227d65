---------------------------- MODULE CourseService ----------------------------
(***************************************************************************)
(* What the course API promises its clients, with no queue and no worker.  *)
(* GET /courses/{id}/content (courses.go handleCourseContent) shows a      *)
(* course in one of four phases:                                           *)
(*                                                                         *)
(*   absent     no such course yet: the answer is 404                      *)
(*   pending    the course exists, its text is not ready                   *)
(*   ready      the text is served                                         *)
(*   gone       the owner has deleted the course: 404 again                *)
(*                                                                         *)
(* A course is never unready again, a deleted course never comes back, and *)
(* a request that was answered 202 is eventually served.                   *)
(***************************************************************************)

CONSTANT Requests   \* generation requests; each one names the course it creates

VARIABLES
    phase,          \* what the content endpoint shows of each course
    promised        \* the requests answered 202 Accepted

vars == <<phase, promised>>

Phases == {"absent", "pending", "ready", "gone"}

TypeOK ==
    /\ phase \in [Requests -> Phases]
    /\ promised \subseteq Requests

Init ==
    /\ phase = [r \in Requests |-> "absent"]
    /\ promised = {}

Create(r) ==
    /\ phase[r] = "absent"
    /\ phase' = [phase EXCEPT ![r] = "pending"]
    /\ UNCHANGED promised

\* The 202 may reach the client before or after the text is ready, and even
\* after a deletion; it is never sent for a course that was not created.
Promise(r) ==
    /\ r \notin promised
    /\ phase[r] # "absent"
    /\ promised' = promised \cup {r}
    /\ UNCHANGED phase

Finish(r) ==
    /\ phase[r] = "pending"
    /\ phase' = [phase EXCEPT ![r] = "ready"]
    /\ UNCHANGED promised

Delete(r) ==
    /\ phase[r] \in {"pending", "ready"}
    /\ phase' = [phase EXCEPT ![r] = "gone"]
    /\ UNCHANGED promised

Next == \E r \in Requests : Create(r) \/ Promise(r) \/ Finish(r) \/ Delete(r)

Spec == Init /\ [][Next]_vars

KeptPromise(r) == r \in promised /\ Finish(r)

PromisesAreKept == \A r \in Requests : WF_vars(KeptPromise(r))

FairSpec == Spec /\ PromisesAreKept
==============================================================================
