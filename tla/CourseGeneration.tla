--------------------------- MODULE CourseGeneration ---------------------------
(***************************************************************************)
(* The generation pipeline: the API handlers of internal/http/courses.go,  *)
(* the rows of courses and generation_tasks, the Redis list                *)
(* generation_queue and the worker processes of internal/worker.           *)
(*                                                                         *)
(* A request r is one POST /courses/generate.  The database draws a fresh  *)
(* UUID for the course and one for the task; r stands for both, and for    *)
(* the message that carries them.  Every database statement and every      *)
(* Redis command is one atomic step; between two of them any other process *)
(* may run, fail or die.                                                   *)
(***************************************************************************)
EXTENDS Naturals, Sequences, FiniteSets, Functions

CONSTANTS
    Requests,       \* generation requests
    Workers,        \* worker processes
    FaultKinds,     \* the kinds of failure that may happen
    MaxFaults,      \* how many failures one behaviour may contain
    NoJob           \* "this worker holds no message"

AllFaultKinds ==
    { "db_error",       \* a statement fails and is not applied
      "db_ambiguous",   \* a statement is applied, its reply is an error
      "redis_error",    \* a command fails and is not applied
      "redis_resend",   \* go-redis sends RPUSH again after losing the reply
      "pop_lost",       \* the connection breaks after BLPOP removed the head
      "redis_restart",  \* Redis comes back without the list
      "api_abort",      \* the API process dies, and every handler with it
      "worker_crash" }  \* a worker process is killed

ASSUME NoJobAssumption == NoJob \notin Requests
ASSUME FaultAssumption == FaultKinds \subseteq AllFaultKinds /\ MaxFaults \in Nat

VARIABLES
    api,        \* how far handleGenerateCourse is with each request
    course,     \* courses.status of each request, or that there is no row
    written,    \* the courses whose content_text is set
    task,       \* generation_tasks.status of each request
    queue,      \* the Redis list generation_queue, head first
    worker,     \* where each worker is in processNext
    job,        \* the message each worker has popped
    faults,     \* failures so far
    resends     \* how many of them were pushes that are sent again

rows == <<course, written, task>>
failures == <<faults, resends>>
vars == <<api, rows, queue, worker, job, failures>>

RowStatuses == {"pending", "processing", "completed"}
ApiStages ==
    {"idle", "course_created", "task_created", "accepted", "failed",
     "orphaned"}    \* the handler died with its push perhaps under way

\* The stage names the last statement of handleGeneration that has been run.
BusyStages == {"popped", "task_processing", "course_processing",
               "content_written", "course_completed"}
WorkerStages == BusyStages \cup {"polling", "backoff", "down"}

TypeOK ==
    /\ api \in [Requests -> ApiStages]
    /\ course \in [Requests -> RowStatuses \cup {"none", "deleted"}]
    /\ task \in [Requests -> RowStatuses \cup {"none", "deleted"}]
    /\ written \subseteq Requests
    /\ queue \in Seq(Requests)
    /\ worker \in [Workers -> WorkerStages]
    /\ job \in [Workers -> Requests \cup {NoJob}]
    /\ faults \in Nat /\ resends \in Nat

Init ==
    /\ api = [r \in Requests |-> "idle"]
    /\ course = [r \in Requests |-> "none"]
    /\ task = [r \in Requests |-> "none"]
    /\ written = {}
    /\ queue = <<>>
    /\ worker = [w \in Workers |-> "polling"]
    /\ job = [w \in Workers |-> NoJob]
    /\ faults = 0 /\ resends = 0

Fault(kind) ==
    /\ kind \in FaultKinds
    /\ faults < MaxFaults
    /\ faults' = faults + 1
    /\ resends' = IF kind = "redis_resend" THEN resends + 1 ELSE resends

-------------------------------------------------------------------------------
(***************************************************************************)
(* The statements of internal/store.  An UPDATE of a row that is gone      *)
(* matches nothing, and none of the callers is told.                       *)
(***************************************************************************)
CourseExists(r) == course[r] \in RowStatuses
TaskExists(r) == task[r] \in RowStatuses

InsertCourse(r) == course' = [course EXCEPT ![r] = "pending"]
InsertTask(r) == task' = [task EXCEPT ![r] = "pending"]

\* Mutant: an upsert.
UpdateCourseStatusUpserts(r, status) ==
    /\ course' = [course EXCEPT ![r] = status]
    /\ UNCHANGED <<written, task>>

UpdateCourseStatus(r, status) ==
    /\ course' = IF CourseExists(r) THEN [course EXCEPT ![r] = status] ELSE course
    /\ UNCHANGED <<written, task>>

UpdateCourseContent(r) ==
    /\ written' = IF CourseExists(r) THEN written \cup {r} ELSE written
    /\ UNCHANGED <<course, task>>

UpdateGenerationStatus(r, status) ==
    /\ task' = IF TaskExists(r) THEN [task EXCEPT ![r] = status] ELSE task
    /\ UNCHANGED <<course, written>>

-------------------------------------------------------------------------------
(***************************************************************************)
(* handleGenerateCourse, one action per call it makes, and                 *)
(* handleDeleteCourse.                                                     *)
(***************************************************************************)
Refuse(r) ==    \* 401 or 400: nothing has been stored
    /\ api[r] = "idle"
    /\ api' = [api EXCEPT ![r] = "failed"]
    /\ UNCHANGED <<rows, queue, worker, job, failures>>

CreateCourse(r) ==
    /\ api[r] = "idle"
    /\ api' = [api EXCEPT ![r] = "course_created"]
    /\ InsertCourse(r)
    /\ UNCHANGED <<written, task, queue, worker, job, failures>>

CreateCourseFails(r) ==
    /\ api[r] = "idle"
    /\ api' = [api EXCEPT ![r] = "failed"]
    /\ \/ Fault("db_error") /\ UNCHANGED course
       \/ Fault("db_ambiguous") /\ InsertCourse(r)
    /\ UNCHANGED <<written, task, queue, worker, job>>

\* generation_tasks.course_id references courses: the insert needs the row.
CreateGenerationTask(r) ==
    /\ api[r] = "course_created"
    /\ CourseExists(r)
    /\ api' = [api EXCEPT ![r] = "task_created"]
    /\ InsertTask(r)
    /\ UNCHANGED <<course, written, queue, worker, job, failures>>

\* The course row stays behind: the two inserts are not one transaction.
CreateGenerationTaskFails(r) ==
    /\ api[r] = "course_created"
    /\ api' = [api EXCEPT ![r] = "failed"]
    /\ \/ ~CourseExists(r) /\ UNCHANGED <<task, failures>>
       \/ Fault("db_error") /\ UNCHANGED task
       \/ Fault("db_ambiguous") /\ CourseExists(r) /\ InsertTask(r)
    /\ UNCHANGED <<course, written, queue, worker, job>>

\* Mutant: a list that is not empty is taken to hold the task already.
EnqueueGenerationOnce(r) ==
    /\ api[r] = "task_created"
    /\ api' = [api EXCEPT ![r] = "accepted"]
    /\ \/ queue' = (IF queue = <<>> THEN <<r>> ELSE queue) /\ UNCHANGED failures
       \/ Fault("redis_error") /\ UNCHANGED queue
    /\ UNCHANGED <<rows, worker, job>>

\* The error of the push is dropped: the answer is 202 either way.
EnqueueGeneration(r) ==
    /\ api[r] = "task_created"
    /\ api' = [api EXCEPT ![r] = "accepted"]
    /\ \/ queue' = Append(queue, r) /\ UNCHANGED failures
       \/ Fault("redis_error") /\ UNCHANGED queue
    /\ UNCHANGED <<rows, worker, job>>

\* RPUSH is applied, its reply is lost, and the client is about to send it again.
PushUnanswered(r) ==
    /\ api[r] = "task_created"
    /\ Fault("redis_resend")
    /\ queue' = Append(queue, r)
    /\ UNCHANGED <<api, rows, worker, job>>

\* One process serves every request: when it dies, all its handlers end where
\* they are.  What they have stored stays.
AbortHandlers ==
    /\ \E r \in Requests : api[r] \in {"course_created", "task_created"}
    /\ Fault("api_abort")
    /\ api' = [r \in Requests |->
                 CASE api[r] = "course_created" -> "failed"
                   [] api[r] = "task_created" -> "orphaned"
                   [] OTHER -> api[r]]
    /\ UNCHANGED <<rows, queue, worker, job>>

\* The RPUSH of a handler that died had been sent, and reaches Redis later.
LatePush(r) ==
    /\ api[r] = "orphaned"
    /\ api' = [api EXCEPT ![r] = "failed"]
    /\ queue' = Append(queue, r)
    /\ UNCHANGED <<rows, worker, job, failures>>

\* ON DELETE CASCADE takes the task row with the course row.
DeleteCourse(r) ==
    /\ CourseExists(r)
    /\ course' = [course EXCEPT ![r] = "deleted"]
    /\ task' = IF TaskExists(r) THEN [task EXCEPT ![r] = "deleted"] ELSE task
    /\ written' = written \ {r}
    /\ UNCHANGED <<api, queue, worker, job, failures>>

-------------------------------------------------------------------------------
(***************************************************************************)
(* The worker: Run, processNext and handleGeneration.                      *)
(***************************************************************************)
Busy(w) == worker[w] \in BusyStages

\* Mutant: LINDEX in place of BLPOP.
PopPeeks(w) ==
    /\ worker[w] = "polling"
    /\ queue # <<>>
    /\ job' = [job EXCEPT ![w] = Head(queue)]
    /\ worker' = [worker EXCEPT ![w] = "popped"]
    /\ UNCHANGED <<api, rows, queue, failures>>

\* BLPOP removes the message: from here on only this process knows it.
Pop(w) ==
    /\ worker[w] = "polling"
    /\ queue # <<>>
    /\ job' = [job EXCEPT ![w] = Head(queue)]
    /\ queue' = Tail(queue)
    /\ worker' = [worker EXCEPT ![w] = "popped"]
    /\ UNCHANGED <<api, rows, failures>>

PopFails(w) ==
    /\ worker[w] = "polling"
    /\ \/ Fault("redis_error")
          /\ worker' = [worker EXCEPT ![w] = "backoff"]
          /\ UNCHANGED queue
       \/ Fault("pop_lost")     \* go-redis sends BLPOP again
          /\ queue # <<>>
          /\ queue' = Tail(queue)
          /\ UNCHANGED worker
    /\ UNCHANGED <<api, rows, job>>

\* The statements of handleGeneration, in order; each leads to its next stage.
\* Mutant: the course is marked before the task.
StartTaskLate(w, next) ==
    /\ worker[w] = "popped" /\ next = "task_processing"
    /\ UpdateCourseStatus(job[w], "processing")

StartTask(w, next) ==
    /\ worker[w] = "popped" /\ next = "task_processing"
    /\ UpdateGenerationStatus(job[w], "processing")

\* Mutant: a generation begins with an empty text.
StartCourseClears(w, next) ==
    /\ worker[w] = "task_processing" /\ next = "course_processing"
    /\ course' = IF CourseExists(job[w]) THEN [course EXCEPT ![job[w]] = "processing"]
                                        ELSE course
    /\ written' = written \ {job[w]}
    /\ UNCHANGED task

StartCourse(w, next) ==
    /\ worker[w] = "task_processing" /\ next = "course_processing"
    /\ UpdateCourseStatus(job[w], "processing")

\* Mutant: the course is marked completed before its text is written.
WriteContentLate(w, next) ==
    /\ worker[w] = "course_processing" /\ next = "content_written"
    /\ UpdateCourseStatus(job[w], "completed")

\* Mutant: a course that has its text is taken for done.
WriteContentOnce(w, next) ==
    /\ worker[w] = "course_processing"
    /\ next = IF job[w] \in written THEN "polling" ELSE "content_written"
    /\ UpdateCourseContent(job[w])

WriteContent(w, next) ==
    /\ worker[w] = "course_processing" /\ next = "content_written"
    /\ UpdateCourseContent(job[w])

\* Mutant: the course is never marked completed.
CompleteCourseForgotten(w, next) ==
    /\ worker[w] = "content_written" /\ next = "course_completed"
    /\ UNCHANGED rows

CompleteCourse(w, next) ==
    /\ worker[w] = "content_written" /\ next = "course_completed"
    /\ UpdateCourseStatus(job[w], "completed")

\* Mutant: the task is never marked completed.
CompleteTaskForgotten(w, next) ==
    /\ worker[w] = "course_completed" /\ next = "polling"
    /\ UNCHANGED rows

CompleteTask(w, next) ==
    /\ worker[w] = "course_completed" /\ next = "polling"
    /\ UpdateGenerationStatus(job[w], "completed")

Statement(w, next) ==
    \/ StartTask(w, next)
    \/ StartCourse(w, next)
    \/ WriteContent(w, next)
    \/ CompleteCourse(w, next)
    \/ CompleteTask(w, next)

Release(w, stage) ==    \* processNext returns: the message is forgotten
    /\ worker' = [worker EXCEPT ![w] = stage]
    /\ job' = [job EXCEPT ![w] = NoJob]

RunStatement(w) ==
    /\ \E next \in WorkerStages :
          /\ Statement(w, next)
          /\ worker' = [worker EXCEPT ![w] = next]
          /\ job' = IF next = "polling" THEN [job EXCEPT ![w] = NoJob] ELSE job
    /\ UNCHANGED <<api, queue, failures>>

\* Mutant: the message is pushed back with its fields empty.
StatementFailsRequeues(w) ==
    /\ Busy(w)
    /\ Fault("db_error") /\ UNCHANGED rows
    /\ queue' = Append(queue, NoJob)
    /\ Release(w, "backoff")
    /\ UNCHANGED api

\* Any error returns from handleGeneration; nothing puts the message back, and
\* no row is given a failed status.
StatementFails(w) ==
    /\ Busy(w)
    /\ \/ Fault("db_error") /\ UNCHANGED rows
       \/ Fault("db_ambiguous") /\ \E next \in WorkerStages : Statement(w, next)
    /\ Release(w, "backoff")
    /\ UNCHANGED <<api, queue>>

\* Mutant: the worker backs off for as long as there is work.
WakeWhenIdle(w) ==
    /\ worker[w] = "backoff"
    /\ queue = <<>>
    /\ worker' = [worker EXCEPT ![w] = "polling"]
    /\ UNCHANGED <<api, rows, queue, job, failures>>

Wake(w) ==      \* after time.Sleep(2 * time.Second)
    /\ worker[w] = "backoff"
    /\ worker' = [worker EXCEPT ![w] = "polling"]
    /\ UNCHANGED <<api, rows, queue, job, failures>>

\* SIGTERM is no better than a kill: main returns without waiting for Run.
Crash(w) ==
    /\ worker[w] # "down"
    /\ Fault("worker_crash")
    /\ Release(w, "down")
    /\ UNCHANGED <<api, rows, queue>>

Restart(w) ==
    /\ worker[w] = "down"
    /\ worker' = [worker EXCEPT ![w] = "polling"]
    /\ UNCHANGED <<api, rows, queue, job, failures>>

RedisRestart ==
    /\ queue # <<>>
    /\ Fault("redis_restart")
    /\ queue' = <<>>
    /\ UNCHANGED <<api, rows, worker, job>>

-------------------------------------------------------------------------------
Handler(r) ==
    \/ CreateGenerationTask(r)
    \/ CreateGenerationTaskFails(r)
    \/ EnqueueGeneration(r)
    \/ PushUnanswered(r)

ApiStep(r) ==
    \/ Refuse(r)
    \/ CreateCourse(r)
    \/ CreateCourseFails(r)
    \/ Handler(r)
    \/ LatePush(r)
    \/ DeleteCourse(r)

WorkerStep(w) == Pop(w) \/ PopFails(w) \/ RunStatement(w) \/ StatementFails(w) \/ Wake(w)

Next ==
    \/ \E r \in Requests : ApiStep(r)
    \/ \E w \in Workers : WorkerStep(w) \/ Crash(w) \/ Restart(w)
    \/ AbortHandlers
    \/ RedisRestart

Spec == Init /\ [][Next]_vars

\* A handler that has begun runs on, and so does a worker that is up: both are
\* goroutines the Go scheduler does not starve, whose calls all return.  No
\* client has to send or to delete anything, and nothing has to be restarted.
Fairness ==
    /\ \A r \in Requests : WF_vars(Handler(r))
    /\ \A w \in Workers : WF_vars(WorkerStep(w))

FairSpec == Spec /\ Fairness

-------------------------------------------------------------------------------
(***************************************************************************)
(* What clients see.                                                       *)
(***************************************************************************)
ContentStatus(r) ==     \* handleCourseContent
    CASE course[r] = "none" -> "absent"
      [] course[r] = "deleted" -> "gone"
      [] course[r] = "completed" /\ r \in written -> "ready"
      [] OTHER -> "pending"

Accepted(r) == api[r] = "accepted"

Queued(r) == r \in Range(queue)
Held(r) == \E w \in Workers : job[w] = r
InHand(r) == Queued(r) \/ Held(r)

-------------------------------------------------------------------------------
(***************************************************************************)
(* Safety.                                                                 *)
(***************************************************************************)

\* A course whose status is completed has its text: the library never lists as
\* finished a course whose content endpoint says pending, whatever fails and
\* however often the message is delivered (worker.go:85 runs before worker.go:94).
CompletedIsPresentable ==
    \A r \in Requests : course[r] = "completed" => r \in written

\* A request answered 202 whose course still exists and is not completed is in
\* the queue or with a worker, but for one request per failure: no interleaving
\* of handlers, workers and deletions drops one, and one failure never costs two
\* (courses.go:80, worker.go:51 and 77-97).  With faults = 0: none is lost.
Unfinished(r) == course[r] \in {"pending", "processing"}
Lost == {r \in Requests : Accepted(r) /\ Unfinished(r) /\ ~InHand(r)}
OneLossPerFailure == Cardinality(Lost) <= faults

\* A message is in one place only: no two workers, and no worker and the queue,
\* hold the same request (BLPOP hands each element to one client).
SingleCarrier ==
    /\ IsInjective(queue)
    /\ \A r \in Requests : ~(Queued(r) /\ Held(r))
    /\ \A v, w \in Workers : job[v] = job[w] /\ job[v] # NoJob => v = w

\* The two status columns tell one story, which GET /courses/{id}/status and an
\* operator reading generation_tasks can rely on: a task that has not started
\* has an untouched course, a course under way has a started task, a finished
\* task has a finished course, and the two rows are deleted together.
StatusesAgree ==
    \A r \in Requests :
        /\ task[r] = "pending" => course[r] = "pending"
        /\ course[r] \in {"processing", "completed"} => task[r] \in {"processing", "completed"}
        /\ task[r] = "completed" => course[r] = "completed"
        /\ task[r] = "deleted" => course[r] = "deleted"
        /\ course[r] = "deleted" => task[r] \in {"none", "deleted"}

\* A served text stays in its row until the owner deletes the course, and the
\* only thing that hides it meanwhile is a worker that holds the message once
\* more and will mark the course completed again, or a failure of that worker
\* (worker.go:80 sets processing unconditionally, also for a second delivery).
ServedTextStays ==
    [][\A r \in Requests :
          ContentStatus(r) = "ready" =>
              \/ ContentStatus(r)' \in {"ready", "gone"}
              \/ r \in written' /\ (Held(r)' \/ faults' = faults + 1)]_vars

\* A worker that still holds the message of a deleted course neither brings the
\* course back nor leaves its text or its task behind (worker.go:77-97 run on
\* rows that are gone).
DeletedStaysDeleted ==
    [][\A r \in Requests :
          course[r] = "deleted" =>
              /\ course'[r] = "deleted"
              /\ task'[r] = task[r]
              /\ r \notin written']_vars

-------------------------------------------------------------------------------
(***************************************************************************)
(* The promise of CourseService.                                           *)
(***************************************************************************)
Service == INSTANCE CourseService WITH
    phase <- [r \in Requests |-> ContentStatus(r)],
    promised <- {r \in Requests : Accepted(r)}

\* Every behaviour with single delivery is one of CourseService's, whatever
\* else fails: no failure makes a course ready early, unready or undeleted.
ImplementsService == Service!Spec

OnlyResends == [](faults = resends)

\* As long as nothing worse happens than a push that is sent twice, the promise
\* is kept too: a request answered 202 whose course is not deleted is served.
KeepsItsPromises == OnlyResends => Service!PromisesAreKept

\* A message in the queue is eventually taken out of it, unless every worker is
\* dead: one whose statement failed sleeps and polls again (worker.go:42-44).
QueueDrains ==
    \A r \in Requests :
        Queued(r) ~> ~Queued(r) \/ \A w \in Workers : worker[w] = "down"

\* As long as no statement fails and no worker dies, the task row catches up
\* with the course it generated (worker.go:97 runs after the course is ready).
TaskFollowsCourse ==
    OnlyResends =>
        \A r \in Requests :
            course[r] = "completed" ~> task[r] \in {"completed", "deleted"}

\* A message delivered twice does no lasting harm by itself: the course may fall
\* back to processing while the second copy is handled, but from some moment on
\* it is completed for good (every run of handleGeneration ends at worker.go:94).
RedeliveryConverges ==
    OnlyResends =>
        \A r \in Requests :
            Accepted(r) ~> [](course[r] \in {"completed", "deleted"})

\* README.md, step 3: the worker takes the task and writes the full text.  Said
\* of every request that was answered 202 and not deleted.
AcceptedIsWritten ==
    \A r \in Requests :
        Accepted(r) ~> course[r] \in {"completed", "deleted"}

-------------------------------------------------------------------------------
(***************************************************************************)
(* Why safety holds: the inductive invariants that CourseGenerationProofs  *)
(* proves.  Inv holds whatever fails; DeliveryInv also needs each message  *)
(* to be pushed once.                                                      *)
(***************************************************************************)
HoldsWhileBusy == \A w \in Workers : Busy(w) <=> job[w] # NoJob

RowsFollowHandler ==
    \A r \in Requests :
        /\ api[r] = "idle" => course[r] = "none"
        /\ api[r] \in {"idle", "course_created"} => task[r] = "none"
        /\ api[r] \in {"course_created", "task_created", "orphaned", "accepted"} =>
               course[r] # "none"
        /\ api[r] \in {"task_created", "orphaned", "accepted"} => task[r] # "none"

RowsFitTogether ==
    \A r \in Requests :
        /\ course[r] = "none" => task[r] = "none"
        /\ course[r] = "deleted" => task[r] \in {"none", "deleted"}
        /\ task[r] = "deleted" => course[r] = "deleted"
        /\ r \in written => CourseExists(r)

\* A message is about a task that was inserted before the push.
InHandAfterInsert ==
    \A r \in Requests :
        InHand(r) =>
            /\ api[r] \in {"task_created", "orphaned", "accepted", "failed"}
            /\ task[r] # "none"

WrittenBeforeCompleted ==
    \A w \in Workers :
        worker[w] = "content_written" /\ CourseExists(job[w]) => job[w] \in written

Inv ==
    /\ TypeOK
    /\ HoldsWhileBusy
    /\ RowsFollowHandler
    /\ RowsFitTogether
    /\ InHandAfterInsert
    /\ WrittenBeforeCompleted
    /\ CompletedIsPresentable

\* The rows of a request before its message is taken up.
Untouched(r) == CourseExists(r) => course[r] = "pending" /\ task[r] \in {"none", "pending"}

UntouchedUntilPopped ==
    \A r \in Requests :
        api[r] \in {"course_created", "task_created", "orphaned"} \/ Queued(r) => Untouched(r)

PushedOnce == \A r \in Requests : api[r] \in {"task_created", "orphaned"} => ~InHand(r)

\* The rows of the request a worker holds, by the worker's stage.
RowsFollowStage ==
    \A w \in Workers :
        Busy(w) /\ CourseExists(job[w]) =>
            /\ worker[w] = "popped" => Untouched(job[w])
            /\ worker[w] # "popped" => task[job[w]] = "processing"
            /\ worker[w] = "task_processing" => course[job[w]] = "pending"
            /\ worker[w] \in {"course_processing", "content_written"} =>
                   course[job[w]] = "processing"
            /\ worker[w] = "course_completed" => course[job[w]] = "completed"

DeliveryInv ==
    /\ Inv
    /\ SingleCarrier
    /\ PushedOnce
    /\ UntouchedUntilPopped
    /\ RowsFollowStage
    /\ StatusesAgree
===============================================================================
