------------------------ MODULE CourseGenerationProofs ------------------------
(***************************************************************************)
(* Theorems about CourseGeneration, for any sets of requests and workers   *)
(* and any number of failures.                                             *)
(***************************************************************************)
EXTENDS CourseGeneration, FiniteSetTheorems, TLAPS

\* A step that leaves the failures alone leaves both counts alone.
USE DEF failures

(***************************************************************************)
(* Sequences, as far as the queue needs them.                              *)
(***************************************************************************)

\* RPUSH adds its message to those in the list, and no other.
LEMMA AppendRange ==
    ASSUME NEW S, NEW q \in Seq(S), NEW x \in S
    PROVE  /\ Append(q, x) \in Seq(S)
           /\ Range(Append(q, x)) = Range(q) \cup {x}
<1>1. Append(q, x) \in Seq(S) /\ Len(Append(q, x)) = Len(q) + 1
  OBVIOUS
<1>2. \A i \in 1 .. Len(q) : Append(q, x)[i] = q[i]
  OBVIOUS
<1>3. Append(q, x)[Len(q) + 1] = x
  OBVIOUS
<1>4. DOMAIN q = 1 .. Len(q) /\ DOMAIN Append(q, x) = 1 .. Len(q) + 1 /\ Len(q) \in Nat
  BY <1>1
<1> QED
  BY <1>1, <1>2, <1>3, <1>4 DEF Range

\* Pushing a message the list does not hold leaves no message twice in it.
LEMMA AppendInjective ==
    ASSUME NEW S, NEW q \in Seq(S), NEW x \in S, IsInjective(q), x \notin Range(q)
    PROVE  IsInjective(Append(q, x))
<1>1. \A i \in 1 .. Len(q) : Append(q, x)[i] = q[i] /\ q[i] # x
  BY DEF Range
<1>2. Append(q, x)[Len(q) + 1] = x
  OBVIOUS
<1>3. DOMAIN q = 1 .. Len(q) /\ DOMAIN Append(q, x) = 1 .. Len(q) + 1 /\ Len(q) \in Nat
  OBVIOUS
<1> QED
  BY <1>1, <1>2, <1>3 DEF IsInjective

\* BLPOP splits the messages of the list into the one handed out and the rest.
LEMMA HeadTail ==
    ASSUME NEW S, NEW q \in Seq(S), q # <<>>
    PROVE  /\ Head(q) \in S
           /\ Tail(q) \in Seq(S)
           /\ Range(q) = Range(Tail(q)) \cup {Head(q)}
<1>1. Len(q) \in Nat \ {0} /\ DOMAIN q = 1 .. Len(q) /\ Head(q) = q[1]
  OBVIOUS
<1>2. Tail(q) \in Seq(S) /\ Len(Tail(q)) = Len(q) - 1
  OBVIOUS
<1>3. \A i \in 1 .. Len(q) - 1 : Tail(q)[i] = q[i + 1]
  OBVIOUS
<1>4. Head(q) \in S
  BY <1>1
<1>5. Range(Tail(q)) \subseteq Range(q)
  BY <1>1, <1>2, <1>3 DEF Range
<1>6. Head(q) \in Range(q)
  BY <1>1 DEF Range
<1>7. ASSUME NEW i \in 1 .. Len(q) PROVE q[i] \in Range(Tail(q)) \cup {Head(q)}
  <2>1. CASE i = 1
    BY <1>1, <2>1
  <2>2. CASE i # 1
    <3>1. i - 1 \in 1 .. Len(q) - 1 /\ (i - 1) + 1 = i
      BY <1>1, <2>2
    <3>2. Tail(q)[i - 1] = q[i]
      BY <1>3, <3>1
    <3>3. i - 1 \in DOMAIN Tail(q)
      BY <1>2, <3>1
    <3> QED
      BY <3>2, <3>3 DEF Range
  <2> QED
    BY <2>1, <2>2
<1> QED
  BY <1>1, <1>2, <1>4, <1>5, <1>6, <1>7 DEF Range

\* If the list holds no message twice, the one handed out is not in the rest.
LEMMA TailInjective ==
    ASSUME NEW S, NEW q \in Seq(S), q # <<>>, IsInjective(q)
    PROVE  IsInjective(Tail(q)) /\ Head(q) \notin Range(Tail(q))
<1>1. Len(q) \in Nat \ {0} /\ DOMAIN q = 1 .. Len(q) /\ Head(q) = q[1]
  OBVIOUS
<1>2. DOMAIN Tail(q) = 1 .. Len(q) - 1
  OBVIOUS
<1>3. \A i \in 1 .. Len(q) - 1 : Tail(q)[i] = q[i + 1]
  OBVIOUS
<1>4. \A i \in 1 .. Len(q) - 1 : i + 1 \in 1 .. Len(q) /\ i + 1 # 1
  BY <1>1
<1>5. \A i, j \in 1 .. Len(q) - 1 : i + 1 = j + 1 => i = j
  BY <1>1
<1> QED
  BY <1>1, <1>2, <1>3, <1>4, <1>5 DEF IsInjective, Range

\* The empty list holds nothing.
LEMMA EmptyQueue ==
    ASSUME NEW S
    PROVE  <<>> \in Seq(S) /\ Range(<<>>) = {} /\ IsInjective(<<>>)
BY DEF Range, IsInjective

-------------------------------------------------------------------------------
\* The initial state is well typed.
LEMMA InitType == Init => TypeOK
BY EmptyQueue, FaultAssumption DEF Init, TypeOK, ApiStages, WorkerStages, RowStatuses

\* A busy worker holds a request, and each statement keeps the rows well typed.
LEMMA StatementType ==
    ASSUME TypeOK, HoldsWhileBusy, NEW w \in Workers,
           NEW next \in WorkerStages, Statement(w, next)
    PROVE  /\ Busy(w) /\ job[w] \in Requests
           /\ next = "polling" \/ next \in BusyStages
           /\ course' \in [Requests -> RowStatuses \cup {"none", "deleted"}]
           /\ task' \in [Requests -> RowStatuses \cup {"none", "deleted"}]
           /\ written' \subseteq Requests
<1>1. Busy(w) /\ (next = "polling" \/ next \in BusyStages)
  BY DEF Statement, StartTask, StartCourse, WriteContent, CompleteCourse,
         CompleteTask, Busy, BusyStages
<1>2. job[w] \in Requests
  BY <1>1 DEF TypeOK, HoldsWhileBusy
<1>3. CASE StartTask(w, next) \/ CompleteTask(w, next)
  BY <1>1, <1>2, <1>3 DEF TypeOK, StartTask, CompleteTask, UpdateGenerationStatus, RowStatuses
<1>4. CASE StartCourse(w, next) \/ CompleteCourse(w, next)
  BY <1>1, <1>2, <1>4 DEF TypeOK, StartCourse, CompleteCourse, UpdateCourseStatus, RowStatuses
<1>5. CASE WriteContent(w, next)
  BY <1>1, <1>2, <1>5 DEF TypeOK, WriteContent, UpdateCourseContent
<1> QED
  BY <1>3, <1>4, <1>5 DEF Statement

-------------------------------------------------------------------------------
\* No message, no row and no held job: Inv holds at the start.
LEMMA InitInv == Init => Inv
BY InitType, EmptyQueue, NoJobAssumption
   DEF Init, Inv, HoldsWhileBusy, RowsFollowHandler, RowsFitTogether, InHandAfterInsert,
       WrittenBeforeCompleted, CompletedIsPresentable, Busy, BusyStages, InHand, Queued,
       Held, CourseExists, RowStatuses

\* No step of the API, a deletion included, breaks Inv.
LEMMA ApiStepInv ==
    ASSUME Inv, NEW r \in Requests, ApiStep(r)
    PROVE  Inv'
<1> USE DEF Inv, TypeOK, HoldsWhileBusy, RowsFollowHandler, RowsFitTogether,
            InHandAfterInsert, WrittenBeforeCompleted, CompletedIsPresentable,
            InHand, Queued, Held, Busy, CourseExists, RowStatuses, ApiStages, Fault
<1>1. CASE Refuse(r)
  BY <1>1, AppendRange, NoJobAssumption DEF Refuse, rows
<1>2. CASE CreateCourse(r)
  BY <1>2, AppendRange, NoJobAssumption DEF CreateCourse, rows, InsertCourse
<1>3. CASE CreateCourseFails(r)
  <2>1. CASE UNCHANGED course
    BY <1>3, <2>1 DEF CreateCourseFails, rows
  <2>2. CASE InsertCourse(r)
    BY <1>3, <2>2 DEF CreateCourseFails, InsertCourse
  <2> QED
    BY <1>3, <2>1, <2>2 DEF CreateCourseFails
<1>4. CASE CreateGenerationTask(r)
  BY <1>4, AppendRange, NoJobAssumption DEF CreateGenerationTask, rows, InsertTask
<1>5. CASE CreateGenerationTaskFails(r)
  BY <1>5, AppendRange, NoJobAssumption DEF CreateGenerationTaskFails, rows, InsertTask
<1>6. CASE EnqueueGeneration(r)
  <2>1. CASE UNCHANGED queue
    BY <1>6, <2>1 DEF EnqueueGeneration, rows
  <2>2. CASE queue' = Append(queue, r)
    BY <1>6, <2>2, AppendRange DEF EnqueueGeneration, rows
  <2> QED
    BY <1>6, <2>1, <2>2 DEF EnqueueGeneration
<1>7. CASE PushUnanswered(r)
  BY <1>7, AppendRange, NoJobAssumption DEF PushUnanswered, rows
<1>8. CASE LatePush(r)
  BY <1>8, AppendRange DEF LatePush, rows
<1>9. CASE DeleteCourse(r)
  BY <1>9, AppendRange, NoJobAssumption DEF DeleteCourse, rows, TaskExists
<1> QED
  BY <1>1, <1>2, <1>3, <1>4, <1>5, <1>6, <1>7, <1>8, <1>9 DEF ApiStep, Handler

\* The death of the API process leaves rows, queue and workers as they are, and
\* no handler that was inside is inside any more.
LEMMA AbortChanges ==
    ASSUME TypeOK, AbortHandlers
    PROVE  /\ UNCHANGED <<rows, queue, worker, job, resends>> /\ faults' = faults + 1
           /\ api' \in [Requests -> ApiStages]
           /\ \A r \in Requests :
                 \/ api[r] = "course_created" /\ api'[r] = "failed"
                 \/ api[r] = "task_created" /\ api'[r] = "orphaned"
                 \/ api[r] \notin {"course_created", "task_created"} /\ api'[r] = api[r]
BY DEF TypeOK, AbortHandlers, Fault, ApiStages

\* It keeps Inv.
LEMMA AbortInv ==
    ASSUME Inv, AbortHandlers
    PROVE  Inv'
<1>1. TypeOK'
  BY AbortChanges DEF Inv, TypeOK, rows
<1>2. RowsFollowHandler' /\ InHandAfterInsert'
  BY AbortChanges DEF Inv, RowsFollowHandler, InHandAfterInsert, InHand, Queued, Held, rows
<1> QED
  BY <1>1, <1>2, AbortChanges
     DEF Inv, HoldsWhileBusy, RowsFitTogether, WrittenBeforeCompleted, CompletedIsPresentable,
         Busy, CourseExists, rows

\* What every statement of a worker does to the rows of every request.
LEMMA StatementRows ==
    ASSUME Inv, NEW w \in Workers, NEW next \in WorkerStages, Statement(w, next)
    PROVE  \A r \in Requests :
              /\ course'[r] = "none" <=> course[r] = "none"
              /\ course'[r] = "deleted" <=> course[r] = "deleted"
              /\ task'[r] = "none" <=> task[r] = "none"
              /\ task'[r] = "deleted" <=> task[r] = "deleted"
              /\ r \in written => r \in written'
              /\ r \in written' => r \in written \/ CourseExists(r)
              /\ course'[r] = "completed" => r \in written'
<1>1. job[w] \in Requests
  BY StatementType DEF Inv
<1> USE DEF Inv, TypeOK, RowStatuses
<1>2. CASE StartTask(w, next) \/ CompleteTask(w, next)
  BY <1>1, <1>2 DEF StartTask, CompleteTask, UpdateGenerationStatus, TaskExists,
                    CompletedIsPresentable
<1>3. CASE StartCourse(w, next)
  BY <1>1, <1>3 DEF StartCourse, UpdateCourseStatus, CourseExists, CompletedIsPresentable
<1>4. CASE WriteContent(w, next)
  BY <1>1, <1>4 DEF WriteContent, UpdateCourseContent, CourseExists, CompletedIsPresentable
<1>5. CASE CompleteCourse(w, next)
  BY <1>1, <1>5 DEF CompleteCourse, UpdateCourseStatus, CourseExists,
                    CompletedIsPresentable, WrittenBeforeCompleted
<1> QED
  BY <1>2, <1>3, <1>4, <1>5 DEF Statement

\* A statement, followed by the worker's advance or by its release.
LEMMA StatementInv ==
    ASSUME Inv, NEW w \in Workers, NEW next \in WorkerStages, Statement(w, next),
           UNCHANGED <<api, queue>>, faults' \in Nat, resends' \in Nat,
           \/ /\ next # "polling"
              /\ worker' = [worker EXCEPT ![w] = next]
              /\ job' = job
           \/ \E stage \in {"polling", "backoff"} : Release(w, stage)
    PROVE  Inv'
<1>1. /\ Busy(w) /\ job[w] \in Requests
      /\ next = "polling" \/ next \in BusyStages
      /\ course' \in [Requests -> RowStatuses \cup {"none", "deleted"}]
      /\ task' \in [Requests -> RowStatuses \cup {"none", "deleted"}]
      /\ written' \subseteq Requests
  BY StatementType DEF Inv
<1>2. TypeOK'
  BY <1>1 DEF Inv, TypeOK, Release, WorkerStages
<1>3. HoldsWhileBusy'
  BY <1>1, NoJobAssumption DEF Inv, TypeOK, HoldsWhileBusy, Busy, Release, BusyStages
<1>4. RowsFollowHandler'
  BY <1>1, <1>2, StatementRows DEF Inv, RowsFollowHandler
<1>5. RowsFitTogether'
  BY <1>1, <1>2, StatementRows DEF Inv, TypeOK, RowsFitTogether, CourseExists, RowStatuses
<1>6. \A r \in Requests : InHand(r)' => InHand(r)
  BY <1>1, NoJobAssumption DEF Inv, TypeOK, InHand, Queued, Held, Release
<1>7. InHandAfterInsert'
  BY <1>6, StatementRows DEF Inv, InHandAfterInsert
<1>8. WrittenBeforeCompleted'
  <2> SUFFICES ASSUME NEW v \in Workers, worker'[v] = "content_written",
                      CourseExists(job[v])'
               PROVE  job'[v] \in written'
    BY DEF WrittenBeforeCompleted
  <2>1. job'[v] = job[v] /\ job[v] \in Requests
    BY <1>1, <1>3, NoJobAssumption DEF Inv, TypeOK, HoldsWhileBusy, Busy, BusyStages, Release
  <2>2. CourseExists(job[v])
    BY <2>1, <1>2, StatementRows DEF Inv, TypeOK, CourseExists, RowStatuses
  <2>3. CASE worker[v] = "content_written"
    BY <2>1, <2>2, <2>3, StatementRows DEF Inv, WrittenBeforeCompleted
  <2>4. CASE worker[v] # "content_written"
    <3>1. v = w /\ WriteContent(w, next)
      BY <2>4 DEF Inv, TypeOK, Release, Statement, StartTask, StartCourse, CompleteCourse, CompleteTask
    <3> QED
      BY <3>1, <2>1, <2>2 DEF WriteContent, UpdateCourseContent
  <2> QED
    BY <2>3, <2>4
<1>9. CompletedIsPresentable'
  BY StatementRows DEF CompletedIsPresentable
<1> QED
  BY <1>2, <1>3, <1>4, <1>5, <1>7, <1>8, <1>9 DEF Inv

\* No step of a worker breaks Inv, whether its call succeeds or fails.
LEMMA WorkerStepInv ==
    ASSUME Inv, NEW w \in Workers, WorkerStep(w) \/ Crash(w) \/ Restart(w)
    PROVE  Inv'
<1>1. CASE Pop(w)
  BY <1>1, HeadTail, NoJobAssumption
     DEF Pop, rows, Inv, TypeOK, HoldsWhileBusy, RowsFollowHandler, RowsFitTogether,
         InHandAfterInsert, WrittenBeforeCompleted, CompletedIsPresentable,
         InHand, Queued, Held, Busy, BusyStages, WorkerStages, CourseExists
<1>2. CASE PopFails(w)
  <2>1. CASE UNCHANGED queue
    BY <1>2, <2>1, NoJobAssumption
       DEF PopFails, Fault, rows, Inv, TypeOK, HoldsWhileBusy, RowsFollowHandler,
           RowsFitTogether, InHandAfterInsert, WrittenBeforeCompleted, CompletedIsPresentable,
           InHand, Queued, Held, Busy, BusyStages, WorkerStages, CourseExists
  <2>2. CASE queue # <<>> /\ queue' = Tail(queue) /\ UNCHANGED worker
    BY <1>2, <2>2, HeadTail
       DEF PopFails, Fault, rows, Inv, TypeOK, HoldsWhileBusy, RowsFollowHandler,
           RowsFitTogether, InHandAfterInsert, WrittenBeforeCompleted, CompletedIsPresentable,
           InHand, Queued, Held, Busy, BusyStages, WorkerStages, CourseExists
  <2> QED
    BY <1>2, <2>1, <2>2 DEF PopFails
<1>3. CASE RunStatement(w)
  <2>1. PICK next \in WorkerStages :
          /\ Statement(w, next)
          /\ worker' = [worker EXCEPT ![w] = next]
          /\ job' = IF next = "polling" THEN [job EXCEPT ![w] = NoJob] ELSE job
    BY <1>3 DEF RunStatement
  <2> QED
    BY <1>3, <2>1, StatementInv DEF RunStatement, Release, Inv, TypeOK
<1>4. CASE StatementFails(w)
  <2>1. CASE UNCHANGED rows
    BY <1>4, <2>1, NoJobAssumption
       DEF StatementFails, Release, Fault, rows, Inv, TypeOK, HoldsWhileBusy, RowsFollowHandler,
           RowsFitTogether, InHandAfterInsert, WrittenBeforeCompleted, CompletedIsPresentable,
           InHand, Queued, Held, Busy, BusyStages, WorkerStages, CourseExists
  <2>2. CASE \E next \in WorkerStages : Statement(w, next)
    BY <1>4, <2>2, StatementInv DEF StatementFails, Fault, Inv, TypeOK
  <2> QED
    BY <1>4, <2>1, <2>2 DEF StatementFails
<1>5. CASE Wake(w) \/ Restart(w)
  BY <1>5, NoJobAssumption
     DEF Wake, Restart, rows, Inv, TypeOK, HoldsWhileBusy, RowsFollowHandler, RowsFitTogether,
         InHandAfterInsert, WrittenBeforeCompleted, CompletedIsPresentable,
         InHand, Queued, Held, Busy, BusyStages, WorkerStages, CourseExists
<1>6. CASE Crash(w)
  BY <1>6, NoJobAssumption
     DEF Crash, Release, Fault, rows, Inv, TypeOK, HoldsWhileBusy, RowsFollowHandler,
         RowsFitTogether, InHandAfterInsert, WrittenBeforeCompleted, CompletedIsPresentable,
         InHand, Queued, Held, Busy, BusyStages, WorkerStages, CourseExists
<1> QED
  BY <1>1, <1>2, <1>3, <1>4, <1>5, <1>6 DEF WorkerStep

\* Inv is inductive.
LEMMA NextInv == Inv /\ [Next]_vars => Inv'
<1> SUFFICES ASSUME Inv, [Next]_vars PROVE Inv'
  OBVIOUS
<1>1. CASE \E r \in Requests : ApiStep(r)
  BY <1>1, ApiStepInv
<1>2. CASE \E w \in Workers : WorkerStep(w) \/ Crash(w) \/ Restart(w)
  BY <1>2, WorkerStepInv
<1>3. CASE RedisRestart
  BY <1>3, EmptyQueue
     DEF RedisRestart, Fault, rows, Inv, TypeOK, HoldsWhileBusy, RowsFollowHandler,
         RowsFitTogether, InHandAfterInsert, WrittenBeforeCompleted, CompletedIsPresentable,
         InHand, Queued, Held, Busy, CourseExists
<1>4. CASE UNCHANGED vars
  BY <1>4
     DEF vars, rows, Inv, TypeOK, HoldsWhileBusy, RowsFollowHandler, RowsFitTogether,
         InHandAfterInsert, WrittenBeforeCompleted, CompletedIsPresentable,
         InHand, Queued, Held, Busy, CourseExists
<1> QED
  BY <1>1, <1>2, <1>3, <1>4, AbortInv DEF Next

\* Inv is an invariant of every behaviour, whatever fails.
THEOREM Invariance == Spec => []Inv
BY InitInv, NextInv, PTL DEF Spec

\* Every variable keeps its type: in particular no worker ever runs a statement
\* without a message, and the rows only take statuses the code writes.
THEOREM TypeCorrectness == Spec => []TypeOK
<1>1. Inv => TypeOK
  BY DEF Inv
<1> QED
  BY <1>1, Invariance, PTL

\* A course listed as completed has its text, under every failure, every
\* interleaving and every number of deliveries of its message.
THEOREM Presentability == Spec => []CompletedIsPresentable
<1>1. Inv => CompletedIsPresentable
  BY DEF Inv
<1> QED
  BY <1>1, Invariance, PTL

\* A step that finds a course deleted leaves it, its text and its task deleted.
LEMMA NextKeepsDeleted ==
    ASSUME Inv, [Next]_vars, NEW r \in Requests, course[r] = "deleted"
    PROVE  course'[r] = "deleted" /\ task'[r] = task[r] /\ r \notin written'
<1>1. /\ api[r] # "idle" /\ ~CourseExists(r) /\ ~TaskExists(r) /\ r \notin written
      /\ course \in [Requests -> RowStatuses \cup {"none", "deleted"}]
      /\ task \in [Requests -> RowStatuses \cup {"none", "deleted"}]
  BY DEF Inv, TypeOK, RowsFollowHandler, RowsFitTogether, CourseExists, TaskExists, RowStatuses
<1>2. CASE UNCHANGED rows
  BY <1>1, <1>2 DEF rows
<1>3. CASE \E q \in Requests : ApiStep(q)
  <2>1. PICK q \in Requests : ApiStep(q)
    BY <1>3
  <2>2. CASE Refuse(q) \/ EnqueueGeneration(q) \/ PushUnanswered(q) \/ LatePush(q)
    BY <2>2, <1>2 DEF Refuse, EnqueueGeneration, PushUnanswered, LatePush
  <2>3. CASE CreateCourse(q) \/ CreateCourseFails(q)
    BY <2>3, <1>1 DEF CreateCourse, CreateCourseFails, InsertCourse
  <2>4. CASE CreateGenerationTask(q) \/ CreateGenerationTaskFails(q)
    BY <2>4, <1>1 DEF CreateGenerationTask, CreateGenerationTaskFails, InsertTask
  <2>5. CASE DeleteCourse(q)
    BY <2>5, <1>1 DEF DeleteCourse
  <2> QED
    BY <2>1, <2>2, <2>3, <2>4, <2>5 DEF ApiStep, Handler
<1>4. ASSUME NEW w \in Workers, NEW next \in WorkerStages, Statement(w, next)
      PROVE  course'[r] = "deleted" /\ task'[r] = task[r] /\ r \notin written'
  BY <1>1, <1>4
     DEF Statement, StartTask, StartCourse, WriteContent, CompleteCourse, CompleteTask,
         UpdateCourseStatus, UpdateCourseContent, UpdateGenerationStatus
<1>5. CASE \E w \in Workers : WorkerStep(w) \/ Crash(w) \/ Restart(w)
  BY <1>2, <1>4, <1>5
     DEF WorkerStep, Pop, PopFails, RunStatement, StatementFails, Wake, Crash, Restart
<1> QED
  BY <1>2, <1>3, <1>5 DEF Next, AbortHandlers, RedisRestart, vars

\* Deletion is final: no late statement of a worker and no late insert of the
\* handler brings a course, its text or its task back.
THEOREM DeletionIsFinal == Spec => DeletedStaysDeleted
<1>1. Inv /\ [Next]_vars =>
        [\A r \in Requests :
            course[r] = "deleted" =>
                /\ course'[r] = "deleted"
                /\ task'[r] = task[r]
                /\ r \notin written']_vars
  BY NextKeepsDeleted
<1> QED
  BY <1>1, Invariance, PTL DEF Spec, DeletedStaysDeleted

\* A statement falls back only for the course its worker works on, whose message
\* it keeps.
LEMMA StatementFallsBack ==
    ASSUME Inv, NEW w \in Workers, NEW next \in WorkerStages, Statement(w, next),
           NEW r \in Requests, ContentStatus(r) = "ready"
    PROVE  /\ r \in written'
           /\ ContentStatus(r)' = "ready" \/ (job[w] = r /\ next # "polling")
<1> USE DEF ContentStatus
<1>1. course[r] = "completed" /\ r \in written /\ r \in written'
  BY StatementRows
<1>2. job[w] \in Requests /\ course \in [Requests -> RowStatuses \cup {"none", "deleted"}]
  BY StatementType DEF Inv, TypeOK
<1>3. CASE StartCourse(w, next)
  BY <1>1, <1>2, <1>3 DEF StartCourse, UpdateCourseStatus
<1>4. CASE ~StartCourse(w, next)
  <2>1. course'[r] = "completed"
    BY <1>1, <1>2, <1>4
       DEF Statement, StartTask, WriteContent, CompleteCourse, CompleteTask,
           UpdateGenerationStatus, UpdateCourseContent, UpdateCourseStatus
  <2> QED
    BY <1>1, <2>1
<1> QED
  BY <1>3, <1>4

\* Whatever fails, and however often a message is delivered, no step makes a
\* served text unavailable without deleting the course, holding its message, or
\* failing; and none takes the text out of its row (worker.go:80-97).
THEOREM ServedTextIsKept == Spec => ServedTextStays
<1>1. Inv /\ [Next]_vars =>
        [\A r \in Requests :
            ContentStatus(r) = "ready" =>
                \/ ContentStatus(r)' \in {"ready", "gone"}
                \/ r \in written' /\ (Held(r)' \/ faults' = faults + 1)]_vars
  <2> SUFFICES ASSUME Inv, Next, NEW r \in Requests, ContentStatus(r) = "ready"
               PROVE  \/ ContentStatus(r)' \in {"ready", "gone"}
                      \/ r \in written' /\ (Held(r)' \/ faults' = faults + 1)
    OBVIOUS
  <2>1. CASE UNCHANGED rows
    BY <2>1 DEF rows, ContentStatus
  <2>2. ASSUME NEW q \in Requests, ApiStep(q)
        PROVE  ContentStatus(r)' \in {"ready", "gone"}
    <3>1. /\ course[r] = "completed" /\ r \in written
          /\ course \in [Requests -> RowStatuses \cup {"none", "deleted"}]
      BY DEF ContentStatus, Inv, TypeOK
    <3>2. CASE UNCHANGED <<course, written>>
      BY <3>1, <3>2 DEF ContentStatus
    <3>3. CASE CreateCourse(q) \/ CreateCourseFails(q)
      BY <3>1, <3>3 DEF CreateCourse, CreateCourseFails, InsertCourse, ContentStatus, Inv,
                        RowsFollowHandler
    <3>4. CASE DeleteCourse(q)
      BY <3>1, <3>4 DEF DeleteCourse, ContentStatus
    <3> QED
      BY <2>2, <3>2, <3>3, <3>4
         DEF ApiStep, Handler, Refuse, CreateGenerationTask, CreateGenerationTaskFails,
             EnqueueGeneration, PushUnanswered, LatePush, rows
  <2>3. ASSUME NEW w \in Workers, RunStatement(w) \/ StatementFails(w)
        PROVE  \/ ContentStatus(r)' \in {"ready", "gone"}
               \/ r \in written' /\ (Held(r)' \/ faults' = faults + 1)
    <3>1. CASE RunStatement(w)
      <4>1. PICK next \in WorkerStages :
              /\ Statement(w, next)
              /\ job' = IF next = "polling" THEN [job EXCEPT ![w] = NoJob] ELSE job
        BY <3>1 DEF RunStatement
      <4> QED
        BY <4>1, StatementFallsBack DEF Held
    <3>2. CASE StatementFails(w)
      <4>1. faults' = faults + 1
        BY <3>2 DEF StatementFails, Fault
      <4>2. UNCHANGED rows \/ \E next \in WorkerStages : Statement(w, next)
        BY <3>2 DEF StatementFails
      <4> QED
        BY <2>1, <4>1, <4>2, StatementFallsBack
    <3> QED
      BY <2>3, <3>1, <3>2
  <2>4. ASSUME NEW w \in Workers, WorkerStep(w) \/ Crash(w) \/ Restart(w)
        PROVE  UNCHANGED rows \/ RunStatement(w) \/ StatementFails(w)
    BY <2>4 DEF WorkerStep, Pop, PopFails, Wake, Crash, Restart
  <2> QED
    BY <2>1, <2>2, <2>3, <2>4 DEF Next, AbortHandlers, RedisRestart
<1> QED
  BY <1>1, Invariance, PTL DEF Spec, ServedTextStays

-------------------------------------------------------------------------------
(***************************************************************************)
(* One delivery per message.                                               *)
(***************************************************************************)
SingleDelivery == "redis_resend" \notin FaultKinds

\* A step that is no first half of a resent push.
SentOnce == \A r \in Requests : ~PushUnanswered(r)

\* Without the fault no step is one.
LEMMA SingleDeliverySendsOnce == SingleDelivery => SentOnce
BY DEF SingleDelivery, SentOnce, PushUnanswered, Fault

\* DeliveryInv holds at the start.
LEMMA InitDelivery == Init => DeliveryInv
BY InitInv, EmptyQueue, NoJobAssumption
   DEF Init, DeliveryInv, SingleCarrier, PushedOnce, UntouchedUntilPopped, Untouched,
       RowsFollowStage, StatusesAgree, Busy, BusyStages, InHand, Queued, Held, CourseExists,
       RowStatuses

\* A handler that pushes each message once keeps DeliveryInv.
LEMMA ApiStepDelivery ==
    ASSUME SentOnce, DeliveryInv, Inv', NEW r \in Requests, ApiStep(r)
    PROVE  DeliveryInv'
<1> USE DEF Inv, TypeOK, HoldsWhileBusy, RowsFollowHandler, RowsFitTogether,
            InHandAfterInsert, DeliveryInv, SingleCarrier, PushedOnce,
            UntouchedUntilPopped, Untouched, RowsFollowStage, StatusesAgree,
            InHand, Queued, Held, Busy, CourseExists, RowStatuses
<1>1. CASE Refuse(r)
  BY <1>1 DEF Refuse, rows
<1>2. CASE CreateCourse(r) \/ CreateCourseFails(r)
  <2>1. CASE UNCHANGED course
    BY <1>2, <2>1 DEF CreateCourse, CreateCourseFails
  <2>2. CASE InsertCourse(r)
    BY <1>2, <2>2 DEF CreateCourse, CreateCourseFails, InsertCourse
  <2> QED
    BY <1>2, <2>1, <2>2 DEF CreateCourse, CreateCourseFails
<1>3. CASE CreateGenerationTask(r) \/ CreateGenerationTaskFails(r)
  <2>1. CASE UNCHANGED task
    BY <1>3, <2>1 DEF CreateGenerationTask, CreateGenerationTaskFails
  <2>2. CASE CourseExists(r) /\ InsertTask(r)
    BY <1>3, <2>2 DEF CreateGenerationTask, CreateGenerationTaskFails, InsertTask
  <2> QED
    BY <1>3, <2>1, <2>2 DEF CreateGenerationTask, CreateGenerationTaskFails
<1>4. CASE EnqueueGeneration(r) \/ LatePush(r)
  <2>1. CASE UNCHANGED queue
    BY <1>4, <2>1 DEF EnqueueGeneration, LatePush, rows
  <2>2. CASE api[r] \in {"task_created", "orphaned"} /\ queue' = Append(queue, r)
    <3>1. Range(queue') = Range(queue) \cup {r} /\ IsInjective(queue')
      BY <2>2, AppendRange, AppendInjective
    <3> QED
      BY <1>4, <2>2, <3>1 DEF EnqueueGeneration, LatePush, rows
  <2> QED
    BY <1>4, <2>1, <2>2 DEF EnqueueGeneration, LatePush
<1>5. CASE DeleteCourse(r)
  BY <1>5 DEF DeleteCourse, TaskExists
<1>6. ~PushUnanswered(r)
  BY DEF SentOnce
<1> QED
  BY <1>1, <1>2, <1>3, <1>4, <1>5, <1>6 DEF ApiStep, Handler

\* What a statement does to the rows of the request its worker holds, by stage;
\* every other request keeps its rows.
LEMMA StatementDelivery ==
    ASSUME DeliveryInv, NEW w \in Workers, NEW next \in WorkerStages, Statement(w, next)
    PROVE  /\ \A r \in Requests \ {job[w]} : course'[r] = course[r] /\ task'[r] = task[r]
           /\ CourseExists(job[w]) =>
                 \/ /\ worker[w] = "popped" /\ next = "task_processing"
                    /\ course'[job[w]] = "pending" /\ task'[job[w]] = "processing"
                 \/ /\ worker[w] = "task_processing" /\ next = "course_processing"
                    /\ course'[job[w]] = "processing" /\ task'[job[w]] = "processing"
                 \/ /\ worker[w] = "course_processing" /\ next = "content_written"
                    /\ course'[job[w]] = "processing" /\ task'[job[w]] = "processing"
                 \/ /\ worker[w] = "content_written" /\ next = "course_completed"
                    /\ course'[job[w]] = "completed" /\ task'[job[w]] = "processing"
                 \/ /\ worker[w] = "course_completed" /\ next = "polling"
                    /\ course'[job[w]] = "completed" /\ task'[job[w]] = "completed"
           /\ ~CourseExists(job[w]) =>
                 course'[job[w]] = course[job[w]] /\ task'[job[w]] = task[job[w]]
<1>1. Busy(w) /\ job[w] \in Requests
  BY StatementType DEF DeliveryInv, Inv
<1>2. InHand(job[w])
  BY <1>1 DEF InHand, Held
<1>3. task[job[w]] # "none"
  BY <1>1, <1>2 DEF DeliveryInv, Inv, InHandAfterInsert
<1>4. CourseExists(job[w]) => TaskExists(job[w])
  BY <1>1, <1>3 DEF DeliveryInv, Inv, TypeOK, RowsFitTogether, CourseExists, TaskExists, RowStatuses
<1>5. ~CourseExists(job[w]) => ~TaskExists(job[w])
  BY <1>1 DEF DeliveryInv, Inv, TypeOK, RowsFitTogether, CourseExists, TaskExists, RowStatuses
<1>6. CourseExists(job[w]) =>
        /\ worker[w] = "popped" => course[job[w]] = "pending"
        /\ worker[w] # "popped" => task[job[w]] = "processing"
        /\ worker[w] = "task_processing" => course[job[w]] = "pending"
        /\ worker[w] \in {"course_processing", "content_written"} =>
               course[job[w]] = "processing"
        /\ worker[w] = "course_completed" => course[job[w]] = "completed"
  BY <1>1 DEF DeliveryInv, RowsFollowStage, Untouched
<1> USE DEF DeliveryInv, Inv, TypeOK
<1>7. CASE StartTask(w, next) \/ CompleteTask(w, next)
  BY <1>1, <1>4, <1>5, <1>6, <1>7 DEF StartTask, CompleteTask, UpdateGenerationStatus
<1>8. CASE StartCourse(w, next) \/ CompleteCourse(w, next)
  BY <1>1, <1>6, <1>8 DEF StartCourse, CompleteCourse, UpdateCourseStatus
<1>9. CASE WriteContent(w, next)
  BY <1>1, <1>6, <1>9 DEF WriteContent, UpdateCourseContent
<1> QED
  BY <1>7, <1>8, <1>9 DEF Statement

\* A statement, followed by the advance or the release of its worker, keeps
\* DeliveryInv.
LEMMA StatementKeepsDelivery ==
    ASSUME DeliveryInv, Inv', NEW w \in Workers, NEW next \in WorkerStages,
           Statement(w, next), UNCHANGED <<api, queue>>,
           \/ /\ next # "polling"
              /\ worker' = [worker EXCEPT ![w] = next]
              /\ job' = job
           \/ \E stage \in {"polling", "backoff"} : Release(w, stage)
    PROVE  DeliveryInv'
<1>1. Busy(w) /\ job[w] \in Requests /\ (next = "polling" \/ next \in BusyStages)
  BY StatementType DEF DeliveryInv, Inv
<1>2. \A v \in Workers : v # w => job'[v] = job[v] /\ worker'[v] = worker[v]
  BY DEF Release, DeliveryInv, Inv, TypeOK
<1>3. job'[w] \in {job[w], NoJob}
  BY DEF Release, DeliveryInv, Inv, TypeOK
<1>4. \A r \in Requests : InHand(r)' => InHand(r)
  BY <1>1, <1>2, <1>3, NoJobAssumption DEF InHand, Queued, Held
<1>5. SingleCarrier'
  <2>1. \A r \in Requests : Held(r)' => Held(r)
    BY <1>1, <1>2, <1>3, NoJobAssumption DEF Held
  <2> QED
    BY <2>1, <1>1, <1>2, <1>3 DEF DeliveryInv, SingleCarrier, Queued
<1>6. PushedOnce'
  BY <1>4 DEF DeliveryInv, PushedOnce
<1>7. ~Queued(job[w]) /\ \A v \in Workers : v # w => job[v] # job[w]
  BY <1>1, NoJobAssumption DEF DeliveryInv, SingleCarrier, Held
<1>8. \A r \in Requests \ {job[w]} : course'[r] = course[r] /\ task'[r] = task[r]
  BY StatementDelivery
<1>9. UntouchedUntilPopped'
  <2>1. api[job[w]] \notin {"course_created", "task_created", "orphaned"}
    BY <1>1 DEF DeliveryInv, Inv, InHandAfterInsert, PushedOnce, InHand, Held
  <2> QED
    BY <1>7, <1>8, <2>1 DEF DeliveryInv, UntouchedUntilPopped, Untouched, Queued, CourseExists
<1>10. RowsFollowStage'
  <2> SUFFICES ASSUME NEW v \in Workers, Busy(v)', CourseExists(job[v])'
               PROVE  /\ worker'[v] = "popped" => Untouched(job[v])'
                      /\ worker'[v] # "popped" => task'[job'[v]] = "processing"
                      /\ worker'[v] = "task_processing" => course'[job'[v]] = "pending"
                      /\ worker'[v] \in {"course_processing", "content_written"} =>
                             course'[job'[v]] = "processing"
                      /\ worker'[v] = "course_completed" => course'[job'[v]] = "completed"
    BY DEF RowsFollowStage
  <2>1. CASE v # w
    <3>1. job[v] \in Requests \ {job[w]} /\ Busy(v)
      BY <2>1, <1>2, <1>7, NoJobAssumption DEF DeliveryInv, Inv, TypeOK, HoldsWhileBusy, Busy
    <3> QED
      BY <2>1, <3>1, <1>2, <1>8
         DEF DeliveryInv, RowsFollowStage, Untouched, CourseExists, Busy
  <2>2. CASE v = w
    <3>1. next # "polling" /\ worker'[w] = next /\ job' = job
      BY <2>2, <1>1 DEF Release, DeliveryInv, Inv, TypeOK, Busy, BusyStages
    <3>2. CASE CourseExists(job[w])
      BY <2>2, <3>1, <3>2, StatementDelivery
    <3>3. CASE ~CourseExists(job[w])
      BY <2>2, <3>1, <3>3, StatementDelivery DEF CourseExists
    <3> QED
      BY <3>2, <3>3
  <2> QED
    BY <2>1, <2>2
<1>11. StatusesAgree'
  <2>1. CASE CourseExists(job[w])
    BY <1>1, <1>8, <2>1, StatementDelivery DEF DeliveryInv, StatusesAgree
  <2>2. CASE ~CourseExists(job[w])
    BY <1>1, <1>8, <2>2, StatementDelivery DEF DeliveryInv, StatusesAgree
  <2> QED
    BY <2>1, <2>2
<1> QED
  BY <1>5, <1>6, <1>9, <1>10, <1>11 DEF DeliveryInv

\* No step of a worker breaks DeliveryInv.
LEMMA WorkerStepDelivery ==
    ASSUME DeliveryInv, Inv', NEW w \in Workers, WorkerStep(w) \/ Crash(w) \/ Restart(w)
    PROVE  DeliveryInv'
<1>1. CASE Pop(w)
  <2>1. /\ Head(queue) \in Requests /\ Range(queue) = Range(queue') \cup {Head(queue)}
        /\ IsInjective(queue') /\ Head(queue) \notin Range(queue')
    BY <1>1, HeadTail, TailInjective DEF Pop, DeliveryInv, Inv, TypeOK, SingleCarrier
  <2> QED
    BY <1>1, <2>1, NoJobAssumption
       DEF Pop, rows, DeliveryInv, Inv, TypeOK, HoldsWhileBusy, SingleCarrier, PushedOnce,
           UntouchedUntilPopped, Untouched, RowsFollowStage, StatusesAgree,
           InHand, Queued, Held, Busy, BusyStages, CourseExists
<1>2. CASE PopFails(w) /\ queue # <<>> /\ queue' = Tail(queue)
  <2>1. Range(queue') \subseteq Range(queue) /\ IsInjective(queue')
    BY <1>2, HeadTail, TailInjective DEF DeliveryInv, Inv, TypeOK, SingleCarrier
  <2> QED
    BY <1>2, <2>1
       DEF PopFails, rows, DeliveryInv, Inv, TypeOK, HoldsWhileBusy, SingleCarrier, PushedOnce,
           UntouchedUntilPopped, Untouched, RowsFollowStage, StatusesAgree,
           InHand, Queued, Held, Busy, BusyStages, CourseExists
<1>3. CASE RunStatement(w)
  BY <1>3, StatementKeepsDelivery DEF RunStatement, Release
<1>4. CASE StatementFails(w) /\ \E next \in WorkerStages : Statement(w, next)
  BY <1>4, StatementKeepsDelivery DEF StatementFails
<1>5. CASE UNCHANGED <<api, rows, queue, job>> /\
           (PopFails(w) \/ Wake(w) \/ Restart(w))
  BY <1>5
     DEF PopFails, Wake, Restart, rows, DeliveryInv, Inv, TypeOK, HoldsWhileBusy,
         SingleCarrier, PushedOnce, UntouchedUntilPopped, Untouched, RowsFollowStage,
         StatusesAgree, InHand, Queued, Held, Busy, BusyStages, CourseExists
<1>6. CASE UNCHANGED <<api, rows, queue>> /\ \E stage \in {"backoff", "down"} : Release(w, stage)
  BY <1>6, NoJobAssumption
     DEF Release, rows, DeliveryInv, Inv, TypeOK, HoldsWhileBusy,
         SingleCarrier, PushedOnce, UntouchedUntilPopped, Untouched, RowsFollowStage,
         StatusesAgree, InHand, Queued, Held, Busy, BusyStages, CourseExists
<1> QED
  BY <1>1, <1>2, <1>3, <1>4, <1>5, <1>6
     DEF WorkerStep, PopFails, StatementFails, Wake, Crash, Restart, rows

\* A step that resends no push keeps DeliveryInv.
LEMMA NextDelivery ==
    ASSUME SentOnce, DeliveryInv, [Next]_vars
    PROVE  DeliveryInv'
<1>1. Inv'
  BY NextInv DEF DeliveryInv
<1>2. CASE \E r \in Requests : ApiStep(r)
  BY <1>1, <1>2, ApiStepDelivery
<1>3. CASE \E w \in Workers : WorkerStep(w) \/ Crash(w) \/ Restart(w)
  BY <1>1, <1>3, WorkerStepDelivery
<1>4. CASE RedisRestart
  BY <1>1, <1>4, EmptyQueue
     DEF RedisRestart, rows, DeliveryInv, SingleCarrier, PushedOnce, UntouchedUntilPopped,
         Untouched, RowsFollowStage, StatusesAgree, InHand, Queued, Held, Busy, CourseExists
<1>5. CASE UNCHANGED vars
  BY <1>1, <1>5
     DEF vars, rows, DeliveryInv, SingleCarrier, PushedOnce, UntouchedUntilPopped,
         Untouched, RowsFollowStage, StatusesAgree, InHand, Queued, Held, Busy, CourseExists
<1>6. CASE AbortHandlers
  BY <1>1, <1>6, AbortChanges
     DEF rows, DeliveryInv, Inv, SingleCarrier, PushedOnce, UntouchedUntilPopped,
         Untouched, RowsFollowStage, StatusesAgree, InHand, Queued, Held, Busy, CourseExists
<1> QED
  BY <1>2, <1>3, <1>4, <1>5, <1>6 DEF Next

\* DeliveryInv is an invariant of every behaviour without resent pushes.
THEOREM DeliveryInvariance ==
    ASSUME SingleDelivery
    PROVE  Spec => []DeliveryInv
<1>1. DeliveryInv /\ [Next]_vars => DeliveryInv'
  BY NextDelivery, SingleDeliverySendsOnce
<1> QED
  BY <1>1, InitDelivery, PTL DEF Spec

\* Without resent pushes no message is ever in two places, whatever else fails.
THEOREM OneCarrier ==
    ASSUME SingleDelivery
    PROVE  Spec => []SingleCarrier
<1>1. DeliveryInv => SingleCarrier
  BY DEF DeliveryInv
<1> QED
  BY <1>1, DeliveryInvariance, PTL

\* Without resent pushes the status of the course and that of its task agree in
\* every state, however many workers and failures there are.
THEOREM Agreement ==
    ASSUME SingleDelivery
    PROVE  Spec => []StatusesAgree
<1>1. DeliveryInv => StatusesAgree
  BY DEF DeliveryInv
<1> QED
  BY <1>1, DeliveryInvariance, PTL

-------------------------------------------------------------------------------
(***************************************************************************)
(* Losses.                                                                 *)
(***************************************************************************)

\* The requests that are still in work: queued, or with a worker that will yet
\* mark the course completed.
InWork(r) == Queued(r) \/ \E w \in Workers : job[w] = r /\ worker[w] # "course_completed"

\* An accepted, unfinished request that is not in work: what Lost counts, and the
\* requests of workers that run their last statement for a course which another
\* delivery of the same message has started again.
Stranded == {r \in Requests : Accepted(r) /\ Unfinished(r) /\ ~InWork(r)}

\* A request that nobody has is stranded.
LEMMA LostIsStranded == Lost \subseteq Stranded
BY DEF Lost, Stranded, InHand, InWork, Held

\* A statement un-finishes no course but the one its worker goes on with; the
\* last but one finishes its course.
LEMMA StatementFinishes ==
    ASSUME Inv, NEW w \in Workers, NEW next \in WorkerStages, Statement(w, next)
    PROVE  /\ job[w] \in Requests
           /\ \A r \in Requests \ {job[w]} : Unfinished(r)' => Unfinished(r)
           /\ next = "course_completed" => course'[job[w]] \notin {"pending", "processing"}
           /\ next = "polling" => worker[w] = "course_completed"
           /\ worker[w] = "course_completed" => UNCHANGED course
<1>1. job[w] \in Requests
  BY StatementType DEF Inv
<1> USE DEF Inv, TypeOK, Unfinished
<1>2. CASE StartTask(w, next) \/ CompleteTask(w, next)
  BY <1>1, <1>2 DEF StartTask, CompleteTask, UpdateGenerationStatus
<1>3. CASE StartCourse(w, next)
  BY <1>1, <1>3 DEF StartCourse, UpdateCourseStatus
<1>4. CASE WriteContent(w, next)
  BY <1>1, <1>4 DEF WriteContent, UpdateCourseContent
<1>5. CASE CompleteCourse(w, next)
  BY <1>1, <1>5 DEF CompleteCourse, UpdateCourseStatus, CourseExists, RowStatuses
<1> QED
  BY <1>2, <1>3, <1>4, <1>5 DEF Statement

\* How a step may change the set of stranded requests.
StrandsNone == Stranded' \subseteq Stranded /\ faults' \in {faults, faults + 1}
StrandsOne ==
    /\ \E r \in Requests : Stranded' \subseteq Stranded \cup {r}
    /\ faults' = faults + 1

\* A step of a handler strands its own request, if the push fails, or none.
LEMMA ApiStepStrands ==
    ASSUME Inv, NEW r \in Requests, ApiStep(r)
    PROVE  StrandsNone \/ StrandsOne
<1> USE DEF Inv, TypeOK, Stranded, Accepted, Unfinished, InWork, Queued, StrandsNone, StrandsOne
<1>1. CASE Refuse(r)
  BY <1>1 DEF Refuse, rows
<1>2. CASE CreateCourse(r) \/ CreateCourseFails(r)
  BY <1>2 DEF CreateCourse, CreateCourseFails, InsertCourse, Fault
<1>3. CASE CreateGenerationTask(r) \/ CreateGenerationTaskFails(r)
  BY <1>3 DEF CreateGenerationTask, CreateGenerationTaskFails, Fault
<1>4. CASE queue' = Append(queue, r) /\
           (EnqueueGeneration(r) \/ PushUnanswered(r) \/ LatePush(r))
  <2>1. Range(queue') = Range(queue) \cup {r}
    BY <1>4, AppendRange
  <2> QED
    BY <1>4, <2>1 DEF EnqueueGeneration, PushUnanswered, LatePush, rows, Fault
<1>5. CASE EnqueueGeneration(r) /\ UNCHANGED queue /\ faults' = faults + 1
  BY <1>5 DEF EnqueueGeneration, rows
<1>6. CASE DeleteCourse(r)
  BY <1>6 DEF DeleteCourse
<1> QED
  BY <1>1, <1>2, <1>3, <1>4, <1>5, <1>6
     DEF ApiStep, Handler, EnqueueGeneration, PushUnanswered, LatePush, Fault

\* A step of a worker strands the request it held, or the one it failed to pop,
\* and only by failing.
LEMMA WorkerStepStrands ==
    ASSUME Inv, NEW w \in Workers, WorkerStep(w) \/ Crash(w) \/ Restart(w)
    PROVE  StrandsNone \/ StrandsOne
<1> USE DEF Inv, TypeOK, Stranded, Accepted, Unfinished, InWork, Queued, StrandsNone, StrandsOne
<1>1. CASE Pop(w)
  <2>1. Range(queue) = Range(queue') \cup {Head(queue)} /\ Head(queue) \in Requests
    BY <1>1, HeadTail DEF Pop
  <2>2. job[w] = NoJob /\ job'[w] = Head(queue) /\ worker'[w] = "popped"
    BY <1>1 DEF Pop, HoldsWhileBusy, Busy, BusyStages
  <2>3. \A v \in Workers \ {w} : job'[v] = job[v] /\ worker'[v] = worker[v]
    BY <1>1 DEF Pop
  <2>4. \A r \in Requests : InWork(r) => InWork(r)'
    BY <2>1, <2>2, <2>3, NoJobAssumption
  <2> QED
    BY <1>1, <2>4 DEF Pop, rows
<1>2. CASE PopFails(w)
  <2>1. UNCHANGED <<api, rows, job>> /\ faults' = faults + 1
    BY <1>2 DEF PopFails, Fault
  <2>2. CASE worker[w] = "polling" /\ worker' = [worker EXCEPT ![w] = "backoff"] /\ UNCHANGED queue
    BY <2>1, <2>2 DEF rows
  <2>3. CASE queue # <<>> /\ queue' = Tail(queue) /\ UNCHANGED worker
    <3>1. Range(queue) = Range(queue') \cup {Head(queue)} /\ Head(queue) \in Requests
      BY <2>3, HeadTail
    <3> QED
      BY <2>1, <2>3, <3>1 DEF rows
  <2> QED
    BY <1>2, <2>2, <2>3 DEF PopFails
<1>3. ASSUME NEW next \in WorkerStages, Statement(w, next)
      PROVE  /\ job[w] \in Requests
             /\ \A r \in Requests \ {job[w]} : Unfinished(r)' => Unfinished(r)
             /\ next = "course_completed" => course'[job[w]] \notin {"pending", "processing"}
             /\ next = "polling" => worker[w] = "course_completed"
             /\ worker[w] = "course_completed" => UNCHANGED course
  BY <1>3, StatementFinishes
<1>4. CASE RunStatement(w)
  <2>1. PICK next \in WorkerStages :
          /\ Statement(w, next)
          /\ worker' = [worker EXCEPT ![w] = next]
          /\ job' = IF next = "polling" THEN [job EXCEPT ![w] = NoJob] ELSE job
    BY <1>4 DEF RunStatement
  <2>2. UNCHANGED <<api, queue, faults>>
    BY <1>4 DEF RunStatement
  <2>3. /\ job[w] \in Requests
        /\ \A r \in Requests \ {job[w]} : Unfinished(r)' => Unfinished(r)
        /\ next = "course_completed" => course'[job[w]] \notin {"pending", "processing"}
        /\ next = "polling" => worker[w] = "course_completed"
        /\ worker[w] = "course_completed" => UNCHANGED course
    BY <2>1, <1>3
  <2>4. \A v \in Workers \ {w} : job'[v] = job[v] /\ worker'[v] = worker[v]
    BY <2>1
  <2>5. PICK q \in Requests : q = job[w]
    BY <2>3
  <2>6. \A r \in Requests \ {q} : InWork(r) => InWork(r)'
    BY <2>1, <2>2, <2>4, <2>5, NoJobAssumption
  <2>7. \A r \in Requests : Accepted(r)' => Accepted(r)
    BY <2>2
  <2>8. \A r \in Requests \ {q} : r \in Stranded' => r \in Stranded
    <3>1. \A r \in Requests \ {q} : Unfinished(r)' => Unfinished(r)
      BY <2>3, <2>5
    <3> QED
      BY <2>6, <2>7, <3>1
  <2>9. q \in Stranded' => q \in Stranded
    <3>1. CASE next = "polling"
      <4>1. InWork(q) => InWork(q)'
        BY <2>1, <2>2, <2>3, <2>4, <2>5, <3>1
      <4>2. Unfinished(q)' => Unfinished(q)
        BY <2>3, <3>1
      <4> QED
        BY <2>7, <4>1, <4>2
    <3>2. CASE next = "course_completed"
      BY <2>3, <2>5, <3>2
    <3>3. CASE next \notin {"polling", "course_completed"}
      <4>1. InWork(q)'
        BY <2>1, <2>5, <3>3
      <4> QED
        BY <4>1
    <3> QED
      BY <3>1, <3>2, <3>3
  <2>10. Stranded' \subseteq Stranded
    BY <2>8, <2>9
  <2> QED
    BY <2>2, <2>10
<1>5. CASE StatementFails(w) \/ Crash(w)
  <2>1. /\ job' = [job EXCEPT ![w] = NoJob] /\ faults' = faults + 1
        /\ \A v \in Workers \ {w} : worker'[v] = worker[v]
        /\ UNCHANGED <<api, queue>>
    BY <1>5 DEF StatementFails, Crash, Release, Fault
  <2>2. \A r \in Requests \ {job[w]} : InWork(r) => InWork(r)'
    BY <2>1
  <2>3. \A r \in Requests \ {job[w]} : Unfinished(r)' => Unfinished(r)
    <3>1. CASE UNCHANGED rows
      BY <3>1 DEF rows
    <3>2. CASE \E next \in WorkerStages : Statement(w, next)
      BY <3>2, <1>3
    <3> QED
      BY <1>5, <3>1, <3>2 DEF StatementFails, Crash
  <2>4. Stranded' \subseteq Stranded \cup {job[w]}
    BY <2>1, <2>2, <2>3
  <2>5. CASE job[w] \in Requests
    BY <2>1, <2>4, <2>5
  <2>6. CASE job[w] = NoJob
    BY <2>1, <2>4, <2>6, NoJobAssumption
  <2> QED
    BY <2>5, <2>6
<1>6. CASE Wake(w) \/ Restart(w)
  BY <1>6 DEF Wake, Restart, rows
<1> QED
  BY <1>1, <1>2, <1>4, <1>5, <1>6 DEF WorkerStep

\* Every step but a restart of Redis strands no request, or it is a failure and
\* strands one at most.
LEMMA StepStrands ==
    ASSUME Inv, [Next]_vars
    PROVE  \/ StrandsNone
           \/ StrandsOne
           \/ RedisRestart /\ faults' = faults + 1
<1>1. CASE AbortHandlers
  <2>1. UNCHANGED <<rows, queue, worker, job>> /\ faults' = faults + 1
    BY <1>1, AbortChanges DEF Inv
  <2>2. \A r \in Requests : Accepted(r)' => Accepted(r)
    BY <1>1, AbortChanges DEF Inv, Accepted
  <2> QED
    BY <2>1, <2>2 DEF StrandsNone, Stranded, Unfinished, InWork, Queued, rows
<1>2. CASE UNCHANGED vars
  BY <1>2 DEF vars, rows, StrandsNone, Stranded, Accepted, Unfinished, InWork, Queued
<1>3. RedisRestart => faults' = faults + 1
  BY DEF RedisRestart, Fault
<1> QED
  BY <1>1, <1>2, <1>3, ApiStepStrands, WorkerStepStrands DEF Next

\* Nothing is stranded at the start.
LEMMA InitStrands == Init => Stranded = {} /\ faults = 0
BY DEF Init, Stranded, Accepted

\* Requests are lost to failures only, and each failure loses one at most, with
\* messages that are delivered twice as without.  A restart of Redis, which may
\* lose any number at once, is excluded.
THEOREM LossesAreCounted ==
    ASSUME "redis_restart" \notin FaultKinds, IsFiniteSet(Requests)
    PROVE  Spec => []OneLossPerFailure
<1> DEFINE Counted == Cardinality(Stranded) <= faults
<1>1. Init => Counted
  BY InitStrands, FS_EmptySet
<1>2. Counted /\ Inv /\ Inv' /\ [Next]_vars => Counted'
  <2> SUFFICES ASSUME Counted, Inv, Inv', [Next]_vars PROVE Counted'
    OBVIOUS
  <2>1. ~RedisRestart
    BY DEF RedisRestart, Fault
  <2>2. IsFiniteSet(Stranded) /\ IsFiniteSet(Stranded')
    BY FS_Subset DEF Stranded
  <2>3. /\ faults \in Nat
        /\ Cardinality(Stranded) \in Nat /\ Cardinality(Stranded') \in Nat
    BY <2>2, FS_CardinalityType DEF Inv, TypeOK
  <2>4. CASE StrandsNone
    <3>1. Cardinality(Stranded') <= Cardinality(Stranded)
      BY <2>2, <2>4, FS_Subset DEF StrandsNone
    <3> QED
      BY <2>3, <2>4, <3>1 DEF StrandsNone
  <2>5. CASE StrandsOne
    <3>1. PICK r \in Requests : Stranded' \subseteq Stranded \cup {r}
      BY <2>5 DEF StrandsOne
    <3>2. /\ IsFiniteSet(Stranded \cup {r})
          /\ Cardinality(Stranded \cup {r}) \in {Cardinality(Stranded), Cardinality(Stranded) + 1}
      BY <2>2, <2>3, FS_AddElement
    <3>3. Cardinality(Stranded') <= Cardinality(Stranded \cup {r})
      BY <3>1, <3>2, FS_Subset
    <3> QED
      BY <2>3, <2>5, <3>2, <3>3 DEF StrandsOne
  <2> QED
    BY <2>1, <2>4, <2>5, StepStrands
<1>3. Counted /\ Inv => OneLossPerFailure
  <2> SUFFICES ASSUME Counted, Inv PROVE Cardinality(Lost) <= faults
    BY DEF OneLossPerFailure
  <2>1. IsFiniteSet(Stranded) /\ IsFiniteSet(Lost)
    BY FS_Subset DEF Stranded, Lost
  <2>2. Cardinality(Lost) <= Cardinality(Stranded)
    BY <2>1, LostIsStranded, FS_Subset
  <2>3. Cardinality(Lost) \in Nat /\ Cardinality(Stranded) \in Nat /\ faults \in Nat
    BY <2>1, FS_CardinalityType DEF Inv, TypeOK
  <2> QED
    BY <2>2, <2>3
<1> QED
  BY <1>1, <1>2, <1>3, Invariance, PTL DEF Spec

\* As long as nothing has failed, every request answered 202 is finished, deleted,
\* queued or with a worker: for any requests and workers, whatever may still fail,
\* a resent push and a Redis that loses its list included.
THEOREM NothingIsLostBeforeAFailure == Spec => [](faults = 0 => Lost = {})
<1> DEFINE Clean == faults = 0 => Stranded = {}
<1>1. Init => Clean
  BY InitStrands
<1>2. Clean /\ Inv /\ [Next]_vars => Clean'
  <2> SUFFICES ASSUME Clean, Inv, [Next]_vars, faults' = 0
               PROVE  Stranded' = {}
    OBVIOUS
  <2>1. faults \in Nat
    BY DEF Inv, TypeOK
  <2>2. faults' # faults + 1
    BY <2>1
  <2>3. StrandsNone /\ faults = 0
    BY <2>1, <2>2, StepStrands DEF StrandsNone, StrandsOne
  <2> QED
    BY <2>3 DEF StrandsNone
<1>3. Clean => (faults = 0 => Lost = {})
  BY LostIsStranded
<1> QED
  BY <1>1, <1>2, <1>3, Invariance, PTL DEF Spec

-------------------------------------------------------------------------------
(***************************************************************************)
(* CourseGeneration implements CourseService.                              *)
(***************************************************************************)
phaseBar == [r \in Requests |-> ContentStatus(r)]
promisedBar == {r \in Requests : Accepted(r)}

\* The initial state is one of the service.
LEMMA InitService == Init => Service!Init
BY DEF Init, Service!Init, ContentStatus, Accepted

\* A step that keeps every course's answer and every 202 is a stutter.
LEMMA Stutter ==
    ASSUME \A r \in Requests : ContentStatus(r)' = ContentStatus(r) /\ api'[r] = api[r]
    PROVE  UNCHANGED Service!vars
BY DEF Service!vars, Accepted

\* Equal rows are shown alike by the content endpoint.
LEMMA SamePhase ==
    ASSUME UNCHANGED <<course, written>>
    PROVE  \A r \in Requests : ContentStatus(r)' = ContentStatus(r)
BY DEF ContentStatus

\* How each step of the handler shows in the service.
LEMMA ApiStepService ==
    ASSUME SentOnce, DeliveryInv, NEW r \in Requests, ApiStep(r)
    PROVE  \/ Service!Create(r) \/ Service!Promise(r) \/ Service!Delete(r)
           \/ UNCHANGED Service!vars
<1> USE DEF DeliveryInv, Inv, TypeOK
<1>1. CASE api'[r] # "accepted" /\ UNCHANGED <<course, written>> /\
           api[r] # "accepted" /\ (\A q \in Requests \ {r} : api'[q] = api[q])
  BY <1>1, SamePhase DEF Service!vars, Accepted
<1>2. CASE CreateCourse(r) \/ (CreateCourseFails(r) /\ InsertCourse(r))
  <2>1. course' = [course EXCEPT ![r] = "pending"] /\ UNCHANGED written /\ course[r] = "none"
    BY <1>2 DEF CreateCourse, CreateCourseFails, InsertCourse, RowsFollowHandler
  <2>2. \A q \in Requests : (api'[q] = "accepted") <=> (api[q] = "accepted")
    BY <1>2 DEF CreateCourse, CreateCourseFails
  <2>3. /\ ContentStatus(r) = "absent" /\ ContentStatus(r)' = "pending"
        /\ \A q \in Requests \ {r} : ContentStatus(q)' = ContentStatus(q)
    BY <2>1 DEF ContentStatus
  <2> QED
    BY <2>2, <2>3 DEF Service!Create, Accepted
<1>3. CASE EnqueueGeneration(r)
  <2>1. /\ api[r] = "task_created" /\ api' = [api EXCEPT ![r] = "accepted"]
        /\ UNCHANGED <<course, written>> /\ course[r] # "none"
    BY <1>3 DEF EnqueueGeneration, rows, RowsFollowHandler
  <2>2. ContentStatus(r) # "absent"
    BY <2>1 DEF ContentStatus
  <2> QED
    BY <2>1, <2>2, SamePhase DEF Service!Promise, Accepted
<1>4. CASE DeleteCourse(r)
  <2>1. CourseExists(r) /\ course' = [course EXCEPT ![r] = "deleted"] /\ written' = written \ {r}
    BY <1>4 DEF DeleteCourse
  <2>2. /\ ContentStatus(r) \in {"pending", "ready"} /\ ContentStatus(r)' = "gone"
        /\ \A q \in Requests \ {r} : ContentStatus(q)' = ContentStatus(q)
    BY <2>1 DEF ContentStatus, CourseExists, RowStatuses
  <2>3. UNCHANGED api
    BY <1>4 DEF DeleteCourse
  <2> QED
    BY <2>2, <2>3 DEF Service!Delete, Accepted
<1>5. ~PushUnanswered(r)
  BY DEF SentOnce
<1> QED
  BY <1>1, <1>2, <1>3, <1>4, <1>5
     DEF ApiStep, Handler, Refuse, CreateCourseFails, CreateGenerationTask,
         CreateGenerationTaskFails, LatePush, rows

\* A statement of a worker finishes its course in the service, or shows nothing.
LEMMA StatementService ==
    ASSUME DeliveryInv, NEW w \in Workers, NEW next \in WorkerStages, Statement(w, next),
           UNCHANGED api
    PROVE  \/ Service!Finish(job[w]) /\ job[w] \in Requests
           \/ UNCHANGED Service!vars
<1>1. job[w] \in Requests /\ Busy(w)
  BY StatementType DEF DeliveryInv, Inv
<1>2. \A r \in Requests \ {job[w]} : ContentStatus(r)' = ContentStatus(r)
  <2>1. \A r \in Requests \ {job[w]} : (r \in written' <=> r \in written)
    BY DEF Statement, StartTask, StartCourse, WriteContent, CompleteCourse, CompleteTask,
           UpdateGenerationStatus, UpdateCourseStatus, UpdateCourseContent
  <2> QED
    BY <2>1, StatementDelivery DEF ContentStatus
<1> DEFINE j == job[w]
<1>3. CASE CompleteCourse(w, next) /\ CourseExists(j)
  <2>1. course[j] = "processing" /\ j \in written
    BY <1>1, <1>3 DEF CompleteCourse, DeliveryInv, Inv, RowsFollowStage, WrittenBeforeCompleted
  <2>2. course'[j] = "completed" /\ UNCHANGED written
    BY <1>1, <1>3 DEF CompleteCourse, UpdateCourseStatus, DeliveryInv, Inv, TypeOK
  <2>3. phaseBar[j] = "pending" /\ phaseBar'[j] = "ready"
    BY <1>1, <2>1, <2>2 DEF phaseBar, ContentStatus
  <2>4. \A r \in Requests \ {j} : phaseBar'[r] = phaseBar[r]
    BY <1>2 DEF phaseBar
  <2>5. phaseBar' = [phaseBar EXCEPT ![j] = "ready"]
    BY <1>1, <2>3, <2>4 DEF phaseBar
  <2> QED
    BY <1>1, <2>3, <2>5 DEF Service!Finish, phaseBar, Accepted
<1>4. CASE ~(CompleteCourse(w, next) /\ CourseExists(j))
  <2>1. CASE ~CourseExists(j)
    <3>1. UNCHANGED <<course, written>>
      BY <2>1, <1>1
         DEF Statement, StartTask, StartCourse, WriteContent, CompleteCourse, CompleteTask,
             UpdateGenerationStatus, UpdateCourseStatus, UpdateCourseContent
    <3> QED
      BY <3>1, SamePhase, Stutter
  <2>2. CASE CourseExists(j)
    <3>1. CASE StartTask(w, next) \/ CompleteTask(w, next)
      BY <3>1, SamePhase, Stutter DEF StartTask, CompleteTask, UpdateGenerationStatus
    <3>2. CASE StartCourse(w, next)
      <4>1. course[j] = "pending" /\ course'[j] = "processing"
        BY <1>1, <2>2, <3>2 DEF StartCourse, UpdateCourseStatus, DeliveryInv, Inv, TypeOK, RowsFollowStage
      <4>2. \A r \in Requests : ContentStatus(r)' = ContentStatus(r)
        BY <1>2, <4>1 DEF ContentStatus
      <4> QED
        BY <4>2, Stutter
    <3>3. CASE WriteContent(w, next)
      <4>1. course[j] = "processing" /\ UNCHANGED course
        BY <1>1, <2>2, <3>3 DEF WriteContent, UpdateCourseContent, DeliveryInv, RowsFollowStage
      <4>2. \A r \in Requests : ContentStatus(r)' = ContentStatus(r)
        BY <1>2, <4>1 DEF ContentStatus
      <4> QED
        BY <4>2, Stutter
    <3> QED
      BY <1>4, <2>2, <3>1, <3>2, <3>3 DEF Statement
  <2> QED
    BY <2>1, <2>2
<1> QED
  BY <1>3, <1>4

\* Every step that resends no push is a step of the service or a stutter.
LEMMA NextService ==
    ASSUME SentOnce, DeliveryInv, [Next]_vars
    PROVE  [Service!Next]_(Service!vars)
<1>1. CASE \E r \in Requests : ApiStep(r)
  BY <1>1, ApiStepService DEF Service!Next
<1>2. CASE UNCHANGED <<api, course, written>>
  BY <1>2, SamePhase, Stutter
<1>3. ASSUME NEW w \in Workers, NEW next \in WorkerStages, Statement(w, next), UNCHANGED api
      PROVE  [Service!Next]_(Service!vars)
  BY <1>3, StatementService DEF Service!Next
<1>4. CASE \E w \in Workers : WorkerStep(w) \/ Crash(w) \/ Restart(w)
  BY <1>2, <1>3, <1>4
     DEF WorkerStep, Pop, PopFails, RunStatement, StatementFails, Wake, Crash, Restart, rows
<1>5. CASE AbortHandlers
  <2>1. \A r \in Requests : Accepted(r)' <=> Accepted(r)
    BY <1>5, AbortChanges DEF DeliveryInv, Inv, Accepted
  <2>2. UNCHANGED <<course, written>>
    BY <1>5 DEF AbortHandlers, rows
  <2> QED
    BY <2>1, <2>2, SamePhase DEF Service!vars
<1> QED
  BY <1>1, <1>2, <1>4, <1>5 DEF Next, RedisRestart, vars, rows

\* Without resent pushes, every behaviour of the handlers, the queue and the
\* workers, whatever else fails, is a behaviour of the abstract service.
THEOREM Refinement ==
    ASSUME SingleDelivery
    PROVE  Spec => ImplementsService
<1>1. Init => Service!Init
  BY InitService
<1>2. DeliveryInv /\ [Next]_vars => [Service!Next]_(Service!vars)
  BY NextService, SingleDeliverySendsOnce
<1> QED
  BY <1>1, <1>2, DeliveryInvariance, PTL DEF Spec, ImplementsService, Service!Spec
================================================================================
