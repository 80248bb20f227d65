# course-constructor in TLA+

course-constructor generates courses: a browser application asks a Go API for a
course, the API puts a message into a Redis list, a worker takes it and writes
the text into PostgreSQL, and the browser polls until the text is there. Around
that core there are accounts with rotating refresh tokens, uploaded source
documents in an S3 bucket, and lessons with progress.

This directory holds TLA+ models of the parts in which several processes share
state, the TLC configurations that check them on small instances, and TLAPS
proofs of their main safety properties for every instance. `PROJECT.json` maps
every definition to the lines it models and lists the runs, mutants, hazards and
theorems.

## 1. Inventory

| Component | State | Operations | Talks to |
|---|---|---|---|
| Course API, `internal/http/courses.go` | none of its own; a handler is a goroutine between two statements | generate, delete; list, get, content and status only read | store, queue |
| Queue, `internal/queue/redis.go` | Redis lists `generation_queue`, `document_queue` | RPUSH, BLPOP | API, worker |
| Worker, `internal/worker/worker.go` | the message it holds, its place in `handleGeneration` | five statements per message, two seconds of sleep after an error | queue, store |
| Store, `internal/store/store.go` | `users`, `refresh_tokens`, `documents`, `courses`, `lessons`, `user_progress`, `generation_tasks` | single statements; only `ReplaceLessons` uses a transaction | PostgreSQL |
| Documents API, `internal/http/documents.go` | a handler between two calls | upload with a quota, delete; list and get only read | store, bucket, queue |
| Accounts API, `internal/http/auth.go`, `middleware.go`, `internal/auth` | a handler between two statements | register, login, refresh, logout; the check of an access token | store |
| Course application, `src/app/App.tsx` | screen, list, selected course, content, status, loading | navigation, generate, delete, two polling timers | API |
| Sign-in, `src/app/api/auth.ts`, `client.ts` | identity and tokens in localStorage, shared by all calls | `apiRequest`, `ensureAccessToken`, `refreshAccessToken` | accounts API |
| Library, `CourseLibrary`, `CourseCard` | search text, two filters; lost when the screen is left | search, filter, open, create, delete | application |
| Creation form, `CourseCreation` | fields, source mode, selected and listed documents, loading and generating; lost when the screen is left | fill in, switch the mode, select, upload, generate, back | application, documents API |
| Lesson player, `LessonView` with `LessonSidebar`, `QuizView`, `PracticeView`, `CodeBlock` | tab, focus mode; open modules, search; question, answers; text, lock; tick and timers | previous, next, complete, tabs, sidebar, submit, copy | its parent by props; `App.tsx` does not mount it |
| Theory text, `TheoryView`; sample course, `mockData.ts` | none | one pass over the lines of a text | lesson player, course page |
| Lists and pagination, `utils.go` | none | limit and offset | store |
| Lessons and progress API, `lessons.go`, `progress.go` | rows of `lessons`, `user_progress`, which nothing fills | complete a lesson, percentage | store |
| Configuration, routing, responses | read once at start | | |
| Widgets (`components/ui`), `SourcesView`, `Chip`, `ProgressBar` | presentation | | |

**What is hard about it.** No two statements of a handler share a transaction,
so each of them may be the last one that happens. The queue forgets a message
the moment it is popped. go-redis repeats a command whose reply was lost. A user
may delete a course at any time. The browser has several requests in flight and
applies the answers in the order of their arrival, to screens that may have been
left and opened again since. React keeps the state of a component that stays at
its place, and drops that of one that goes: which of the two happens to a quiz or
a form depends on the way the user takes. Section 6 names what each
component must still guarantee; `PROJECT.json` has the hazards line by line.

## 2. Modules

| Module | Models | Composition |
|---|---|---|
| `CourseService` | what the content endpoint promises: absent, pending, ready, gone, and the promise of a 202 | abstract |
| `CourseGeneration` | handlers, rows, queue and workers, one action per statement or command | implements `CourseService` |
| `CourseApp` | one browser tab | contains an instance of `CourseService` as its server |
| `Documents` | uploads and deletions of one user over table, bucket and queue | |
| `Session` | the calls of one browser, the `/auth` handlers, the tables behind them | |
| `CourseLibrary` | the cards of the library under search and filters, and how rows become cards | |
| `CourseForm` | the creation form, its lists of documents and uploads, the documents of the server | |
| `Screens` | the way between library, form and course page, generation from the click to the card, lists of courses | extends `CourseLibrary` and `CourseForm` |
| `LessonPlayer` | the lesson screen with everything it mounts | |
| `TheoryMarkup` | the parser of theory texts, with a reference definition | |
| `SampleCourse` | the lessons of `mockData.ts` as data | |
| `*Proofs` | the theorems | extend their component |
| `MC*` | small instances | extend their component |

Client and pipeline meet in `CourseService`: the pipeline is shown to implement
it, and the browser is checked against it instead of against the pipeline, which
keeps both state spaces small. Where failures break the promise of a 202, the
browser sees a course that stays pending, and `CourseApp` leaves the server free
never to finish a course.

### CourseGeneration

A request `r` stands for the course, the task and the message that a POST
creates: all three have fresh UUIDs and travel together. `api[r]` is how far
`handleGenerateCourse` is (`CreateCourse`, `CreateGenerationTask`,
`EnqueueGeneration`), `course[r]` and `task[r]` are the status columns,
`written` the courses with a text, `worker[w]` the last statement of
`handleGeneration` that has run. `DeleteCourse` removes both rows and the text
(the foreign key cascades), at any moment after the insert.

Failures are explicit and counted: a statement or command that is not applied
(`db_error`, `redis_error`), one that is applied although it reports an error
(`db_ambiguous`), an RPUSH that the client sends twice (`redis_resend`), a reply
to BLPOP that is lost (`pop_lost`), a Redis that comes back empty
(`redis_restart`: `docker-compose.yml` gives it no volume), and processes that die:
`worker_crash` ends one worker (`main` does not wait for `Run` to return),
`api_abort` the one API process, and with it every handler that is under way
(`AbortHandlers`). A push that such a handler had sent may still be applied
(`LatePush`), for a request that nobody was told about. `FaultKinds` selects the
kinds of a run, `MaxFaults` bounds the number of `faults`; `resends` counts the
resent pushes among them, because some properties hold while nothing else fails
(`OnlyResends`).

### Documents

A document `d` is one upload and its storage key. `Admit` is the read of the
usage with both comparisons, `PutObject`, `CreateDocument`, `UndoPut` and
`EnqueueDocument` follow the handler; `GetDocument`, `DeleteDocument` and
`RemoveObject` are the DELETE. `MaxConcurrent` bounds the uploads between check
and insert: the code has no such limit, and the overrun is stated in terms of it.
`TotalSize`, the sum that `GetDocumentUsage` asks for, counts the bytes of the
rows one by one, so that the proofs can reason about it as a cardinality.
`AbortHandlers` is the death of the API process here too: all uploads and DELETE
requests under way end at once, and one death may leave several objects behind.
`Leaked`, what `OneLeakPerFailure` bounds, are therefore the objects of handlers
that have run to their ends.

### CourseApp

A content or list request is sent, answered and delivered in three steps, and
answers may overtake one another. Timers are actions that are enabled while the
effect that starts them is. The user may navigate, generate and delete at any
time; cards are there to be clicked only while the first list is not under way
(`LoadingCourses`, `CourseLibrary.tsx:140`), and the page shows something only
while its course is listed (`Shows`, `App.tsx:176`). `done_selected` remembers that `handleDeleteCourse` was started on the
page of the course, because the closure keeps the `selectedCourseId` of its render.

### Session

A pair is an access and a refresh token signed together. `row[p]` is its row in
`refresh_tokens`, `age[p]` how far it has expired, `origin[p]` the pair that was
exchanged for it. A handler goes through received, checked, granted and ok or
refused, one statement at a time. When `fetch` rejects (`GiveUp`) the handler goes
on for nobody, until it ends or its context is cancelled. `stored` is the one
place for tokens that all calls share, `pair[c]` the pair a call read from it:
between the two other calls may have replaced or dropped the tokens.
Not in the model: the bytes of tokens, password hashes, a second user, a
localStorage entry damaged from outside. `isUniqueViolation` tests for an error
type of `jackc/pgconn`, while the driver is `pgx/v5`, which has a type of its own;
whether a second registration is answered 409 or 500 makes no difference to the
browser, which logs in after either, so the model has one refusal.

### CourseLibrary, CourseForm and Screens

`Screens` is the browser tab seen from the form. `screen` is where the user is;
for the course page it is the course. The state of the form and of the filters is
local to a component, so leaving the screen resets it (`FormUnmounts`,
`LibraryUnmounts`), while the requests it has sent go on: an upload becomes an
`orphan`, which still reaches the server, and a generation still ends in
`DeliverCreated`, which opens the library from wherever the user is. Each
request of the form passes through stages, `load[i]` for the lists of the effect,
`upload[d]` for a file and the list after it, `post[c]` for a generation and the
list after it; the server's side of each step is an action of its own, so that
another request may come between. `mine` are the courses the mounted form has
asked for. `stored` and `rows` are the tables, newest first, and `Page` is what a
list without a limit returns. Topic and goal are one flag, because nothing else is
looked at; level, title and description are the constants `Level` and `Matches`.
`CourseApp` has what is left out here: the text of the course page, deletion, and
lists of courses that overlap (`Mounted` and `Poll` are one step each).

### LessonPlayer, TheoryMarkup and SampleCourse

One action per handler of the five components. `Show(l, t)` is the render of a
lesson under a tab: `TabsContent` mounts only the active part, parts have no key,
and so a quiz, a practice or a code block keeps its state exactly if it is
rendered before and after (a code block has a key, the number of its closing
fence). `carried` remembers that the quiz has been that of another lesson;
`crashed` that a render has thrown, because `currentQuestion` was undefined;
`finished` that View Results has been clicked in this quiz. The feedback of a
practice is a constant that is shown with the lock, so that there is nothing of it
to keep. `App.tsx` mounts none of these screens and the parent is not in the
source: as the props ask, it changes the lesson, and rebuilds `modules` when one is
completed, which runs the effect of the sidebar. No property rests on the parent
alone.
`Reading(content)[n]` is what the `forEach` of `TheoryMarkup` has collected after
`n` lines, each by `ReadLine`, a line being what it starts with;
`RenderedAsWritten` compares the result with a definition that looks at the text
as a whole (a line is code if an odd number of fences comes before it).

## 3. Runs

All runs finish within about a minute on two cores, except `course_screens`, which
has 2.6 million states and takes two or three. Fault kinds and sizes are in the
`.cfg` files; the MC modules define the sets.

| Run | Instance | Shows |
|---|---|---|
| `generation_faults` | 3 requests, 2 workers, 2 failures of the kinds that deliver at most once, symmetric | messages are in one place, the status columns agree, a failure costs one request at most, the pipeline implements `CourseService` |
| `generation_redelivery` | 2 requests, 2 workers, 2 failures of every kind, messages delivered twice included, fair | a completed course has its text, deleted courses stay deleted, a served text stays in its row and is hidden only for a while, the queue drains; while the only failures are resent pushes, every 202 is kept, the course ends completed for good, and the task row follows |
| `generation_lost` | 1 request, 1 worker, 1 failure, fair | **violation**: a request answered 202 is never written |
| `documents_faults` | 4 uploads, 2 deletions, 2 failures of any kind, symmetric | garbage of failed calls is bounded, no dangling row, no double deletion |
| `documents_fair` | 5 uploads of sizes 3, 3, 1, 0, 0, limits of 2 files and 3 units, 1 deletion, no failure, fair | bounded overrun in files and in bytes; every object finds its row or is removed |
| `documents_over_limit` | limit 1, two uploads at once | **violation**: the limit of files |
| `app_one_course` | 1 course, 2 content requests, overlapping lists, 1 failing request, fair | an open page polls until its text has come and comes to show it; no entry that is listed stays unfinished when its course is done |
| `app_stale_text` | 2 courses | **violation**: polling stops with another course's text |
| `session` | 2 calls, 2 requests to `/auth`, 1 expiry or logout, 1 failure, fair | the browser's tokens are known to the server, exchanges are bounded, every call ends, calls recover |
| `lesson_player` | the 5 lessons of the sample course and one with every part, 2 options, 2 overlapping copies; all theory texts of up to 6 lines over four kinds, and those of the sample | a quiz that is not carried over stays in order and does not crash, a tick is cleared, each line of a theory is rendered as what it is, up to a fence that is never closed |
| `quiz_results` | the same lessons | **violation**: View Results shows no results |
| `course_screens` | 2 courses, of which the worker takes up 1, 2 documents, of which 1 is old, pages of 1 row, 1 list of the effect, 1 failing request | a form makes a second course only after an error for the first, the documents that are sent, nothing waits for nothing, what was made or uploaded is shown |

**Why the bounds are enough.** Requests interact only through the queue's order
and the workers, so two workers and three requests already have one message in
each place and one queued behind it. Two failures let one failure hit the
recovery from another (an undo that fails, a resend whose copy is lost). For the
quota, `MaxConcurrent` = 2 and a limit of 2 files reach the limit, overrun it,
delete and refill. In `documents_fair` the two limits bind separately: with 2 files
and 3 units the two large files (3 units each) break the limit of bytes while the
files are within theirs, and the small and the empty ones break that of files while
the bytes are; a check without one of the comparisons violates one property and
not the other. `documents_faults` has fewer files and does not check the bounds.
In the browser two overlapping content requests, and list
requests of three origins, give every reordering of two answers. In `session` two
calls give the race of two first registrations, of two refreshes with one token,
and of a refresh with a dropped pair; behaviours within the bounds use at most
six of the seven pairs, so that no insert is ever held up by the bound.
In `course_screens` two courses and a page of one row let a newer course drive an
older one from the list, which is the case at 20 rows; two documents let an
upload race a list; the second course needs no worker, because one finished and
one unfinished course already give every pair of badges; and one failure suffices
for every error path, each of which ends its request. In `lesson_player` the lesson
with every part is the second quiz and practice that the sample lacks: without it
nothing could be carried over, and its quiz is shorter than the other.
`CHECK_DEADLOCK FALSE` stands where the system may really stop: all requests
made, all workers dead, a page on which nothing is left to do, or, in
`course_screens`, the blank course page described below.

**Symmetry** is used in runs without temporal properties other than action
properties and the safety refinement.

**Fairness.** A handler that has begun, and a worker that is up, are goroutines
whose calls all return (with an answer or an error): weak fairness of their next
step. Timers of an open page fire and requests to a server that is up are
answered: weak fairness of each. Nothing is assumed of the user, of deletions, of
the time a course takes in `CourseApp`, of tokens that expire, or of anybody
restarting what has died (`docker-compose.yml` has no restart policy), which is
why `QueueDrains` excepts the case that every worker is down.

Every property of a passing run has a mutant in the model: the definition of a
handler or statement with a plausible bug, under which TLC finds the property
violated. They stand next to the definitions they change.

## 4. Findings

* `generation_lost`. README.md:34-35 says that the backend puts the task into
  Redis and that the worker writes the text. The error of the push is dropped
  (`courses.go:80`), and a popped message whose handling fails is not put back
  (`worker.go:77-97`): an accepted course may stay pending or processing for ever.
  `OneLossPerFailure` bounds the damage.
* `documents_over_limit`. TASK.md:17 gives each user a limit of files. Two uploads
  at once both pass the check before either inserts its row.
  `OverrunIsBounded` and `ByteOverrunIsBounded` bound the overrun.
* `app_stale_text`. README.md:36 says that the UI polls until status=ready. A late
  answer for a course the user has left is stored for the one that is open now
  (`App.tsx:83`), which ends the polling and shows the wrong text.
* `quiz_results`. DESIGN_SYSTEM.md:54 has "Next question → View results" and
  DESIGN_SYSTEM.md:263 "Question-by-question flow + Results". On the last question
  `handleNext` only calls `onComplete` (`QuizView.tsx:36`), and the results at
  `QuizView.tsx:50-132` are reached only by a quiz carried over to a shorter one.

**Observations.** The models have these behaviours of the code as they are. We know of
no document that says otherwise, so they are no findings and no property is held
against them; the hazards in `PROJECT.json` say so at their lines.

* The course page renders nothing, not even its Back button, once a list without
  its course has arrived (`App.tsx:176`): with `CHECK_DEADLOCK TRUE` TLC shows
  the way there, through a page that newer courses have filled.
* A generation that was accepted is reported as failed if the list after it fails
  (`App.tsx:143-150`); the form is free again, and a second click makes a second
  course. `OneCoursePerForm` allows for exactly that: the first request has ended
  with an error.
* The answer to a generation opens the library over a form that was opened in the
  meantime, and its fields are lost (`App.tsx:145`).
* A list asked for by the effect and answered before an upload may be delivered
  after the list that has the upload, and hides it (`CourseCreation.tsx:67`).
* A list that was answered before a course was made and is delivered after it takes
  the course out of the library, and if nothing else is unfinished the polling stops
  (`App.tsx:39-55`): only the next generation or a reload brings it back.
  `LibraryCatchesUp` speaks of the courses that are listed.
* A course whose second insert fails stays pending without a task
  (`courses.go:74`); its request was answered 500.
* An upload answered with an error may leave a row without an object, when the insert
  was applied all the same (`documents.go:92`).
* From one quiz lesson to another by Next, the sidebar or Mark as Complete, the
  quiz tab stays and with it index and answers: the answers of two lessons mix,
  and an index past the end of the new quiz throws (`QuizView.tsx:175`). A
  practice keeps text and lock, and with it the feedback, in the same way.
* A lesson without the part of the active tab shows an empty page until another
  tab is chosen (`LessonView.tsx:160-205`).
* Lines behind a fence that is never closed are not rendered
  (`TheoryView.tsx:38-41`).

## 5. Proofs

TLAPS proves, for any sets and bounds:

| Module | Theorems |
|---|---|
| `CourseGenerationProofs` | `TypeCorrectness`, `Presentability`, `DeletionIsFinal`, `NothingIsLostBeforeAFailure`, `ServedTextIsKept`; while Redis keeps its list `LossesAreCounted`; with single delivery `OneCarrier`, `Agreement`, `Refinement` |
| `DocumentsProofs` | `DocumentsTypeCorrectness`, `DeletionIsExclusive`, `OverrunBound`, `ByteOverrunBound`, `NoDanglingRows`, `LeaksAreCounted` |
| `CourseAppProofs` | `AppTypeCorrectness`, `OneCourseIsPolled`, `BrowserIsBehindServer`, `LoadingIsAlwaysReal` |
| `SessionProofs` | `SessionTypeCorrectness`, `BackedTokens`, `Rotation`, `NoCallWaitsForNobody`, `NoCallGoesBack` |
| `TheoryMarkupProofs` | `EveryTextIsRendered` |
| `LessonPlayerProofs` | `LessonPlayerTypeCorrectness`, `QuizOrder`, `TickIsAlwaysCleared`, `TheoryIsAlwaysRendered` |
| `ScreensProofs` | `ScreensTypeCorrectness`, `WaitsAreForSomething`, `OneCourse`, `DocumentsAreSent`, `UploadsAreListed`, `AcceptedCoursesAreVisible` |

**Generation.** `CompletedIsPresentable` is not inductive: a worker about to set
`completed` must have written the text, and a late statement must meet a row that
is there. `Inv` adds what the handler has inserted at each stage, how the rows of
a deleted course look, that only inserted tasks are in the queue, and
`WrittenBeforeCompleted`. It holds under every failure. With a push that may be
sent twice two workers may handle one request, and the statuses may disagree for
a while; so the agreement of the statuses and the refinement assume
`SingleDelivery` (no `redis_resend` among `FaultKinds`). `DeliveryInv` then says
that a message which has not been popped belongs to untouched rows, and that the
stage of a worker determines the rows of the request it holds. From it follow
`Agreement` and, step by step, the refinement of `CourseService`: each action maps
to one of its actions or to a stutter.

The other theorems do without that hypothesis. `LossesAreCounted` counts the
requests that leave the pipeline (`Stranded`: accepted, unfinished, neither queued
nor with a worker): only a failure makes a request leave it, and only one, because
a step takes one message away, whatever other copies there are. It needs finite
`Requests`, and no `redis_restart`, which loses a whole queue at once.
`NothingIsLostBeforeAFailure` has no hypothesis at all: before the first failure
nothing is `Stranded`. `ServedTextIsKept` says what remains of a served text when
messages may be delivered twice: it stays in its row, and the course is unavailable
only while a worker has the message again, or after a failure.

**Documents.** `DocInv` relates rows to the stages of their uploads and makes
the winner of racing deletions unique. The overrun is bounded through `Charged`,
the documents with a row or in flight: an upload is admitted while fewer than
`MaxFiles` have a row and fewer than `MaxConcurrent` are in flight, and no other
step adds to `Charged`. `BytesAreBounded` is the same argument in bytes:
the charged bytes are within `MaxTotal` and one largest file for each upload in
flight but one, because `Admit` adds a file that still fits the total of the rows,
and the other charged bytes are those of uploads in flight. Bytes are pairs of
a document and a number, so that a sum is the cardinality of a union and the lemmas
about finite sets apply (`BytesOfUnion`, `BytesOfFiles`). `ObjectInv` adds that the object is there from the
`PutObject` on. `LeaksAreCounted` follows a step at a time: a step that is no
failure leaks nothing, one that is leaks one object, and the death of the process
adds to the failures and not to `Leaked`, which `OneLeakPerFailure` uses to be exact
(a death pays for no leak). These need finite `Docs` where cardinalities are compared.

**Application.** `TypeOK` is inductive for any number of requests. `PollsUntilReady`
is refuted with two courses (`app_stale_text`), and the proofs say exactly
what is missing. `OwnAnswersOnly` is the comparison that `loadCourseContent` does
not make: an answer is delivered only while its course, or none, is selected.
With it `OwnText` is inductive (a page that is `ready` has the text of the course
that is selected): this is the lemma `OwnAnswersArePolledFor`. With one
course every step satisfies it, which gives the theorem `OneCourseIsPolled` with no
assumption about the order of answers. A step of the tab is a step of
`CourseService` or none (the lemma `StepMeetsService`), and so `BehindTheServer` is
inductive: phases only go on (`PhasesGoOn`), an answer is taken from the phase of
its moment, and so the list, the page and every answer under way are old at worst.
`LoadingIsReal` holds because whatever ends a request clears `loading`, and whatever
sets it starts one.

**Session.** `SessionInv` is `TypeOK`, `TokensAreBacked` and `HandlersAreBacked`:
the browser can only hold backed tokens because answers of handlers carry stored
pairs, and a refresh is only asked with such a pair. `Rotation` rests on
`RotationInv`: as long as a token is valid nothing was exchanged for it, and the
exchanges made plus the handlers between the check and the insert never exceed
the number of handlers, because no handler passes the check after the first of
them has revoked the token. It needs finite `Handlers`. `CallsAreServed` pairs
each call that waits for `/auth` with its one handler, and `CallsMoveOn` puts the
stages of a call in an order: together they are `CallsEnd` without its fairness. A
call is never waiting for an answer that nobody is working on, and it has only
finitely many steps ahead.

**Lesson player.** `QuizInv` holds for any lessons: a mounted quiz that was not
carried over has an index within its questions, one answer per question passed,
each for its own question, and all of them once it has been completed. `Show` keeps it because it keeps the quiz only where it
is rendered before and after, and sets `carried` when the lesson has changed.

**Theory text.** `EveryTextIsRendered` is an induction over the lines read, by
least counterexample (`LeastNumber`, from the well-foundedness of `<`): after
`n` lines the elements show the lines up to `n` that are not fences, without the
block that is open, in order, and `inCodeBlock` is the parity of the fences so
far. At the end the open block is what `Dropped` says. `TheoryIsAlwaysRendered`
lifts it to the screen; the constant `Contents` may be any set of texts.

**Screens.** `WaitInv` makes the waiting exact: `generating` holds if and only if
a request in `mine` is in flight, and then there is exactly one, because the button
needs `~generating`; closing the form empties `mine`, so the late end of a request
of an earlier form changes no flag. `EndedInv` says what the other requests in
`mine` are: each has ended with an error. With this, `OneCoursePerForm` holds for any
set of courses and any `MaxErrors`.
`KnownInv` says that whatever the form shows, has selected or is about to be shown
is in the table, which only grows. `UploadInv` and `PostInv` follow a row from its
insert to the list that is asked for after it: the row is in the table, and
therefore on the page or `Displaced` by newer rows, and stays so
(`DisplacedStays`); the filters have their defaults outside the library.

**Only model-checked:** the properties that need fairness (`QueueDrains`,
`KeepsItsPromises`, `RedeliveryConverges`, `TaskFollowsCourse`,
`ObjectsFindRows`, `PageCatchesUp`, `LibraryCatchesUp`, `CallsEnd`,
`CallsRecover`): they rest on `WF_` and thereby on ENABLED, for which the prover has
no rules. Every safety and action property of a passing run is stated by a theorem.
Some have hypotheses: finite sets where something is counted, and `SingleDelivery`, or
a Redis that keeps its list, where the property is false without it; and
`OneCourseIsPolled` is about one course, as its run is. The four refuted
properties stay refuted; for three of them theorems bound what is lost
(`LossesAreCounted`; `OverrunBound`, `ByteOverrunBound`; `OneCourseIsPolled`).

## 6. What makes each component correct

* Generation: no request is lost without a failure; a completed course has its
  text; the two status columns agree; deleted means deleted; a served text stays in
  its row.
* Documents: limits hold up to the uploads in flight; listed documents exist;
  the bucket holds no garbage but what failures and deaths of the process left.
* Application: the page shows the course it names, polls until it can, and
  recovers from answers out of order.
* Session: tokens the browser holds are known to the server, rotation bounds the
  use of a token, no call hangs, nobody is locked out.
* Library and form: one click makes one course, as long as no error is shown; it names the documents the user
  has selected and the server has; button and labels say what is going on; what
  was just made or uploaded can be seen.
* Lesson player: a quiz asks its own questions in their order, gives nothing
  away and ends in its results (which the code does not do); a tick goes away; a
  theory is rendered line by line.

## 7. Not modelled, and the plan

* Lessons and progress (`lessons.go`, `progress.go` and their queries): nothing calls
  `ReplaceLessons`, so the table is empty, every list of lessons is empty, a lesson
  is never found, nothing can be completed and progress is 0 of 0. README.md:81
  calls lessons a legacy that the UI does not use. A model would have no step, and
  one that invents lessons would not be of this code.
* Widgets (`components/ui`, vendored from shadcn/ui, most of them used nowhere),
  `SourcesView`, `Chip`, `ProgressBar`, icons and styles: presentation. They are about
  two thirds of the TypeScript lines, which is why the map covers a fifth of these.
* Configuration, routing and responses run once or are tables.
* The bytes of tokens, texts and fields; scores and explanations of a quiz; the
  wording of toasts.
* Limits and offsets of a list: the browser sends neither.

Left to do: `Mounted` and `Poll` of `Screens` in several steps, which takes a
smaller instance of the rest; the safety halves of the other liveness properties
as theorems, as `CallsAreServed` and `CallsMoveOn` are of `CallsEnd`; a lesson
module when the worker begins to write lessons.
