------------------------------ MODULE CourseApp ------------------------------
(***************************************************************************)
(* One browser tab (src/src/app/App.tsx) in front of the course API.  The  *)
(* server is CourseService; every request to it is sent, answered and      *)
(* delivered in three separate steps, so answers may arrive in any order   *)
(* and long after the user has moved on.                                   *)
(*                                                                         *)
(* A content request is one call of loadCourseContent, a list request one  *)
(* call of listCourses: by the effect that runs on mount, by the polling   *)
(* effect, or by handleGenerateCourse after it has created a course.       *)
(***************************************************************************)
EXTENDS Naturals

CONSTANTS
    Courses,        \* the courses the user may generate
    NoCourse,       \* selectedCourseId is null, or the text is empty
    Loads,          \* bound on the content requests in flight
    Polls,          \* bound on the polling list requests in flight
    MaxErrors       \* bound on the requests that fail on the way

ASSUME NoCourseAssumption == NoCourse \notin Courses
ASSUME ErrorsAssumption == MaxErrors \in Nat

VARIABLES
    phase,          \* the server: what it would answer about each course
    promised,       \* the server: the requests it has answered 202
    screen,         \* currentScreen
    list,           \* courses, by status
    selected,       \* selectedCourseId
    content,        \* courseContent: the course whose text it is
    status,         \* courseContentStatus
    loading,        \* loadingCourseContent
    load,           \* the content requests in flight
    listing,        \* the list requests in flight
    generating,     \* how far handleGenerateCourse is with each course
    deleting,       \* how far handleDeleteCourse is with each course
    errors          \* requests that have failed on the way

server == <<phase, promised>>
page == <<screen, selected, content, status, loading>>
vars == <<server, page, list, load, listing, generating, deleting, errors>>

Service == INSTANCE CourseService WITH Requests <- Courses

ListRequests == {"mount"} \cup Polls \cup Courses
Entries == {"absent", "pending", "completed"}
Idle == [stage |-> "idle"]

TypeOK ==
    /\ Service!TypeOK
    /\ screen \in {"library", "create", "course"}
    /\ list \in [Courses -> Entries]
    /\ selected \in Courses \cup {NoCourse}
    /\ content \in Courses \cup {NoCourse}
    /\ status \in {"pending", "ready"}
    /\ loading \in BOOLEAN
    /\ load \in [Loads -> {Idle} \cup
          [stage : {"asked", "pending", "ready", "error"}, course : Courses]]
    /\ listing \in [ListRequests -> {Idle, [stage |-> "asked"], [stage |-> "error"]} \cup
          [stage : {"answered"}, items : [Courses -> Entries]]]
    /\ generating \in [Courses -> {"no", "posted", "created", "listing", "done"}]
    /\ deleting \in [Courses -> {"no", "asked", "asked_selected", "done", "done_selected"}]
    /\ errors \in 0 .. MaxErrors

Init ==
    /\ Service!Init
    /\ screen = "library"
    /\ list = [c \in Courses |-> "absent"]
    /\ selected = NoCourse
    /\ content = NoCourse
    /\ status = "pending"
    /\ loading = FALSE
    /\ load = [i \in Loads |-> Idle]
    /\ listing = [i \in ListRequests |-> IF i = "mount" THEN [stage |-> "asked"] ELSE Idle]
    /\ generating = [c \in Courses |-> "no"]
    /\ deleting = [c \in Courses |-> "no"]
    /\ errors = 0

Error ==
    /\ errors < MaxErrors
    /\ errors' = errors + 1

\* currentCourse: the course screen is empty without it.
CurrentCourse == selected # NoCourse /\ list[selected] # "absent"

\* loadingCourses: until the list of the mount has come or failed, the library
\* shows no cards.
LoadingCourses == listing["mount"] # Idle

-------------------------------------------------------------------------------
(***************************************************************************)
(* Navigation.                                                             *)
(***************************************************************************)
BackToLibrary ==    \* handleBackToLibrary
    /\ screen' = "library"
    /\ selected' = NoCourse
    /\ content' = NoCourse
    /\ status' = "pending"
    /\ UNCHANGED loading

Back ==     \* the Back buttons of CourseCreation and CourseTextView
    /\ screen = "create" \/ (screen = "course" /\ CurrentCourse)
    /\ BackToLibrary
    /\ UNCHANGED <<server, list, load, listing, generating, deleting, errors>>

OpenCreation ==     \* handleCreateCourse
    /\ screen = "library"
    /\ screen' = "create"
    /\ UNCHANGED <<server, selected, content, status, loading, list, load, listing,
                   generating, deleting, errors>>

StartLoad(i, c) ==
    /\ load[i] = Idle
    /\ load' = [load EXCEPT ![i] = [stage |-> "asked", course |-> c]]
    /\ loading' = TRUE

\* Mutant: the text of the course shown before is kept.
SelectKeepsStatus(c) ==
    /\ screen = "library"
    /\ ~LoadingCourses
    /\ list[c] # "absent"
    /\ selected' = c
    /\ content' = NoCourse
    /\ UNCHANGED status
    /\ screen' = "course"
    /\ \E i \in Loads : StartLoad(i, c)
    /\ UNCHANGED <<server, list, listing, generating, deleting, errors>>

Select(c) ==    \* handleCourseSelect, up to its await
    /\ screen = "library"
    /\ ~LoadingCourses
    /\ list[c] # "absent"
    /\ selected' = c
    /\ content' = NoCourse
    /\ status' = "pending"
    /\ screen' = "course"
    /\ \E i \in Loads : StartLoad(i, c)
    /\ UNCHANGED <<server, list, listing, generating, deleting, errors>>

-------------------------------------------------------------------------------
(***************************************************************************)
(* loadCourseContent and its polling effect.                               *)
(***************************************************************************)

\* Mutant: the interval is kept only while the first load is under way.
PollContentWhileLoading(i) ==
    /\ selected # NoCourse
    /\ status = "pending"
    /\ loading
    /\ StartLoad(i, selected)
    /\ UNCHANGED <<server, screen, selected, content, status, list, listing,
                   generating, deleting, errors>>

\* The effect looks at the selection and the status, not at the screen.
PollContent(i) ==
    /\ selected # NoCourse
    /\ status = "pending"
    /\ StartLoad(i, selected)
    /\ UNCHANGED <<server, screen, selected, content, status, list, listing,
                   generating, deleting, errors>>

\* Mutant: the 404 is taken for an answer.
ContentAnswerUnchecked(c) == phase[c]

ContentAnswer(c) ==
    IF phase[c] \in {"pending", "ready"} THEN phase[c] ELSE "error"    \* 404

AnswerContent(i) ==
    /\ load[i].stage = "asked"
    /\ \/ load' = [load EXCEPT ![i].stage = ContentAnswer(load[i].course)] /\ UNCHANGED errors
       \/ Error /\ load' = [load EXCEPT ![i].stage = "error"]
    /\ UNCHANGED <<server, page, list, listing, generating, deleting>>

\* Nothing compares the course that was asked about with the one selected now.
DeliverContent(i) ==
    /\ load[i].stage \in {"pending", "ready", "error"}
    /\ CASE load[i].stage = "ready"   -> content' = load[i].course /\ status' = "ready"
         [] load[i].stage = "pending" -> status' = "pending" /\ UNCHANGED content
         [] load[i].stage = "error"   -> UNCHANGED <<content, status>>
    /\ loading' = FALSE
    /\ load' = [load EXCEPT ![i] = Idle]
    /\ UNCHANGED <<server, screen, selected, list, listing, generating, deleting, errors>>

-------------------------------------------------------------------------------
(***************************************************************************)
(* listCourses: on mount, by polling, after a generation.                  *)
(***************************************************************************)
HasPending == \E c \in Courses : list[c] = "pending"

\* Mutant: only courses that were pending on mount are waited for.
PollListOnce(i) ==
    /\ HasPending
    /\ LoadingCourses
    /\ listing[i] = Idle
    /\ listing' = [listing EXCEPT ![i] = [stage |-> "asked"]]
    /\ UNCHANGED <<server, page, list, load, generating, deleting, errors>>

PollList(i) ==
    /\ HasPending
    /\ listing[i] = Idle
    /\ listing' = [listing EXCEPT ![i] = [stage |-> "asked"]]
    /\ UNCHANGED <<server, page, list, load, generating, deleting, errors>>

Items ==    \* the rows of ListCourses, through mapCourse
    [c \in Courses |-> CASE phase[c] = "pending" -> "pending"
                         [] phase[c] = "ready" -> "completed"
                         [] OTHER -> "absent"]

AnswerList(i) ==
    /\ listing[i].stage = "asked"
    /\ \/ /\ listing' = [listing EXCEPT ![i] = [stage |-> "answered", items |-> Items]]
          /\ UNCHANGED errors
       \/ Error /\ listing' = [listing EXCEPT ![i] = [stage |-> "error"]]
    /\ UNCHANGED <<server, page, list, load, generating, deleting>>

\* After a generation the library opens, without leaving the selected course.
DeliverList(i) ==
    /\ listing[i].stage \in {"answered", "error"}
    /\ listing' = [listing EXCEPT ![i] = Idle]
    /\ list' = IF listing[i].stage = "answered" THEN listing[i].items ELSE list
    /\ IF i \in Courses
       THEN /\ generating' = [generating EXCEPT ![i] = "done"]
            /\ screen' = IF listing[i].stage = "answered" THEN "library" ELSE screen
       ELSE UNCHANGED <<generating, screen>>
    /\ UNCHANGED <<server, selected, content, status, loading, load, deleting, errors>>

-------------------------------------------------------------------------------
(***************************************************************************)
(* handleGenerateCourse and handleDeleteCourse.                            *)
(***************************************************************************)
Submit(c) ==
    /\ screen = "create"
    /\ generating[c] = "no"
    /\ generating' = [generating EXCEPT ![c] = "posted"]
    /\ UNCHANGED <<server, page, list, load, listing, deleting, errors>>

ServerCreates(c) ==
    /\ generating[c] = "posted"
    /\ \/ /\ Service!Create(c)
          /\ generating' = [generating EXCEPT ![c] = "created"]
          /\ UNCHANGED errors
       \/ /\ Error
          /\ generating' = [generating EXCEPT ![c] = "done"]
          /\ UNCHANGED server
    /\ UNCHANGED <<page, list, load, listing, deleting>>

\* The 202 arrives and the list is asked for; or it is lost, and the user is
\* told that the generation has failed.
DeliverAccepted(c) ==
    /\ generating[c] = "created"
    /\ Service!Promise(c)
    /\ \/ /\ generating' = [generating EXCEPT ![c] = "listing"]
          /\ listing' = [listing EXCEPT ![c] = [stage |-> "asked"]]
          /\ UNCHANGED errors
       \/ /\ Error
          /\ generating' = [generating EXCEPT ![c] = "done"]
          /\ UNCHANGED listing
    /\ UNCHANGED <<page, list, load, deleting>>

\* The handler goes on with the selectedCourseId of the render it was made in.
ClickDelete(c) ==
    /\ screen = "library"
    /\ ~LoadingCourses
    /\ list[c] # "absent"
    /\ deleting[c] = "no"
    /\ deleting' = [deleting EXCEPT ![c] = IF selected = c THEN "asked_selected" ELSE "asked"]
    /\ UNCHANGED <<server, page, list, load, listing, generating, errors>>

ServerDeletes(c) ==
    /\ deleting[c] \in {"asked", "asked_selected"}
    /\ \/ /\ Service!Delete(c)
          /\ deleting' = [deleting EXCEPT ![c] = IF @ = "asked" THEN "done" ELSE "done_selected"]
          /\ UNCHANGED errors
       \/ /\ phase[c] = "gone"      \* 404: nothing but a message
          /\ deleting' = [deleting EXCEPT ![c] = "no"]
          /\ UNCHANGED <<server, errors>>
       \/ /\ Error              \* before or after the row is deleted
          /\ deleting' = [deleting EXCEPT ![c] = "no"]
          /\ UNCHANGED server \/ Service!Delete(c)
    /\ UNCHANGED <<page, list, load, listing, generating>>

DeliverDeleted(c) ==
    /\ deleting[c] \in {"done", "done_selected"}
    /\ deleting' = [deleting EXCEPT ![c] = "no"]
    /\ list' = [list EXCEPT ![c] = "absent"]
    /\ IF deleting[c] = "done_selected" THEN BackToLibrary ELSE UNCHANGED page
    /\ UNCHANGED <<server, load, listing, generating, errors>>

ServerFinishes(c) ==
    /\ Service!Finish(c)
    /\ UNCHANGED <<page, list, load, listing, generating, deleting, errors>>

-------------------------------------------------------------------------------
User ==
    \/ Back
    \/ OpenCreation
    \/ \E c \in Courses : Select(c) \/ Submit(c) \/ ClickDelete(c)

Answer(c) == ServerCreates(c) \/ ServerDeletes(c)
Deliver(c) == DeliverAccepted(c) \/ DeliverDeleted(c)

Next ==
    \/ User
    \/ \E i \in Loads : PollContent(i) \/ AnswerContent(i) \/ DeliverContent(i)
    \/ \E i \in Polls : PollList(i)
    \/ \E i \in ListRequests : AnswerList(i) \/ DeliverList(i)
    \/ \E c \in Courses : Answer(c) \/ Deliver(c) \/ ServerFinishes(c)

Spec == Init /\ [][Next]_vars

\* Timers fire and requests are answered and delivered; the user owes nothing,
\* and nothing is assumed of how long a course takes.
Fairness ==
    /\ WF_vars(\E i \in Loads : PollContent(i))
    /\ WF_vars(\E i \in Polls : PollList(i))
    /\ \A i \in Loads : WF_vars(AnswerContent(i)) /\ WF_vars(DeliverContent(i))
    /\ \A i \in ListRequests : WF_vars(AnswerList(i)) /\ WF_vars(DeliverList(i))
    /\ \A c \in Courses : WF_vars(Answer(c)) /\ WF_vars(Deliver(c))

FairSpec == Spec /\ Fairness

-------------------------------------------------------------------------------
(***************************************************************************)
(* Properties.                                                             *)
(***************************************************************************)
OnPageOf(c) == screen = "course" /\ selected = c

\* CourseTextView is rendered, and shows under its title the text of c.
Shows(c) == OnPageOf(c) /\ CurrentCourse /\ ~loading /\ status = "ready" /\ content = c

\* README.md, step 4: the UI polls /courses/{id}/content until status=ready.
\* While a course page is open, polling has stopped only because the text of
\* that course has arrived.
PollsUntilReady ==
    \A c \in Courses : OnPageOf(c) /\ status = "ready" => content = c

\* The text of a page that is kept open comes up, and the page with it, once the
\* server has it, in whatever order the answers of overlapping polls arrive
\* (App.tsx:57-94: a late "pending" starts the polling again; App.tsx:176: the
\* page is rendered only for a listed course).
PageCatchesUp ==
    \A c \in Courses :
        OnPageOf(c) /\ phase[c] = "ready" ~> Shows(c) \/ ~OnPageOf(c) \/ phase[c] = "gone"

\* A course that the library lists as unfinished does not stay so once the
\* server has finished or deleted it, in whatever order lists arrive
\* (App.tsx:39-55: the list is polled while one of its courses is unfinished).
\* An older list may take the course out of the library instead.
LibraryCatchesUp ==
    \A c \in Courses :
        list[c] = "pending" /\ phase[c] \in {"ready", "gone"} ~> list[c] # "pending"

-------------------------------------------------------------------------------
(***************************************************************************)
(* For CourseAppProofs.                                                    *)
(***************************************************************************)

\* No answer about one course is delivered while another one is selected: the
\* comparison that loadCourseContent does not make.
OwnAnswersOnly ==
    \A i \in Loads : DeliverContent(i) => selected \in {NoCourse, load[i].course}

\* Inductive under OwnAnswersOnly: the text on the page is the selected one's.
OwnText ==
    /\ TypeOK
    /\ status = "ready" /\ selected # NoCourse => content = selected

\* What the browser lists, shows or is about to be told is what the server had:
\* it may be old, but never ahead of the server.
Had(c, entry) ==
    CASE entry = "absent"    -> TRUE
      [] entry = "pending"   -> phase[c] # "absent"
      [] entry = "completed" -> phase[c] \in {"ready", "gone"}

BehindTheServer ==
    /\ \A c \in Courses : Had(c, list[c])
    /\ \A i \in ListRequests : listing[i].stage = "answered" =>
          \A c \in Courses : Had(c, listing[i].items[c])
    /\ content # NoCourse => phase[content] \in {"ready", "gone"}
    /\ \A i \in Loads : load[i].stage = "ready" => phase[load[i].course] \in {"ready", "gone"}
    /\ \A c \in Courses :
          /\ generating[c] \in {"created", "listing"} => phase[c] # "absent"
          /\ deleting[c] \in {"done", "done_selected"} => phase[c] = "gone"

\* "Loading" is shown only while a content request is under way.
LoadingIsReal == loading => \E i \in Loads : load[i] # Idle
==============================================================================
