------------------------------- MODULE Screens -------------------------------
(***************************************************************************)
(* The screens of the application together (src/src/app/App.tsx): the      *)
(* library and the creation form, the handlers of App that lead from one   *)
(* to the other, and the lists of the server.                              *)
(*                                                                         *)
(* CourseApp has the course page with its text, deletions, and lists that  *)
(* overlap; here the page is a place to be, nothing is deleted, and of the *)
(* lists only the one after a generation is answered and delivered apart.  *)
(***************************************************************************)
EXTENDS CourseLibrary, CourseForm

CONSTANT Worked     \* bound: the courses that the worker takes up

ASSUME ScreensAssumption == Courses \cap {"library", "create"} = {}

VARIABLES
    screen,     \* currentScreen; for "course" it is the course of the page
    post,       \* how far handleGenerateCourse is with each course
    mine,       \* the courses that the mounted form has asked for
    rows,       \* the server: its courses, newest first
    phase       \* the server: courses.status of each course

library == <<list, loadingCourses, filters>>
server == <<rows, phase>>
vars == <<library, form, screen, post, mine, server>>

Phases == {"pending", "processing", "completed"}
Items == [c \in Page(rows) |-> MapCourse(c, phase[c])]

Init ==
    /\ LibraryInit /\ FormInit
    /\ screen = "library"
    /\ post = [c \in Courses |-> Idle]
    /\ mine = {}
    /\ rows = <<>>
    /\ phase = [c \in Courses |-> "pending"]

-------------------------------------------------------------------------------
(***************************************************************************)
(* Navigation.                                                             *)
(***************************************************************************)
UseLibrary ==
    /\ screen = "library"
    /\ LibraryStep
    /\ UNCHANGED <<form, screen, post, mine, server>>

OpenCreation ==     \* handleCreateCourse
    /\ screen = "library"
    /\ screen' = "create"
    /\ LibraryUnmounts
    /\ UNCHANGED <<list, loadingCourses, form, post, mine, server>>

SelectCourse(c) ==  \* handleCourseSelect
    /\ screen = "library"
    /\ c \in Cards
    /\ screen' = c
    /\ LibraryUnmounts
    /\ UNCHANGED <<list, loadingCourses, form, post, mine, server>>

\* The requests of the form go on, and so does what they will do to the screen.
CloseForm ==
    /\ FormUnmounts
    /\ mine' = {}

Back ==     \* handleBackToLibrary
    /\ screen' = "library"
    /\ \/ screen = "create" /\ CloseForm /\ UNCHANGED <<stored, errors>>
       \/ screen \in DOMAIN list /\ UNCHANGED <<form, mine>>
    /\ UNCHANGED <<library, post, server>>

UseForm ==
    /\ screen = "create"
    /\ FieldStep
    /\ UNCHANGED <<library, screen, post, mine, server>>

FormRequest ==
    /\ RequestStep
    /\ UNCHANGED <<library, screen, post, mine, server>>

-------------------------------------------------------------------------------
(***************************************************************************)
(* The lists of courses: on mount, and by polling.                         *)
(***************************************************************************)
Mounted ==  \* the first list arrives, or fails
    /\ loadingCourses
    /\ loadingCourses' = FALSE
    /\ \/ list' = Items /\ UNCHANGED errors
       \/ Error /\ UNCHANGED list
    /\ UNCHANGED <<filters, fields, documents, generating, screen, post, mine, server>>

Poll ==
    /\ \E c \in DOMAIN list : list[c].status # "completed"
    /\ list' = Items
    /\ UNCHANGED <<loadingCourses, filters, form, screen, post, mine, server>>

-------------------------------------------------------------------------------
(***************************************************************************)
(* handleGenerateCourse, awaited by handleGenerate of the form.            *)
(***************************************************************************)
Generate(c) ==
    /\ screen = "create"
    /\ CanGenerate
    /\ post[c] = Idle
    /\ generating' = TRUE
    /\ \E types \in TypesToggled :
          post' = [post EXCEPT ![c] = [stage |-> "posted", payload |-> Payload(types)]]
    /\ mine' = mine \cup {c}
    /\ UNCHANGED <<library, fields, documents, errors, screen, server>>

Insert(c) == rows' = <<c>> \o rows

\* The error is caught and shown, and the form that has asked goes on.
Fail(c) ==
    /\ Error
    /\ post' = [post EXCEPT ![c] = At("failed")]
    /\ generating' = IF c \in mine THEN FALSE ELSE generating

\* The course is created, and the 202 makes App ask for the list; or the
\* request is refused, or the answer is lost.
ServerCreates(c) ==
    /\ post[c].stage = "posted"
    /\ \/ /\ Insert(c)
          /\ post' = [post EXCEPT ![c] = At("listing")]
          /\ UNCHANGED <<errors, generating>>
       \/ Fail(c) /\ (Insert(c) \/ UNCHANGED rows)
    /\ UNCHANGED <<library, fields, documents, screen, mine, phase>>

\* A list that fails leaves the form open over a course that has been created.
AnswerCreated(c) ==
    /\ post[c] = At("listing")
    /\ \/ post' = [post EXCEPT ![c] = Answered(Items)] /\ UNCHANGED <<errors, generating>>
       \/ Fail(c)
    /\ UNCHANGED <<library, fields, documents, screen, mine, server>>

\* The library opens whatever screen is open: a form too that the user has
\* opened since.
DeliverCreated(c) ==
    /\ post[c].stage = "answered"
    /\ post' = [post EXCEPT ![c] = At("done")]
    /\ list' = post[c].items
    /\ screen' = "library"
    /\ IF screen = "create"
       THEN CloseForm /\ UNCHANGED <<stored, errors>>
       ELSE UNCHANGED <<form, mine>>
    /\ UNCHANGED <<loadingCourses, filters, server>>

Work(c) ==      \* the worker
    /\ c \in Worked \cap RowsOf(rows)
    /\ phase[c] # "completed"
    /\ phase' = [phase EXCEPT ![c] = IF @ = "pending" THEN "processing" ELSE "completed"]
    /\ UNCHANGED <<library, form, screen, post, mine, rows>>

-------------------------------------------------------------------------------
Next ==
    \/ UseLibrary \/ UseForm \/ OpenCreation \/ Back
    \/ FormRequest \/ Mounted \/ Poll
    \/ \E c \in Courses :
          \/ SelectCourse(c) \/ Generate(c)
          \/ ServerCreates(c) \/ AnswerCreated(c) \/ DeliverCreated(c) \/ Work(c)

Spec == Init /\ [][Next]_vars

-------------------------------------------------------------------------------
(***************************************************************************)
(* Properties.                                                             *)
(***************************************************************************)
TypeOK ==
    /\ LibraryTypeOK /\ FormTypeOK
    /\ screen \in {"library", "create"} \cup Courses
    /\ post \in [Courses -> {Idle, At("listing"), At("done"), At("failed")} \cup
          [stage : {"posted"}, payload : Payloads] \cup [stage : {"answered"}, items : Listings]]
    /\ mine \subseteq Courses
    /\ rows \in Seq(Courses)
    /\ phase \in [Courses -> Phases]

\* Of the courses that one form has made, all but one were made by a request that
\* ended with an error, which the user was shown: neither a second click while the
\* first request or the list after it is under way, nor the late answer to a form
\* that was left, enables the button too early (CourseCreation.tsx:51-58 and 413
\* against App.tsx:128-151).
OneCoursePerForm ==
    \A c, d \in mine \cap RowsOf(rows) :
        post[c] # At("failed") /\ post[d] # At("failed") => c = d

\* A request names documents exactly if it asks for a course from documents, and
\* the server has them all, however the user has switched between the modes and
\* in whatever order lists of documents have arrived (App.tsx:136-137 against
\* CourseCreation.tsx:60-92).
SentDocuments ==
    \A c \in Courses : post[c].stage = "posted" =>
        LET p == post[c].payload
        IN  /\ p.documents # {} <=> p.structure = {"documents"}
            /\ p.documents \subseteq RowsOf(stored)

\* When a form is told that its upload is done, the document is among those it
\* shows, unless so many newer ones have been stored that it is no longer on the
\* page of the list (CourseCreation.tsx:98-101, utils.go:14).
UploadedIsListed ==
    [][\A d \in Docs :
        upload[d].stage = "answered" /\ upload'[d] = At("done") /\ screen' = "create" =>
            d \in listed' \/ \E i \in DOMAIN stored : stored[i] = d /\ i > PageLimit]_vars

\* A user who is taken from the form to the library sees the card of the new
\* course: no filter set earlier hides it, and only newer courses drive it from
\* the page (App.tsx:143-145, CourseLibrary.tsx:24-37, utils.go:14).
AcceptedIsVisible ==
    [][\A c \in Courses :
        /\ screen = "create"
        /\ post[c].stage = "answered" /\ post'[c] = At("done")
        =>  \/ loadingCourses'
            \/ c \in Cards'
            \/ \E i \in DOMAIN rows : rows[i] = c /\ i > PageLimit]_vars

\* The form never waits for nothing: while the button says that a course is
\* generated, a request of this very form is under way, and the other way round;
\* while the label says that documents are loaded, a list is.  Requests fail,
\* overlap and outlive the form that has sent them (CourseCreation.tsx:51-58,
\* 60-78 and 352-370 against App.tsx:128-151).
WaitsForSomething ==
    /\ generating <=> \E c \in mine : post[c].stage \in {"posted", "listing", "answered"}
    /\ loadingDocuments => \E i \in Loads : load[i] # Idle
==============================================================================
