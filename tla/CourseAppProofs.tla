--------------------------- MODULE CourseAppProofs ---------------------------
(***************************************************************************)
(* Theorems about CourseApp, for any courses, any number of requests under *)
(* way and any number of failures, unless one says otherwise.              *)
(***************************************************************************)
EXTENDS CourseApp, TLAPS

\* The types hold at the start.
LEMMA InitApp == Init => TypeOK
<1> SUFFICES ASSUME Init PROVE TypeOK
  OBVIOUS
<1>1. Service!TypeOK
  BY DEF Init, Service!Init, Service!TypeOK, Service!Phases
<1>2. list \in [Courses -> Entries] /\ errors \in 0 .. MaxErrors
  BY ErrorsAssumption DEF Init, Entries
<1>3. load \in [Loads -> {Idle} \cup
          [stage : {"asked", "pending", "ready", "error"}, course : Courses]]
  BY DEF Init
<1>4. listing \in [ListRequests -> {Idle, [stage |-> "asked"], [stage |-> "error"]} \cup
          [stage : {"answered"}, items : [Courses -> Entries]]]
  BY DEF Init
<1>5. /\ generating \in [Courses -> {"no", "posted", "created", "listing", "done"}]
      /\ deleting \in [Courses -> {"no", "asked", "asked_selected", "done", "done_selected"}]
  BY DEF Init
<1>6. /\ screen \in {"library", "create", "course"}
      /\ selected \in Courses \cup {NoCourse}
      /\ content \in Courses \cup {NoCourse}
      /\ status = "pending"
      /\ loading \in BOOLEAN
  BY DEF Init
<1> QED
  BY <1>1, <1>2, <1>3, <1>4, <1>5, <1>6 DEF TypeOK

\* The user acts.
LEMMA UserApp ==
    ASSUME TypeOK, User
    PROVE  TypeOK'
<1> USE NoCourseAssumption
    DEF TypeOK, page, server, Service!TypeOK, StartLoad, BackToLibrary
<1>1. CASE Back
  BY <1>1 DEF Back
<1>2. CASE OpenCreation
  BY <1>2 DEF OpenCreation
<1>3. ASSUME NEW c \in Courses, Select(c)
      PROVE  TypeOK'
  BY <1>3 DEF Select
<1>4. ASSUME NEW c \in Courses, Submit(c)
      PROVE  TypeOK'
  BY <1>4 DEF Submit
<1>5. ASSUME NEW c \in Courses, ClickDelete(c)
      PROVE  TypeOK'
  BY <1>5 DEF ClickDelete
<1> QED
  BY <1>1, <1>2, <1>3, <1>4, <1>5 DEF User

\* A content request is sent, answered or delivered.
LEMMA ContentApp ==
    ASSUME TypeOK, NEW i \in Loads, PollContent(i) \/ AnswerContent(i) \/ DeliverContent(i)
    PROVE  TypeOK'
<1> USE NoCourseAssumption DEF TypeOK, page, server, Service!TypeOK, Idle
<1>1. CASE PollContent(i)
  BY <1>1 DEF PollContent, StartLoad
<1>2. CASE AnswerContent(i)
  BY <1>2, ErrorsAssumption DEF AnswerContent, ContentAnswer, Error
<1>3. CASE DeliverContent(i)
  <2>1. load' \in [Loads -> {Idle} \cup
           [stage : {"asked", "pending", "ready", "error"}, course : Courses]]
    BY <1>3 DEF DeliverContent
  <2>2. load[i].course \in Courses
    BY <1>3 DEF DeliverContent
  <2>3. CASE load[i].stage = "ready"
    BY <1>3, <2>1, <2>2, <2>3 DEF DeliverContent
  <2>4. CASE load[i].stage = "pending"
    BY <1>3, <2>1, <2>4 DEF DeliverContent
  <2>5. CASE load[i].stage = "error"
    BY <1>3, <2>1, <2>5 DEF DeliverContent
  <2> QED
    BY <1>3, <2>3, <2>4, <2>5 DEF DeliverContent
<1> QED
  BY <1>1, <1>2, <1>3

\* A list request is sent, answered or delivered.
LEMMA ListApp ==
    ASSUME TypeOK, NEW i \in ListRequests, AnswerList(i) \/ DeliverList(i) \/ (i \in Polls /\ PollList(i))
    PROVE  TypeOK'
<1> USE DEF TypeOK, page, server, Service!TypeOK, Idle
<1>1. CASE PollList(i)
  BY <1>1 DEF PollList
<1>2. CASE AnswerList(i)
  BY <1>2, ErrorsAssumption DEF AnswerList, Items, Entries, Error
<1>3. CASE DeliverList(i)
  BY <1>3 DEF DeliverList
<1> QED
  BY <1>1, <1>2, <1>3

\* The server answers a generation or a deletion, its answer is delivered, or it
\* finishes a text.
LEMMA CourseStepApp ==
    ASSUME TypeOK, NEW c \in Courses, Answer(c) \/ Deliver(c) \/ ServerFinishes(c)
    PROVE  TypeOK'
<1> USE ErrorsAssumption
    DEF TypeOK, page, server, Service!TypeOK, Service!Phases, Service!Create,
        Service!Promise, Service!Finish, Service!Delete, Error
<1>1. CASE ServerCreates(c)
  BY <1>1 DEF ServerCreates
<1>2. CASE ServerDeletes(c)
  BY <1>2 DEF ServerDeletes
<1>3. CASE DeliverAccepted(c)
  BY <1>3 DEF DeliverAccepted, ListRequests
<1>4. CASE DeliverDeleted(c)
  BY <1>4 DEF DeliverDeleted, BackToLibrary, Entries
<1>5. CASE ServerFinishes(c)
  BY <1>5 DEF ServerFinishes
<1> QED
  BY <1>1, <1>2, <1>3, <1>4, <1>5 DEF Answer, Deliver

\* The type invariant is inductive.
LEMMA NextApp == TypeOK /\ [Next]_vars => TypeOK'
<1>1. TypeOK /\ UNCHANGED vars => TypeOK'
  BY DEF vars, server, page, TypeOK, Service!TypeOK
<1>2. Polls \subseteq ListRequests
  BY DEF ListRequests
<1> QED
  BY <1>1, <1>2, UserApp, ContentApp, ListApp, CourseStepApp DEF Next

\* Every variable keeps its type, whatever order the answers arrive in.
THEOREM AppTypeCorrectness == Spec => []TypeOK
BY InitApp, NextApp, PTL DEF Spec

-------------------------------------------------------------------------------
(***************************************************************************)
(* The text of the page.                                                   *)
(***************************************************************************)

\* The page gets the text of another course only by the delivery of an answer
\* about that course.
LEMMA NextOwnText == OwnText /\ [Next /\ OwnAnswersOnly]_vars => OwnText'
<1> SUFFICES ASSUME OwnText, [Next /\ OwnAnswersOnly]_vars PROVE OwnText'
  OBVIOUS
<1> USE NoCourseAssumption DEF OwnText, page, server
<1>1. TypeOK'
  BY NextApp
<1>2. CASE User
  BY <1>1, <1>2 DEF User, Back, BackToLibrary, OpenCreation, Select, Submit, ClickDelete
<1>3. ASSUME NEW i \in Loads, PollContent(i) \/ AnswerContent(i)
      PROVE  OwnText'
  BY <1>1, <1>3 DEF PollContent, AnswerContent
<1>4. ASSUME NEW i \in Loads, DeliverContent(i), OwnAnswersOnly
      PROVE  OwnText'
  <2>1. selected \in {NoCourse, load[i].course} /\ selected' = selected
    BY <1>4 DEF OwnAnswersOnly, DeliverContent
  <2>2. \/ status' = "ready" /\ content' = load[i].course
        \/ status' = "pending"
        \/ UNCHANGED <<content, status>>
    BY <1>4 DEF DeliverContent
  <2> QED
    BY <1>1, <2>1, <2>2
<1>5. ASSUME NEW i, PollList(i) \/ AnswerList(i) \/ DeliverList(i)
      PROVE  OwnText'
  BY <1>1, <1>5 DEF PollList, AnswerList, DeliverList
<1>6. ASSUME NEW c \in Courses, Answer(c) \/ Deliver(c) \/ ServerFinishes(c)
      PROVE  OwnText'
  BY <1>1, <1>6 DEF Answer, Deliver, ServerCreates, ServerDeletes, DeliverAccepted,
                    DeliverDeleted, BackToLibrary, ServerFinishes
<1>7. CASE UNCHANGED vars
  BY <1>1, <1>7 DEF vars
<1> QED
  BY <1>2, <1>3, <1>4, <1>5, <1>6, <1>7 DEF Next

\* As long as no answer about one course is delivered while another one is
\* selected, the polling of an open page stops only with the text of that page.
LEMMA OwnAnswersArePolledFor == Spec /\ [][OwnAnswersOnly]_vars => []PollsUntilReady
<1>1. Init => OwnText
  BY InitApp DEF Init, OwnText
<1>2. OwnText => PollsUntilReady
  BY NoCourseAssumption DEF OwnText, PollsUntilReady, OnPageOf
<1>3. [Next]_vars /\ [OwnAnswersOnly]_vars => [Next /\ OwnAnswersOnly]_vars
  OBVIOUS
<1> QED
  BY <1>1, <1>2, <1>3, NextOwnText, PTL DEF Spec

\* A user who has only one course sees its page wait until its own text has
\* arrived, whatever is delivered late or lost.
THEOREM OneCourseIsPolled ==
    ASSUME \A a, b \in Courses : a = b
    PROVE  Spec => []PollsUntilReady
<1>1. TypeOK /\ [Next]_vars => [OwnAnswersOnly]_vars
  <2> SUFFICES ASSUME TypeOK, NEW i \in Loads, DeliverContent(i)
               PROVE  selected \in {NoCourse, load[i].course}
    BY DEF OwnAnswersOnly
  <2>1. load[i].course \in Courses
    BY DEF TypeOK, DeliverContent, Idle
  <2> QED
    BY <2>1 DEF TypeOK
<1> QED
  BY <1>1, AppTypeCorrectness, OwnAnswersArePolledFor, PTL DEF Spec

-------------------------------------------------------------------------------
\* Every step of the tab and its requests is a step of the server or leaves it alone.
LEMMA StepMeetsService == [Next]_vars => [Service!Next]_(Service!vars)
<1> SUFFICES ASSUME [Next]_vars PROVE Service!Next \/ UNCHANGED <<phase, promised>>
  BY DEF Service!vars
<1> USE DEF server
<1>1. CASE User
  BY <1>1 DEF User, Back, OpenCreation, Select, Submit, ClickDelete
<1>2. ASSUME NEW i \in Loads, PollContent(i) \/ AnswerContent(i) \/ DeliverContent(i)
      PROVE  UNCHANGED <<phase, promised>>
  BY <1>2 DEF PollContent, AnswerContent, DeliverContent
<1>3. ASSUME NEW i, PollList(i) \/ AnswerList(i) \/ DeliverList(i)
      PROVE  UNCHANGED <<phase, promised>>
  BY <1>3 DEF PollList, AnswerList, DeliverList
<1>4. ASSUME NEW c \in Courses, Answer(c) \/ Deliver(c) \/ ServerFinishes(c)
      PROVE  Service!Next \/ UNCHANGED <<phase, promised>>
  BY <1>4 DEF Answer, Deliver, ServerCreates, ServerDeletes, DeliverAccepted, DeliverDeleted,
              ServerFinishes, Service!Next
<1>5. CASE UNCHANGED vars
  BY <1>5 DEF vars
<1> QED
  BY <1>1, <1>2, <1>3, <1>4, <1>5 DEF Next

-------------------------------------------------------------------------------
(***************************************************************************)
(* What the browser knows.                                                 *)
(***************************************************************************)

\* A course that exists does not become absent, one with its text keeps it until
\* it is deleted, and a deleted one stays so.
LEMMA PhasesGoOn ==
    ASSUME TypeOK, [Next]_vars, NEW c \in Courses
    PROVE  /\ phase[c] # "absent" => phase'[c] # "absent"
           /\ phase[c] \in {"ready", "gone"} => phase'[c] \in {"ready", "gone"}
           /\ phase[c] = "gone" => phase'[c] = "gone"
<1> USE DEF TypeOK, Service!TypeOK, Service!Phases
<1>1. CASE UNCHANGED phase
  BY <1>1
<1>2. CASE Service!Next
  BY <1>2 DEF Service!Next, Service!Create, Service!Promise, Service!Finish, Service!Delete
<1> QED
  BY <1>1, <1>2, StepMeetsService DEF Service!vars

\* A step of the server, or of the user, leaves the browser behind the server.
LEMMA NextBehind ==
    ASSUME TypeOK, BehindTheServer, [Next]_vars
    PROVE  BehindTheServer'
<1> USE NoCourseAssumption DEF BehindTheServer, page, server, Idle
<1>0. \A c \in Courses :
         /\ phase[c] # "absent" => phase'[c] # "absent"
         /\ phase[c] \in {"ready", "gone"} => phase'[c] \in {"ready", "gone"}
         /\ phase[c] = "gone" => phase'[c] = "gone"
  BY PhasesGoOn
<1>1. ASSUME NEW c \in Courses, NEW entry \in Entries, Had(c, entry)
      PROVE  Had(c, entry)'
  BY <1>0, <1>1 DEF Had, Entries
<1>2. \A c \in Courses : list[c] \in Entries
  BY DEF TypeOK
<1>3. \A i \in ListRequests : listing[i].stage = "answered" => \A c \in Courses : listing[i].items[c] \in Entries
  BY DEF TypeOK
<1>4. \A i \in Loads : load[i].stage = "ready" => load[i].course \in Courses
  BY DEF TypeOK
<1>5. CASE User
  <2>1. UNCHANGED <<phase, list, listing>>
    BY <1>5 DEF User, Back, OpenCreation, Select, Submit, ClickDelete
  <2>2. content' # NoCourse => content' = content
    BY <1>5 DEF User, Back, BackToLibrary, OpenCreation, Select, Submit, ClickDelete
  <2>3. \A i \in Loads : load'[i].stage = "ready" => load'[i] = load[i]
    BY <1>5 DEF User, Back, OpenCreation, Select, Submit, ClickDelete, StartLoad, TypeOK
  <2>4. \A c \in Courses :
          /\ generating'[c] \in {"created", "listing"} => generating'[c] = generating[c]
          /\ deleting'[c] \in {"done", "done_selected"} => deleting'[c] = deleting[c]
    BY <1>5 DEF User, Back, OpenCreation, Select, Submit, ClickDelete, TypeOK
  <2> QED
    BY <2>1, <2>2, <2>3, <2>4 DEF Had
<1>6. ASSUME NEW i \in Loads, PollContent(i)
      PROVE  BehindTheServer'
  BY <1>6 DEF PollContent, StartLoad, TypeOK, Had
<1>7. ASSUME NEW i \in Loads, AnswerContent(i)
      PROVE  BehindTheServer'
  <2>1. UNCHANGED <<phase, list, listing, content, generating, deleting>>
    BY <1>7 DEF AnswerContent
  <2>2. \A j \in Loads \ {i} : load'[j] = load[j]
    BY <1>7 DEF AnswerContent, TypeOK
  <2>3. load'[i].stage = "ready" =>
          load'[i].course = load[i].course /\ phase[load[i].course] = "ready"
    BY <1>7 DEF AnswerContent, ContentAnswer, TypeOK
  <2> QED
    BY <2>1, <2>2, <2>3 DEF Had
<1>8. ASSUME NEW i \in Loads, DeliverContent(i)
      PROVE  BehindTheServer'
  BY <1>4, <1>8 DEF DeliverContent, TypeOK, Had
<1>9. ASSUME NEW i \in ListRequests, DeliverList(i) \/ AnswerList(i) \/ (i \in Polls /\ PollList(i))
      PROVE  BehindTheServer'
  <2>1. UNCHANGED <<phase, content, load, deleting>>
    BY <1>9 DEF DeliverList, AnswerList, PollList
  <2>2. \A c \in Courses : generating'[c] \in {"created", "listing"} => generating'[c] = generating[c]
    BY <1>9 DEF DeliverList, AnswerList, PollList, TypeOK
  <2>3. list' = list \/ (listing[i].stage = "answered" /\ list' = listing[i].items)
    BY <1>9 DEF DeliverList, AnswerList, PollList
  <2>4. \A j \in ListRequests \ {i} : listing'[j] = listing[j]
    BY <1>9 DEF DeliverList, AnswerList, PollList, TypeOK
  <2>5. listing'[i].stage = "answered" => listing'[i].items = Items
    BY <1>9 DEF DeliverList, AnswerList, PollList, TypeOK
  <2>6. \A c \in Courses : Had(c, Items[c])
    BY DEF Items, Had
  <2>7. \A c \in Courses : Had(c, list'[c]) /\ \A e \in Entries : Had(c, e)' <=> Had(c, e)
    BY <2>1, <2>3 DEF Had
  <2>8. \A c \in Courses : Items[c] \in Entries /\ list'[c] \in Entries
    BY <1>2, <1>3, <2>3 DEF Items, Entries
  <2> QED
    BY <1>1, <1>2, <1>3, <2>1, <2>2, <2>4, <2>5, <2>6, <2>7, <2>8
<1>10. ASSUME NEW c \in Courses, Answer(c) \/ Deliver(c) \/ ServerFinishes(c)
       PROVE  BehindTheServer'
  <2>1. /\ load' = load
        /\ content' # NoCourse => content' = content
        /\ \A d \in Courses : list'[d] \in {list[d], "absent"}
    BY <1>10 DEF Answer, Deliver, ServerCreates, ServerDeletes, DeliverAccepted, DeliverDeleted,
                 BackToLibrary, ServerFinishes, TypeOK
  <2>2. \A j \in ListRequests : listing'[j] = listing[j] \/ listing'[j].stage # "answered"
    BY <1>10 DEF Answer, Deliver, ServerCreates, ServerDeletes, DeliverAccepted, DeliverDeleted,
                 ServerFinishes, TypeOK
  <2>3. \A d \in Courses :
          generating'[d] \in {"created", "listing"} =>
              generating[d] \in {"created", "listing"} \/ phase'[d] # "absent"
    BY <1>10 DEF Answer, Deliver, ServerCreates, ServerDeletes, DeliverAccepted, DeliverDeleted,
                 ServerFinishes, TypeOK, Service!TypeOK, Service!Create
  <2>4. \A d \in Courses :
          deleting'[d] \in {"done", "done_selected"} =>
              deleting[d] \in {"done", "done_selected"} \/ phase'[d] = "gone"
    BY <1>10 DEF Answer, Deliver, ServerCreates, ServerDeletes, DeliverAccepted, DeliverDeleted,
                 ServerFinishes, TypeOK, Service!TypeOK, Service!Delete
  <2>5. ASSUME NEW d \in Courses PROVE Had(d, list[d])'
    <3>1. CASE list'[d] = "absent"
      BY <3>1 DEF Had
    <3>2. CASE list'[d] = list[d]
      BY <1>0, <1>2, <3>2 DEF Had, Entries
    <3> QED
      BY <2>1, <3>1, <3>2
  <2>6. content' # NoCourse => content' \in Courses /\ phase'[content'] \in {"ready", "gone"}
    BY <1>0, <2>1 DEF TypeOK
  <2>7. ASSUME NEW j \in ListRequests, listing'[j].stage = "answered", NEW d \in Courses
        PROVE  Had(d, listing[j].items[d])'
    <3>1. listing'[j] = listing[j] /\ listing[j].stage = "answered"
      BY <2>2, <2>7
    <3>2. listing[j].items[d] \in Entries /\ Had(d, listing[j].items[d])
      BY <1>3, <3>1
    <3> QED
      BY <1>0, <3>1, <3>2 DEF Had, Entries
  <2>8. \A i \in Loads : load'[i].stage = "ready" => phase'[load'[i].course] \in {"ready", "gone"}
    BY <1>0, <1>4, <2>1
  <2>9. \A d \in Courses :
          /\ generating'[d] \in {"created", "listing"} => phase'[d] # "absent"
          /\ deleting'[d] \in {"done", "done_selected"} => phase'[d] = "gone"
    BY <1>0, <2>3, <2>4
  <2> QED
    BY <2>5, <2>6, <2>7, <2>8, <2>9
<1>11. CASE UNCHANGED vars
  BY <1>11 DEF vars, Had
<1>12. Polls \subseteq ListRequests
  BY DEF ListRequests
<1> QED
  BY <1>5, <1>6, <1>7, <1>8, <1>9, <1>10, <1>11, <1>12 DEF Next

\* The library never lists a course as finished, and the page never has a text,
\* before the server has it: what is old or overtaken is behind the server, never
\* ahead of it, for any courses and any order of answers (App.tsx:39-94).
THEOREM BrowserIsBehindServer == Spec => []BehindTheServer
<1>1. Init => BehindTheServer
  BY DEF Init, BehindTheServer, Had, Idle
<1> QED
  BY <1>1, NextBehind, AppTypeCorrectness, PTL DEF Spec

\* The page never waits for a request that is over: "loading" means that one is
\* under way, however many overlap (App.tsx:73-84).
THEOREM LoadingIsAlwaysReal == Spec => []LoadingIsReal
<1>1. Init => LoadingIsReal
  BY DEF Init, LoadingIsReal
<1>2. TypeOK /\ LoadingIsReal /\ [Next]_vars => LoadingIsReal'
  <2> SUFFICES ASSUME TypeOK, LoadingIsReal, [Next]_vars PROVE LoadingIsReal'
    OBVIOUS
  <2> USE DEF LoadingIsReal, page, Idle
  <2>1. ASSUME NEW i \in Loads, load'[i] # Idle
        PROVE  LoadingIsReal'
    BY <2>1
  <2>2. ASSUME NEW i \in Loads, NEW c, StartLoad(i, c)
        PROVE  LoadingIsReal'
    BY <2>1, <2>2 DEF StartLoad, TypeOK
  <2>3. ASSUME NEW i \in Loads, AnswerContent(i)
        PROVE  LoadingIsReal'
    <3>1. load'[i].stage # "idle"
      BY <2>3 DEF AnswerContent, ContentAnswer, TypeOK
    <3> QED
      BY <2>1, <3>1
  <2>4. ASSUME NEW i \in Loads, DeliverContent(i)
        PROVE  LoadingIsReal'
    BY <2>4 DEF DeliverContent
  <2>5. CASE User
    BY <2>2, <2>5 DEF User, Back, BackToLibrary, OpenCreation, Select, Submit, ClickDelete
  <2>6. ASSUME NEW i, PollList(i) \/ AnswerList(i) \/ DeliverList(i)
        PROVE  LoadingIsReal'
    BY <2>6 DEF PollList, AnswerList, DeliverList
  <2>7. ASSUME NEW c \in Courses, Answer(c) \/ Deliver(c) \/ ServerFinishes(c)
        PROVE  LoadingIsReal'
    BY <2>7 DEF Answer, Deliver, ServerCreates, ServerDeletes, DeliverAccepted, DeliverDeleted,
                BackToLibrary, ServerFinishes
  <2>8. CASE UNCHANGED vars
    BY <2>8 DEF vars
  <2> QED
    BY <2>2, <2>3, <2>4, <2>5, <2>6, <2>7, <2>8 DEF Next, PollContent
<1> QED
  BY <1>1, <1>2, AppTypeCorrectness, PTL DEF Spec
==============================================================================
