---------------------------- MODULE ScreensProofs ----------------------------
(***************************************************************************)
(* Proofs about Screens, for any courses, documents, lengths of a page and *)
(* number of failures.                                                     *)
(***************************************************************************)
EXTENDS Screens, TLAPS

-------------------------------------------------------------------------------
(***************************************************************************)
(* Tables and pages of them.                                               *)
(***************************************************************************)

\* A row in front moves every other row one further back.
LEMMA RowInFront ==
    ASSUME NEW S, NEW table \in Seq(S), NEW x \in S
    PROVE  /\ <<x>> \o table \in Seq(S)
           /\ (<<x>> \o table)[1] = x /\ 1 \in DOMAIN (<<x>> \o table)
           /\ \A i \in DOMAIN table :
                 i + 1 \in DOMAIN (<<x>> \o table) /\ (<<x>> \o table)[i + 1] = table[i]
           /\ RowsOf(<<x>> \o table) = {x} \cup RowsOf(table)
<1> DEFINE longer == <<x>> \o table
<1>1. longer \in Seq(S) /\ Len(longer) = Len(table) + 1
    OBVIOUS
<1>2. longer[1] = x /\ \A i \in 1 .. Len(table) : longer[i + 1] = table[i]
    OBVIOUS
<1>3. DOMAIN longer = 1 .. Len(table) + 1 /\ DOMAIN table = 1 .. Len(table)
    BY <1>1
<1>4. RowsOf(longer) \subseteq {x} \cup RowsOf(table)
  <2>1. ASSUME NEW i \in DOMAIN longer PROVE longer[i] \in {x} \cup RowsOf(table)
    <3>1. CASE i = 1
        BY <3>1, <1>2
    <3>2. CASE i # 1
        BY <3>2, <1>2, <1>3 DEF RowsOf
    <3> QED
        BY <3>1, <3>2
  <2> QED
    BY <2>1 DEF RowsOf
<1>5. {x} \cup RowsOf(table) \subseteq RowsOf(longer)
  <2>1. x \in RowsOf(longer)
    BY <1>2, <1>3 DEF RowsOf
  <2>2. ASSUME NEW i \in DOMAIN table PROVE table[i] \in RowsOf(longer)
    <3>1. i + 1 \in DOMAIN longer /\ longer[i + 1] = table[i]
        BY <1>2, <1>3
    <3> QED
        BY <3>1 DEF RowsOf
  <2> QED
    BY <2>1, <2>2 DEF RowsOf
<1> QED
    BY <1>1, <1>2, <1>3, <1>4, <1>5

\* x has been driven from the page.
Displaced(x, table) == \E i \in DOMAIN table : table[i] = x /\ i > PageLimit

LEMMA DisplacedStays ==
    ASSUME NEW S, NEW table \in Seq(S), NEW x \in S, NEW y
    PROVE  Displaced(y, table) => Displaced(y, <<x>> \o table)
<1> SUFFICES ASSUME NEW i \in DOMAIN table, table[i] = y, i > PageLimit
             PROVE  Displaced(y, <<x>> \o table)
    BY DEF Displaced
<1>1. i + 1 \in DOMAIN (<<x>> \o table) /\ (<<x>> \o table)[i + 1] = y
    BY RowInFront
<1>2. i + 1 > PageLimit
    BY FormAssumption
<1> QED
    BY <1>1, <1>2 DEF Displaced

LEMMA OnPageOrDisplaced ==
    ASSUME NEW S, NEW table \in Seq(S), NEW y \in RowsOf(table)
    PROVE  y \in Page(table) \/ Displaced(y, table)
BY FormAssumption DEF RowsOf, Page, Displaced

LEMMA PageOfRows == \A table : Page(table) \subseteq RowsOf(table)
BY DEF Page, RowsOf

LEMMA RowsType == ASSUME NEW S, NEW table \in Seq(S) PROVE RowsOf(table) \subseteq S
BY DEF RowsOf

-------------------------------------------------------------------------------
(***************************************************************************)
(* Types.                                                                  *)
(***************************************************************************)
LEMMA CourseMapped ==
    \A c, s : MapCourse(c, s) \in [status : Statuses, difficulty : Difficulties]
<1> TAKE c, s
<1>1. MapCourseStatus(s) \in Statuses
    BY DEF MapCourseStatus, Statuses
<1>2. MapDifficulty(Level[c]) \in Difficulties
    BY DEF MapDifficulty, Difficulties
<1> QED
    BY <1>1, <1>2 DEF MapCourse

LEMMA ItemsType == ASSUME TypeOK PROVE Items \in Listings
<1>1. Page(rows) \subseteq Courses
    BY PageOfRows, RowsType DEF TypeOK
<1>2. Items \in [Page(rows) -> [status : Statuses, difficulty : Difficulties]]
    BY CourseMapped DEF Items
<1> QED
    BY <1>1, <1>2 DEF Listings

Loadings == {Idle, At("asked"), At("failed")} \cup [stage : {"answered"}, items : SUBSET Docs]
Uploadings ==
    {At(s) : s \in {"idle", "sent", "orphan", "listing", "done"}} \cup
    [stage : {"answered"}, items : SUBSET Docs]
Postings ==
    {Idle, At("listing"), At("done"), At("failed")} \cup [stage : {"posted"}, payload : Payloads] \cup
    [stage : {"answered"}, items : Listings]

LEMMA ErrorType == errors \in 0 .. MaxErrors /\ Error => errors' \in 0 .. MaxErrors
BY FormAssumption DEF Error

LEMMA UnmountTypes ==
    ASSUME FormTypeOK, FormUnmounts, UNCHANGED <<stored, errors>>
    PROVE  FormTypeOK'
<1>1. load' \in [Loads -> Loadings]
    BY DEF FormUnmounts, Loadings
<1>2. upload' \in [Docs -> Uploadings]
    BY DEF FormUnmounts, Uploadings, FormTypeOK
<1>3. loadingDocuments' \in BOOLEAN /\ generating' \in BOOLEAN /\ filled' \in BOOLEAN
    BY Zenon DEF FormUnmounts
<1> QED
    BY <1>1, <1>2, <1>3 DEF FormTypeOK, FormUnmounts, Loadings, Uploadings

LEMMA PageOfDocs == FormTypeOK => Page(stored) \subseteq Docs
BY PageOfRows, RowsType DEF FormTypeOK

LEMMA FieldTypes == ASSUME FormTypeOK, FieldStep PROVE FormTypeOK'
<1>1. CASE FillIn
  <2>1. filled' \in BOOLEAN
    BY <1>1, Zenon DEF FillIn
  <2> QED
    BY <1>1, <2>1 DEF FillIn, FormTypeOK
<1>2. ASSUME NEW m \in {"internet", "documents"}, SetMode(m) PROVE FormTypeOK'
  <2>1. load' \in [Loads -> Loadings] /\ loadingDocuments' \in BOOLEAN
    BY <1>2 DEF SetMode, FormTypeOK, Loadings
  <2> QED
    BY <1>2, <2>1 DEF SetMode, FormTypeOK, Loadings
<1>3. ASSUME NEW d \in Docs, ToggleDocument(d) PROVE FormTypeOK'
    BY <1>3 DEF ToggleDocument, FormTypeOK
<1>4. ASSUME NEW d \in Docs, ChooseFile(d) PROVE FormTypeOK'
  <2>1. upload' \in [Docs -> Uploadings]
    BY <1>4 DEF ChooseFile, FormTypeOK, Uploadings
  <2> QED
    BY <1>4, <2>1 DEF ChooseFile, FormTypeOK, Uploadings, fields
<1> QED
    BY <1>1, <1>2, <1>3, <1>4 DEF FieldStep

LEMMA RequestTypes == ASSUME FormTypeOK, RequestStep PROVE FormTypeOK'
<1>1. ASSUME NEW i \in Loads, AnswerLoad(i) PROVE FormTypeOK'
  <2>1. load' \in [Loads -> Loadings]
    BY <1>1, PageOfDocs DEF AnswerLoad, Answered, At, FormTypeOK, Loadings
  <2>2. errors' \in 0 .. MaxErrors
    BY <1>1, ErrorType DEF AnswerLoad, FormTypeOK
  <2> QED
    BY <1>1, <2>1, <2>2 DEF AnswerLoad, FormTypeOK, fields, Loadings
<1>2. ASSUME NEW i \in Loads, DeliverLoad(i) PROVE FormTypeOK'
  <2>1. load' \in [Loads -> Loadings]
    BY <1>2 DEF DeliverLoad, FormTypeOK, Loadings
  <2>2. listed' \subseteq Docs
    BY <1>2 DEF DeliverLoad, FormTypeOK, Idle, At
  <2>3. loadingDocuments' \in BOOLEAN
    BY <1>2, Zenon DEF DeliverLoad
  <2> QED
    BY <1>2, <2>1, <2>2, <2>3 DEF DeliverLoad, FormTypeOK, fields, Loadings
<1>3. ASSUME NEW d \in Docs, ServerUploads(d) PROVE FormTypeOK'
  <2>1. upload' \in [Docs -> Uploadings]
    BY <1>3 DEF ServerUploads, FormTypeOK, Uploadings
  <2>2. stored' \in Seq(Docs)
    <3>1. stored \in Seq(Docs) /\ <<d>> \o stored \in Seq(Docs)
        BY RowInFront DEF FormTypeOK
    <3>2. Store(d) \/ UNCHANGED stored
        BY <1>3, Zenon DEF ServerUploads
    <3> QED
        BY <3>1, <3>2 DEF Store
  <2>3. errors' \in 0 .. MaxErrors
    BY <1>3, ErrorType DEF ServerUploads, FormTypeOK
  <2> QED
    BY <1>3, <2>1, <2>2, <2>3 DEF ServerUploads, FormTypeOK, fields, Uploadings
<1>4. ASSUME NEW d \in Docs, AnswerUpload(d) PROVE FormTypeOK'
  <2>1. upload' \in [Docs -> Uploadings]
    BY <1>4, PageOfDocs DEF AnswerUpload, Answered, FormTypeOK, Uploadings
  <2>2. errors' \in 0 .. MaxErrors
    BY <1>4, ErrorType DEF AnswerUpload, FormTypeOK
  <2> QED
    BY <1>4, <2>1, <2>2 DEF AnswerUpload, FormTypeOK, fields, Uploadings
<1>5. ASSUME NEW d \in Docs, DeliverUpload(d) PROVE FormTypeOK'
  <2>1. upload' \in [Docs -> Uploadings]
    BY <1>5 DEF DeliverUpload, FormTypeOK, Uploadings
  <2>2. listed' \subseteq Docs
    BY <1>5 DEF DeliverUpload, FormTypeOK, At
  <2> QED
    BY <1>5, <2>1, <2>2 DEF DeliverUpload, FormTypeOK, fields, Uploadings
<1> QED
    BY <1>1, <1>2, <1>3, <1>4, <1>5 DEF RequestStep

LEMMA PostTypes ==
    ASSUME NEW c \in Courses, NEW p \in Postings, post \in [Courses -> Postings],
           post' = [post EXCEPT ![c] = p]
    PROVE  post' \in [Courses -> Postings]
OBVIOUS

LEMMA FormKept == FormTypeOK /\ UNCHANGED form => FormTypeOK'
BY DEF FormTypeOK, form, fields, documents, Loadings

LEMMA LibraryKept == LibraryTypeOK /\ UNCHANGED library => LibraryTypeOK'
BY DEF LibraryTypeOK, library, filters

LEMMA TypesHold == TypeOK /\ [Next]_vars => TypeOK'
<1> SUFFICES ASSUME TypeOK, [Next]_vars PROVE TypeOK'
    OBVIOUS
<1> DEFINE Rest ==
        /\ screen \in {"library", "create"} \cup Courses
        /\ post \in [Courses -> Postings]
        /\ mine \subseteq Courses
        /\ rows \in Seq(Courses)
        /\ phase \in [Courses -> Phases]
<1>0. LibraryTypeOK /\ FormTypeOK /\ Rest
    BY DEF TypeOK, Postings
<1>q. LibraryTypeOK' /\ FormTypeOK' /\ Rest' => TypeOK'
    BY DEF TypeOK, Postings
<1> HIDE DEF Rest
<1>1. CASE UseLibrary
  <2>1. LibraryTypeOK'
    <3>1. /\ search' \in Queries /\ statusFilter' \in StatusFilters
          /\ difficultyFilter' \in DifficultyFilters
        BY <1>0, <1>1 DEF UseLibrary, LibraryStep, Search, FilterByStatus, FilterByDifficulty,
                         LibraryTypeOK
    <3>2. UNCHANGED <<list, loadingCourses>>
        BY <1>1, Zenon DEF UseLibrary, LibraryStep
    <3> QED
        BY <1>0, <3>1, <3>2 DEF LibraryTypeOK
  <2>2. UNCHANGED <<form, screen, post, mine, server>>
    BY <1>1, Zenon DEF UseLibrary
  <2> QED
    BY <1>0, <1>q, <2>1, <2>2, FormKept DEF Rest, server
<1>2. ASSUME OpenCreation \/ \E c \in Courses : SelectCourse(c) PROVE TypeOK'
  <2>1. LibraryTypeOK'
    <3>1. UNCHANGED <<list, loadingCourses>> /\ LibraryUnmounts
        BY <1>2, Zenon DEF OpenCreation, SelectCourse
    <3> QED
        BY <1>0, <3>1, FiltersAssumption DEF LibraryTypeOK, LibraryUnmounts
  <2>2. UNCHANGED <<form, post, mine, server>> /\ screen' \in {"library", "create"} \cup Courses
    BY <1>2 DEF OpenCreation, SelectCourse
  <2> QED
    BY <1>0, <1>q, <2>1, <2>2, FormKept DEF Rest, server
<1>3. CASE Back
  <2>1. FormTypeOK' /\ mine' \subseteq Courses
    <3>1. CASE CloseForm /\ UNCHANGED <<stored, errors>>
        BY <1>0, <3>1, UnmountTypes DEF CloseForm
    <3>2. CASE UNCHANGED <<form, mine>>
        BY <1>0, <3>2, FormKept DEF Rest
    <3> QED
        BY <1>3, <3>1, <3>2 DEF Back
  <2>2. screen' = "library" /\ UNCHANGED <<library, post, server>>
    BY <1>3, Zenon DEF Back
  <2> QED
    BY <1>0, <1>q, <2>1, <2>2, LibraryKept DEF Rest, server
<1>4. CASE UseForm \/ FormRequest
  <2>1. FormTypeOK'
    BY <1>0, <1>4, FieldTypes, RequestTypes DEF UseForm, FormRequest
  <2>2. UNCHANGED <<library, screen, post, mine, server>>
    BY <1>4, Zenon DEF UseForm, FormRequest
  <2> QED
    BY <1>0, <1>q, <2>1, <2>2, LibraryKept DEF Rest, server
<1>5. CASE Mounted \/ Poll
  <2>1. LibraryTypeOK'
    <3>1. list' = Items \/ list' = list
        BY <1>5, Zenon DEF Mounted, Poll
    <3>2. list' \in Listings
        BY <1>0, <3>1, ItemsType DEF LibraryTypeOK
    <3>3. loadingCourses' \in BOOLEAN
        BY <1>0, <1>5, Zenon DEF Mounted, Poll, LibraryTypeOK
    <3>4. UNCHANGED filters
        BY <1>5, Zenon DEF Mounted, Poll
    <3> QED
        BY <1>0, <3>2, <3>3, <3>4 DEF LibraryTypeOK, filters
  <2>2. FormTypeOK'
    <3>1. UNCHANGED <<fields, documents, generating>> /\ (UNCHANGED errors \/ Error)
        BY <1>5, Zenon DEF Mounted, Poll, form
    <3> QED
        BY <1>0, <3>1, ErrorType DEF FormTypeOK, fields, documents
  <2>3. UNCHANGED <<screen, post, mine, server>>
    BY <1>5, Zenon DEF Mounted, Poll
  <2> QED
    BY <1>0, <1>q, <2>1, <2>2, <2>3 DEF Rest, server
<1>6. ASSUME NEW c \in Courses, Generate(c) PROVE TypeOK'
  <2>1. PICK types \in TypesToggled :
            post' = [post EXCEPT ![c] = [stage |-> "posted", payload |-> Payload(types)]]
    BY <1>6 DEF Generate
  <2>2. Payload(types) \in Payloads
    BY <1>0 DEF Payload, Payloads, TypesToggled, FormTypeOK
  <2>3. post' \in [Courses -> Postings]
    BY <1>0, <2>1, <2>2, PostTypes DEF Postings, Rest
  <2>4. generating' = TRUE /\ UNCHANGED <<fields, documents, errors>>
    BY <1>6, Zenon DEF Generate
  <2>5. FormTypeOK'
    BY <1>0, <2>4 DEF FormTypeOK, fields, documents
  <2>6. mine' = mine \cup {c} /\ UNCHANGED <<library, screen, server>>
    BY <1>6, Zenon DEF Generate
  <2> QED
    BY <1>0, <1>q, <2>3, <2>5, <2>6, LibraryKept DEF Rest, server
<1>7. ASSUME NEW c \in Courses, ServerCreates(c) \/ AnswerCreated(c) PROVE TypeOK'
  <2>1. post' \in [Courses -> Postings]
    <3>1. PICK p \in {At("listing"), At("failed"), Answered(Items)} : post' = [post EXCEPT ![c] = p]
        BY <1>7 DEF ServerCreates, AnswerCreated, Fail
    <3>2. p \in Postings
        BY ItemsType DEF Postings, Answered
    <3> QED
        BY <1>0, <3>1, <3>2, PostTypes DEF Rest
  <2>2. generating' \in BOOLEAN
    BY <1>0, <1>7, Zenon DEF ServerCreates, AnswerCreated, Fail, FormTypeOK
  <2>3. UNCHANGED <<library, fields, documents, screen, mine, phase>>
    BY <1>7, Zenon DEF ServerCreates, AnswerCreated, server
  <2>4. errors' \in 0 .. MaxErrors
    <3>1. UNCHANGED errors \/ Error
        BY <1>7, Zenon DEF ServerCreates, AnswerCreated, Fail
    <3> QED
        BY <1>0, <3>1, ErrorType DEF FormTypeOK
  <2>5. FormTypeOK'
    BY <1>0, <2>2, <2>3, <2>4 DEF FormTypeOK, fields, documents
  <2>6. rows' \in Seq(Courses)
    <3>1. Insert(c) \/ UNCHANGED rows
        BY <1>7, Zenon DEF ServerCreates, AnswerCreated, server
    <3>2. <<c>> \o rows \in Seq(Courses)
        BY <1>0, RowInFront DEF Rest
    <3> QED
        BY <1>0, <3>1, <3>2 DEF Insert, Rest
  <2> QED
    BY <1>0, <1>q, <2>1, <2>3, <2>5, <2>6, LibraryKept DEF Rest
<1>8. ASSUME NEW c \in Courses, DeliverCreated(c) PROVE TypeOK'
  <2>1. post[c].stage = "answered" /\ post[c] \in Postings
    BY <1>0, <1>8 DEF DeliverCreated, Rest
  <2>2. post[c].items \in Listings
    BY <2>1 DEF Postings, Idle, At
  <2>3. LibraryTypeOK'
    <3>1. list' = post[c].items /\ UNCHANGED <<loadingCourses, filters>>
        BY <1>8, Zenon DEF DeliverCreated
    <3> QED
        BY <1>0, <2>2, <3>1 DEF LibraryTypeOK, filters
  <2>4. FormTypeOK' /\ mine' \subseteq Courses
    <3>1. CASE CloseForm /\ UNCHANGED <<stored, errors>>
        BY <1>0, <3>1, UnmountTypes DEF CloseForm
    <3>2. CASE UNCHANGED <<form, mine>>
        BY <1>0, <3>2, FormKept DEF Rest
    <3> QED
        BY <1>8, <3>1, <3>2 DEF DeliverCreated
  <2>5. post' = [post EXCEPT ![c] = At("done")] /\ screen' = "library" /\ UNCHANGED server
    BY <1>8, Zenon DEF DeliverCreated
  <2>6. post' \in [Courses -> Postings]
    BY <1>0, <2>5, PostTypes DEF Rest, Postings
  <2> QED
    BY <1>0, <1>q, <2>3, <2>4, <2>5, <2>6 DEF Rest, server
<1>9. ASSUME NEW c \in Courses, Work(c) PROVE TypeOK'
  <2>1. phase' \in [Courses -> Phases]
    BY <1>0, <1>9 DEF Work, Rest, Phases
  <2>2. UNCHANGED <<library, form, screen, post, mine, rows>>
    BY <1>9, Zenon DEF Work
  <2> QED
    BY <1>0, <1>q, <2>1, <2>2, LibraryKept, FormKept DEF Rest
<1>10. CASE UNCHANGED vars
    BY <1>0, <1>q, <1>10, LibraryKept, FormKept DEF vars, Rest, server
<1> QED
    BY <1>1, <1>2, <1>3, <1>4, <1>5, <1>6, <1>7, <1>8, <1>9, <1>10 DEF Next

\* Every variable keeps its type; all listed courses have a status and a
\* difficulty that the library has a badge and a filter entry for.
THEOREM ScreensTypeCorrectness == Spec => []TypeOK
<1>1. Init => TypeOK
  <2> SUFFICES ASSUME Init PROVE TypeOK
    OBVIOUS
  <2>1. LibraryTypeOK
    <3>1. list \in [{} -> [status : Statuses, difficulty : Difficulties]]
        BY DEF Init, LibraryInit
    <3> QED
        BY <3>1, FiltersAssumption DEF Init, LibraryInit, LibraryTypeOK, Listings
  <2>2. FormTypeOK
    <3>1. upload \in [Docs -> Uploadings]
        BY DEF Init, FormInit, Uploadings, Idle
    <3>2. load \in [Loads -> Loadings]
        BY DEF Init, FormInit, Loadings
    <3>3. errors \in 0 .. MaxErrors /\ stored \in Seq(Docs)
        BY FormAssumption DEF Init, FormInit
    <3>4. filled \in BOOLEAN /\ loadingDocuments \in BOOLEAN /\ generating \in BOOLEAN
        BY Zenon DEF Init, FormInit
    <3> QED
        BY <3>1, <3>2, <3>3, <3>4 DEF Init, FormInit, FormTypeOK, Uploadings, Loadings
  <2>3. post \in [Courses -> Postings] /\ rows \in Seq(Courses) /\ phase \in [Courses -> Phases]
    BY DEF Init, Postings, Phases
  <2> QED
    BY <2>1, <2>2, <2>3 DEF Init, TypeOK, Postings
<1> QED
    BY <1>1, TypesHold, PTL DEF Spec

-------------------------------------------------------------------------------
(***************************************************************************)
(* The button and the label.                                               *)
(***************************************************************************)
InFlight(c) == post[c].stage \in {"posted", "listing", "answered"}
Loading(i) == load[i] # Idle

\* A form waits for one course at most, and only a mounted form waits.
WaitInv ==
    /\ screen # "create" => mine = {} /\ ~generating /\ ~loadingDocuments
    /\ generating <=> \E c \in mine : InFlight(c)
    /\ \A c, d \in mine : InFlight(c) /\ InFlight(d) => c = d
    /\ loadingDocuments => \E i \in Loads : Loading(i)

LEMMA WaitInvSuffices == WaitInv => WaitsForSomething
BY DEF WaitInv, WaitsForSomething, InFlight, Loading

LEMMA CloseKeepsWaits ==
    ASSUME CloseForm
    PROVE  WaitInv'
<1>1. mine' = {} /\ ~generating' /\ ~loadingDocuments'
    BY Zenon DEF CloseForm, FormUnmounts
<1> QED
    BY <1>1 DEF WaitInv

LEMMA WaitsKept ==
    ASSUME WaitInv, UNCHANGED <<screen, mine, generating, loadingDocuments, post, load>>
    PROVE  WaitInv'
<1>1. (generating' <=> generating) /\ (loadingDocuments' <=> loadingDocuments)
    BY Zenon
<1> QED
    BY <1>1 DEF WaitInv, InFlight, Loading

\* Steps that leave the courses of the form alone.
LEMMA LabelWaits ==
    ASSUME TypeOK, WaitInv, UNCHANGED <<screen, mine, generating, post>>,
           loadingDocuments' => screen = "create" /\ \E i \in Loads : Loading(i)'
    PROVE  WaitInv'
<1>1. generating' <=> generating
    BY Zenon
<1> QED
    BY <1>1 DEF WaitInv, InFlight, Loading

\* Steps that leave the label alone.
LEMMA ButtonWaits ==
    ASSUME WaitInv, UNCHANGED <<screen, loadingDocuments, load>>,
           screen # "create" => mine' = {} /\ ~generating',
           generating' <=> \E c \in mine' : InFlight(c)',
           \A c, d \in mine' : InFlight(c)' /\ InFlight(d)' => c = d
    PROVE  WaitInv'
<1>1. loadingDocuments' <=> loadingDocuments
    BY Zenon
<1> QED
    BY <1>1 DEF WaitInv, Loading

LEMMA WaitsHold == TypeOK /\ WaitInv /\ [Next]_vars => WaitInv'
<1> SUFFICES ASSUME TypeOK, WaitInv, [Next]_vars PROVE WaitInv'
    OBVIOUS
<1>0. /\ post \in [Courses -> Postings] /\ mine \subseteq Courses /\ load \in [Loads -> Loadings]
      /\ generating \in BOOLEAN /\ loadingDocuments \in BOOLEAN
    BY DEF TypeOK, FormTypeOK, Postings, Loadings
<1>1. CASE UseLibrary \/ Mounted \/ Poll \/ (\E c \in Courses : Work(c)) \/ UNCHANGED vars
  <2>1. UNCHANGED <<screen, mine, generating, loadingDocuments, post, load>>
    BY <1>1, Zenon DEF UseLibrary, Mounted, Poll, Work, vars, form, documents
  <2> QED
    BY <2>1, WaitsKept
<1>2. CASE OpenCreation \/ \E c \in Courses : SelectCourse(c)
  <2>1. screen = "library" /\ UNCHANGED <<mine, generating, loadingDocuments, post, load>>
    BY <1>2, Zenon DEF OpenCreation, SelectCourse, form, documents
  <2>2. mine' = {} /\ ~generating' /\ ~loadingDocuments'
    BY <2>1 DEF WaitInv
  <2> QED
    BY <2>2 DEF WaitInv
<1>3. CASE Back
  <2>1. CASE CloseForm
    BY <2>1, CloseKeepsWaits
  <2>2. CASE screen \in DOMAIN list /\ UNCHANGED <<form, mine>>
    <3>1. screen # "create"
        BY <2>2, ScreensAssumption DEF TypeOK, LibraryTypeOK, Listings
    <3>2. mine' = {} /\ ~generating' /\ ~loadingDocuments'
        BY <2>2, <3>1 DEF WaitInv, form, documents
    <3> QED
        BY <3>2 DEF WaitInv
  <2> QED
    BY <1>3, <2>1, <2>2 DEF Back
<1>4. CASE UseForm \/ FormRequest
  <2>1. UNCHANGED <<screen, mine, generating, post>>
    BY <1>4, Zenon DEF UseForm, FormRequest, FieldStep, RequestStep, FillIn, SetMode,
        ToggleDocument, ChooseFile, AnswerLoad, DeliverLoad, ServerUploads, AnswerUpload,
        DeliverUpload
  <2>2. ASSUME UNCHANGED <<load, loadingDocuments>> PROVE WaitInv'
    BY <2>1, <2>2, WaitsKept
  <2>3. ASSUME NEW m \in {"internet", "documents"}, SetMode(m), UseForm PROVE WaitInv'
    <3>1. CASE m = "documents"
      <4>1. PICK i \in Loads : load' = [load EXCEPT ![i] = At("asked")]
        BY <2>3, <3>1 DEF SetMode
      <4>2. Loading(i)'
        BY <1>0, <4>1 DEF Loading, Idle, At
      <4>3. screen = "create"
        BY <2>3 DEF UseForm
      <4> QED
        BY <2>1, <4>2, <4>3, LabelWaits
    <3>2. CASE m # "documents"
        BY <2>2, <2>3, <3>2 DEF SetMode
    <3> QED
        BY <3>1, <3>2
  <2>4. ASSUME NEW i \in Loads, AnswerLoad(i) PROVE WaitInv'
    <3>1. \/ load' = [load EXCEPT ![i] = Answered(Page(stored))]
          \/ load' = [load EXCEPT ![i] = At("failed")]
        BY <2>4, Zenon DEF AnswerLoad
    <3>2. Loading(i)'
        BY <1>0, <3>1 DEF Loading, Idle, At, Answered
    <3>3. loadingDocuments' <=> loadingDocuments
        BY <2>4, Zenon DEF AnswerLoad
    <3>4. loadingDocuments => screen = "create"
        BY DEF WaitInv
    <3> QED
        BY <2>1, <3>2, <3>3, <3>4, LabelWaits
  <2>5. ASSUME NEW i \in Loads, DeliverLoad(i) PROVE WaitInv'
    <3>1. ~loadingDocuments'
        BY <2>5, Zenon DEF DeliverLoad
    <3> QED
        BY <2>1, <3>1, LabelWaits
  <2>6. CASE UseForm
    <3>1. ASSUME FillIn \/ \E d \in Docs : ToggleDocument(d) \/ ChooseFile(d)
          PROVE  UNCHANGED <<load, loadingDocuments>>
        BY <3>1, Zenon DEF FillIn, ToggleDocument, ChooseFile
    <3> QED
        BY <2>2, <2>3, <2>6, <3>1 DEF UseForm, FieldStep
  <2>7. CASE FormRequest
    <3>1. ASSUME \E d \in Docs : ServerUploads(d) \/ AnswerUpload(d) \/ DeliverUpload(d)
          PROVE  UNCHANGED <<load, loadingDocuments>>
        BY <3>1, Zenon DEF ServerUploads, AnswerUpload, DeliverUpload
    <3> QED
        BY <2>2, <2>4, <2>5, <2>7, <3>1 DEF FormRequest, RequestStep
  <2> QED
    BY <1>4, <2>6, <2>7
<1>5. ASSUME NEW c \in Courses, Generate(c) PROVE WaitInv'
  <2>1. /\ screen = "create" /\ ~generating /\ generating' /\ mine' = mine \cup {c}
        /\ UNCHANGED <<screen, loadingDocuments, load>>
    BY <1>5, Zenon DEF Generate, CanGenerate, documents
  <2>2. PICK p : post' = [post EXCEPT ![c] = [stage |-> "posted", payload |-> p]]
    BY <1>5 DEF Generate
  <2>3. InFlight(c)' /\ \A d \in Courses : d # c => (InFlight(d)' <=> InFlight(d))
    BY <1>0, <2>2 DEF InFlight
  <2>4. \A d \in mine : ~InFlight(d)
    BY <2>1 DEF WaitInv
  <2> QED
    BY <1>0, <2>1, <2>3, <2>4, ButtonWaits
<1>6. ASSUME NEW c \in Courses, ServerCreates(c) \/ AnswerCreated(c) PROVE WaitInv'
  <2>1. InFlight(c) /\ UNCHANGED <<screen, loadingDocuments, load, mine>>
    <3>1. post[c].stage = "posted" \/ post[c] = At("listing")
        BY <1>6, Zenon DEF ServerCreates, AnswerCreated
    <3>2. UNCHANGED <<screen, loadingDocuments, load, mine>>
        BY <1>6, Zenon DEF ServerCreates, AnswerCreated, documents
    <3> QED
        BY <3>1, <3>2 DEF InFlight, At
  <2>2. CASE Fail(c)
    <3>1. post' = [post EXCEPT ![c] = At("failed")]
        BY <2>2 DEF Fail
    <3>2. ~InFlight(c)' /\ \A d \in Courses : d # c => (InFlight(d)' <=> InFlight(d))
        BY <1>0, <3>1 DEF InFlight, At
    <3>3. generating' <=> generating /\ c \notin mine
        BY <2>2, Zenon DEF Fail
    <3>4. c \in mine => \A d \in mine : InFlight(d) => d = c
        BY <2>1 DEF WaitInv
    <3> QED
        BY <1>0, <2>1, <3>2, <3>3, <3>4, ButtonWaits DEF WaitInv
  <2>3. CASE ~Fail(c)
    <3>1. \/ post' = [post EXCEPT ![c] = At("listing")]
          \/ post' = [post EXCEPT ![c] = Answered(Items)]
        BY <1>6, <2>3, Zenon DEF ServerCreates, AnswerCreated
    <3>2. \A d \in Courses : InFlight(d)' <=> InFlight(d)
        BY <1>0, <2>1, <3>1 DEF InFlight, At, Answered
    <3>3. generating' <=> generating
      <4>1. UNCHANGED <<errors, generating>>
        BY <1>6, <2>3, Zenon DEF ServerCreates, AnswerCreated
      <4> QED
        BY <4>1, Zenon
    <3> QED
        BY <1>0, <2>1, <3>2, <3>3, ButtonWaits DEF WaitInv
  <2> QED
    BY <2>2, <2>3
<1>7. ASSUME NEW c \in Courses, DeliverCreated(c) PROVE WaitInv'
  <2>1. CASE screen = "create"
    BY <1>7, <2>1, CloseKeepsWaits DEF DeliverCreated
  <2>2. CASE screen # "create"
    <3>1. UNCHANGED <<generating, loadingDocuments, mine>>
        BY <1>7, <2>2, Zenon DEF DeliverCreated, form, documents
    <3>2. mine' = {} /\ ~generating' /\ ~loadingDocuments'
        BY <2>2, <3>1 DEF WaitInv
    <3> QED
        BY <3>2 DEF WaitInv
  <2> QED
    BY <2>1, <2>2
<1> QED
    BY <1>1, <1>2, <1>3, <1>4, <1>5, <1>6, <1>7 DEF Next

\* However requests fail and overlap, and whenever forms are left, the button and
\* the label tell of a request that is under way.
THEOREM WaitsAreForSomething == Spec => []WaitsForSomething
<1>1. Init => WaitInv
  <2> SUFFICES ASSUME Init PROVE WaitInv
    OBVIOUS
  <2>1. mine = {} /\ ~generating /\ ~loadingDocuments
    BY Zenon DEF Init, FormInit
  <2> QED
    BY <2>1 DEF WaitInv
<1> QED
    BY <1>1, WaitInvSuffices, WaitsHold, ScreensTypeCorrectness, PTL DEF Spec

-------------------------------------------------------------------------------
(***************************************************************************)
(* One course per form.                                                    *)
(***************************************************************************)
\* What the mounted form has asked for is in flight or has ended with an error.
EndedInv == \A c \in mine : InFlight(c) \/ post[c] = At("failed")

LEMMA EndedSuffices == WaitInv /\ EndedInv => OneCoursePerForm
BY DEF WaitInv, EndedInv, OneCoursePerForm

LEMMA EndedHolds == TypeOK /\ WaitInv /\ EndedInv /\ [Next]_vars => EndedInv'
<1> SUFFICES ASSUME TypeOK, WaitInv, EndedInv, [Next]_vars PROVE EndedInv'
    OBVIOUS
<1>0. post \in [Courses -> Postings] /\ mine \subseteq Courses
    BY DEF TypeOK, Postings
<1>1. ASSUME UNCHANGED <<mine, post>> PROVE EndedInv'
    BY <1>1 DEF EndedInv, InFlight
<1>2. ASSUME CloseForm PROVE EndedInv'
    BY <1>2 DEF CloseForm, EndedInv
<1>3. UseLibrary \/ OpenCreation \/ Mounted \/ Poll \/ UseForm \/ FormRequest \/ UNCHANGED vars =>
          UNCHANGED <<mine, post>>
    BY Zenon DEF UseLibrary, OpenCreation, Mounted, Poll, UseForm, FormRequest, vars
<1>4. ASSUME NEW c \in Courses, SelectCourse(c) \/ Work(c) PROVE UNCHANGED <<mine, post>>
    BY <1>4, Zenon DEF SelectCourse, Work
<1>5. CASE Back
    BY <1>5, <1>1, <1>2 DEF Back
<1>6. ASSUME NEW c \in Courses, Generate(c) PROVE EndedInv'
  <2>1. mine' = mine \cup {c}
    BY <1>6, Zenon DEF Generate
  <2>2. PICK p : post' = [post EXCEPT ![c] = [stage |-> "posted", payload |-> p]]
    BY <1>6 DEF Generate
  <2>3. post'[c].stage = "posted" /\ \A d \in Courses : d # c => post'[d] = post[d]
    BY <1>0, <2>2
  <2> QED
    BY <1>0, <2>1, <2>3 DEF EndedInv, InFlight
<1>7. ASSUME NEW c \in Courses, ServerCreates(c) \/ AnswerCreated(c) PROVE EndedInv'
  <2>1. UNCHANGED mine
    BY <1>7, Zenon DEF ServerCreates, AnswerCreated
  <2>2. PICK p \in {At("listing"), Answered(Items), At("failed")} : post' = [post EXCEPT ![c] = p]
    BY <1>7 DEF ServerCreates, AnswerCreated, Fail
  <2>3. post'[c] = p /\ \A d \in Courses : d # c => post'[d] = post[d]
    BY <1>0, <2>2
  <2>4. InFlight(c)' \/ post'[c] = At("failed")
    BY <2>2, <2>3 DEF InFlight, At, Answered
  <2> QED
    BY <1>0, <2>1, <2>3, <2>4 DEF EndedInv, InFlight
<1>8. ASSUME NEW c \in Courses, DeliverCreated(c) PROVE EndedInv'
  <2>1. CASE screen = "create"
    BY <1>8, <2>1, <1>2 DEF DeliverCreated
  <2>2. CASE screen # "create"
    BY <1>8, <2>2 DEF DeliverCreated, WaitInv, EndedInv
  <2> QED
    BY <2>1, <2>2
<1> QED
    BY <1>1, <1>3, <1>4, <1>5, <1>6, <1>7, <1>8 DEF Next

\* Whatever the user clicks, whatever fails and in whatever order answers come, a
\* form makes a second course only after its request for the first has ended with
\* an error.
THEOREM OneCourse == Spec => []OneCoursePerForm
<1>1. Init => WaitInv /\ EndedInv
  <2> SUFFICES ASSUME Init PROVE WaitInv /\ EndedInv
    OBVIOUS
  <2>1. mine = {} /\ ~generating /\ ~loadingDocuments
    BY Zenon DEF Init, FormInit
  <2> QED
    BY <2>1 DEF WaitInv, EndedInv
<1> QED
    BY <1>1, WaitsHold, EndedHolds, EndedSuffices, ScreensTypeCorrectness, PTL DEF Spec

-------------------------------------------------------------------------------
(***************************************************************************)
(* The documents of a course.                                              *)
(***************************************************************************)

\* Whatever the form shows, holds, or is about to be shown, the server has.
KnownInv ==
    /\ picked \subseteq RowsOf(stored) /\ listed \subseteq RowsOf(stored)
    /\ \A i \in Loads : load[i].stage = "answered" => load[i].items \subseteq RowsOf(stored)
    /\ \A d \in Docs : upload[d].stage = "answered" => upload[d].items \subseteq RowsOf(stored)
    /\ SentDocuments

LEMMA SentKept ==
    ASSUME SentDocuments, RowsOf(stored) \subseteq RowsOf(stored'),
           \A c \in Courses : post'[c].stage = "posted" => post'[c] = post[c]
    PROVE  SentDocuments'
BY DEF SentDocuments

LEMMA KnownKept ==
    ASSUME KnownInv, RowsOf(stored) \subseteq RowsOf(stored'),
           UNCHANGED <<picked, listed, load, upload>>,
           \A c \in Courses : post'[c].stage = "posted" => post'[c] = post[c]
    PROVE  KnownInv'
<1>1. SentDocuments'
    BY SentKept DEF KnownInv
<1> QED
    BY <1>1 DEF KnownInv

LEMMA UnmountKnown ==
    ASSUME TypeOK, KnownInv, CloseForm, UNCHANGED stored,
           \A c \in Courses : post'[c].stage = "posted" => post'[c] = post[c]
    PROVE  KnownInv'
<1>1. SentDocuments'
    BY SentKept DEF KnownInv
<1>2. picked' = {} /\ listed' = {}
    BY DEF CloseForm, FormUnmounts
<1>3. \A i \in Loads : load'[i].stage # "answered"
    BY DEF CloseForm, FormUnmounts, Idle, At
<1>4. ASSUME NEW d \in Docs PROVE upload'[d].stage # "answered"
  <2>1. upload'[d] = CASE upload[d].stage = "sent" -> At("orphan")
                       [] upload[d].stage \in {"listing", "answered"} -> At("done")
                       [] OTHER -> upload[d]
    BY DEF CloseForm, FormUnmounts
  <2> QED
    BY <2>1 DEF At
<1> QED
    BY <1>1, <1>2, <1>3, <1>4 DEF KnownInv

LEMMA KnownHolds == TypeOK /\ KnownInv /\ [Next]_vars => KnownInv'
<1> SUFFICES ASSUME TypeOK, KnownInv, [Next]_vars PROVE KnownInv'
    OBVIOUS
<1>0. /\ post \in [Courses -> Postings] /\ stored \in Seq(Docs)
      /\ load \in [Loads -> Loadings] /\ upload \in [Docs -> Uploadings]
    BY DEF TypeOK, FormTypeOK, Postings, Loadings, Uploadings
<1>1. CASE UseLibrary \/ OpenCreation \/ Mounted \/ Poll \/ UNCHANGED vars
           \/ \E c \in Courses : SelectCourse(c) \/ Work(c)
  <2>1. UNCHANGED <<fields, documents, post>>
    BY <1>1, Zenon DEF UseLibrary, OpenCreation, Mounted, Poll, SelectCourse, Work, vars, form
  <2> QED
    BY <2>1, KnownKept DEF fields, documents
<1>2. CASE Back
  <2>1. UNCHANGED post
    BY <1>2 DEF Back
  <2>2. CASE UNCHANGED <<form, mine>>
    BY <2>1, <2>2, KnownKept DEF form, fields, documents
  <2> QED
    BY <1>2, <2>1, <2>2, UnmountKnown DEF Back
<1>3. CASE UseForm
  <2>0. UNCHANGED post
    BY <1>3 DEF UseForm
  <2>1. CASE FillIn \/ \E m \in {"internet", "documents"} : SetMode(m)
    <3>1. UNCHANGED <<picked, listed, upload, stored>>
        BY <2>1, Zenon DEF FillIn, SetMode
    <3>2. ASSUME NEW i \in Loads, load'[i].stage = "answered" PROVE load'[i] = load[i]
        BY <1>0, <2>1, <3>2 DEF FillIn, SetMode, At
    <3>3. SentDocuments'
        BY <2>0, <3>1, SentKept DEF KnownInv
    <3> QED
        BY <3>1, <3>2, <3>3 DEF KnownInv
  <2>2. ASSUME NEW d \in Docs, ToggleDocument(d) PROVE KnownInv'
    <3>1. UNCHANGED <<listed, load, upload, stored>> /\ d \in listed /\ picked' \subseteq picked \cup {d}
        BY <2>2 DEF ToggleDocument, DocumentShown
    <3>2. SentDocuments'
        BY <2>0, <3>1, SentKept DEF KnownInv
    <3> QED
        BY <3>1, <3>2 DEF KnownInv
  <2>3. ASSUME NEW d \in Docs, ChooseFile(d) PROVE KnownInv'
    <3>1. UNCHANGED <<picked, listed, load, stored>> /\ upload' = [upload EXCEPT ![d] = At("sent")]
        BY <2>3 DEF ChooseFile, fields
    <3>2. \A e \in Docs : upload'[e].stage = "answered" => upload'[e] = upload[e]
        BY <1>0, <3>1 DEF At
    <3>3. SentDocuments'
        BY <2>0, <3>1, SentKept DEF KnownInv
    <3> QED
        BY <3>1, <3>2, <3>3 DEF KnownInv
  <2> QED
    BY <1>3, <2>1, <2>2, <2>3 DEF UseForm, FieldStep
<1>4. CASE FormRequest
  <2>0. UNCHANGED post
    BY <1>4 DEF FormRequest
  <2>1. ASSUME NEW i \in Loads, AnswerLoad(i) PROVE KnownInv'
    <3>1. /\ UNCHANGED <<picked, listed, upload, stored>>
          /\ \/ load' = [load EXCEPT ![i] = Answered(Page(stored))]
             \/ load' = [load EXCEPT ![i] = At("failed")]
        BY <2>1, Zenon DEF AnswerLoad, fields
    <3>2. ASSUME NEW j \in Loads, load'[j].stage = "answered"
          PROVE  load'[j] = load[j] \/ load'[j].items = Page(stored)
        BY <1>0, <3>1, <3>2 DEF At, Answered
    <3>3. SentDocuments'
        BY <2>0, <3>1, SentKept DEF KnownInv
    <3> QED
        BY <3>1, <3>2, <3>3, PageOfRows DEF KnownInv
  <2>2. ASSUME NEW i \in Loads, DeliverLoad(i) PROVE KnownInv'
    <3>1. /\ UNCHANGED <<picked, upload, stored>> /\ load' = [load EXCEPT ![i] = Idle]
          /\ listed' = IF load[i].stage = "answered" THEN load[i].items ELSE listed
        BY <2>2, Zenon DEF DeliverLoad, fields
    <3>2. \A j \in Loads : load'[j].stage = "answered" => load'[j] = load[j]
        BY <1>0, <3>1 DEF Idle, At
    <3>3. SentDocuments'
        BY <2>0, <3>1, SentKept DEF KnownInv
    <3> QED
        BY <3>1, <3>2, <3>3 DEF KnownInv
  <2>3. ASSUME NEW d \in Docs, ServerUploads(d) PROVE KnownInv'
    <3>1. UNCHANGED <<picked, listed, load>> /\ (Store(d) \/ UNCHANGED stored)
        BY <2>3, Zenon DEF ServerUploads, fields
    <3>2. RowsOf(stored) \subseteq RowsOf(stored')
        BY <1>0, <3>1, RowInFront DEF Store
    <3>3. \A e \in Docs : upload'[e].stage = "answered" => upload'[e] = upload[e]
        BY <1>0, <2>3 DEF ServerUploads, At
    <3>4. SentDocuments'
        BY <2>0, <3>2, SentKept DEF KnownInv
    <3> QED
        BY <3>1, <3>2, <3>3, <3>4 DEF KnownInv
  <2>4. ASSUME NEW d \in Docs, AnswerUpload(d) PROVE KnownInv'
    <3>1. /\ UNCHANGED <<picked, listed, load, stored>>
          /\ \/ upload' = [upload EXCEPT ![d] = Answered(Page(stored))]
             \/ upload' = [upload EXCEPT ![d] = At("done")]
        BY <2>4, Zenon DEF AnswerUpload, fields
    <3>2. ASSUME NEW e \in Docs, upload'[e].stage = "answered"
          PROVE  upload'[e] = upload[e] \/ upload'[e].items = Page(stored)
        BY <1>0, <3>1, <3>2 DEF At, Answered
    <3>3. SentDocuments'
        BY <2>0, <3>1, SentKept DEF KnownInv
    <3> QED
        BY <3>1, <3>2, <3>3, PageOfRows DEF KnownInv
  <2>5. ASSUME NEW d \in Docs, DeliverUpload(d) PROVE KnownInv'
    <3>1. /\ UNCHANGED <<picked, load, stored>> /\ upload' = [upload EXCEPT ![d] = At("done")]
          /\ listed' = upload[d].items /\ upload[d].stage = "answered"
        BY <2>5, Zenon DEF DeliverUpload, fields
    <3>2. \A e \in Docs : upload'[e].stage = "answered" => upload'[e] = upload[e]
        BY <1>0, <3>1 DEF At
    <3>3. SentDocuments'
        BY <2>0, <3>1, SentKept DEF KnownInv
    <3> QED
        BY <3>1, <3>2, <3>3 DEF KnownInv
  <2> QED
    BY <1>4, <2>1, <2>2, <2>3, <2>4, <2>5 DEF FormRequest, RequestStep
<1>5. ASSUME NEW c \in Courses, Generate(c) PROVE KnownInv'
  <2>1. UNCHANGED <<fields, documents>> /\ Ready
    BY <1>5, Zenon DEF Generate, CanGenerate
  <2>2. PICK types \in TypesToggled :
            post' = [post EXCEPT ![c] = [stage |-> "posted", payload |-> Payload(types)]]
    BY <1>5 DEF Generate
  <2>3. /\ Payload(types).documents # {} <=> Payload(types).structure = {"documents"}
        /\ Payload(types).documents \subseteq RowsOf(stored)
    <3>1. types # {"documents"}
        BY FormAssumption DEF TypesToggled
    <3> QED
        BY <2>1, <3>1 DEF Payload, Ready, KnownInv, TypeOK, FormTypeOK
  <2>4. /\ post'[c].payload = Payload(types)
        /\ \A e \in Courses : e # c => post'[e] = post[e]
    BY <1>0, <2>2
  <2>5. SentDocuments'
    BY <2>1, <2>3, <2>4 DEF SentDocuments, KnownInv, documents
  <2> QED
    BY <2>1, <2>5 DEF KnownInv, fields, documents
<1>6. ASSUME NEW c \in Courses, ServerCreates(c) \/ AnswerCreated(c) PROVE KnownInv'
  <2>1. UNCHANGED <<fields, documents>>
    BY <1>6, Zenon DEF ServerCreates, AnswerCreated
  <2>2. PICK p \in {At("listing"), At("failed"), Answered(Items)} : post' = [post EXCEPT ![c] = p]
    BY <1>6 DEF ServerCreates, AnswerCreated, Fail
  <2>3. p.stage # "posted"
    BY DEF At, Answered
  <2>4. \A e \in Courses : post'[e].stage = "posted" => post'[e] = post[e]
    BY <1>0, <2>2, <2>3
  <2> QED
    BY <2>1, <2>4, KnownKept DEF fields, documents
<1>7. ASSUME NEW c \in Courses, DeliverCreated(c) PROVE KnownInv'
  <2>1. \A e \in Courses : post'[e].stage = "posted" => post'[e] = post[e]
    BY <1>0, <1>7 DEF DeliverCreated, At
  <2>2. CASE UNCHANGED <<form, mine>>
    BY <2>1, <2>2, KnownKept DEF form, fields, documents
  <2>3. CASE CloseForm /\ UNCHANGED <<stored, errors>>
    BY <2>1, <2>3, UnmountKnown
  <2> QED
    BY <1>7, <2>2, <2>3 DEF DeliverCreated
<1> QED
    BY <1>1, <1>2, <1>3, <1>4, <1>5, <1>6, <1>7 DEF Next

\* For any documents and any number of lists under way: a request names documents
\* exactly in the documents mode, and the server has all of them.
THEOREM DocumentsAreSent == Spec => []SentDocuments
<1>1. Init => KnownInv
    BY DEF Init, FormInit, KnownInv, SentDocuments, Idle, At
<1>2. KnownInv => SentDocuments
    BY DEF KnownInv
<1> QED
    BY <1>1, <1>2, KnownHolds, ScreensTypeCorrectness, PTL DEF Spec

-------------------------------------------------------------------------------
(***************************************************************************)
(* What the user finds: a list that was asked for after a row was written  *)
(* has that row, unless newer ones have driven it from the page.           *)
(***************************************************************************)
UploadInv ==
    \A d \in Docs :
        /\ upload[d].stage = "listing" => d \in RowsOf(stored)
        /\ upload[d].stage = "answered" => d \in upload[d].items \/ Displaced(d, stored)

PostInv ==
    /\ screen # "library" => search = NoQuery /\ statusFilter = "all" /\ difficultyFilter = "all"
    /\ \A c \in Courses :
          /\ post[c].stage = "listing" => c \in RowsOf(rows)
          /\ post[c].stage = "answered" => c \in DOMAIN post[c].items \/ Displaced(c, rows)

\* Stages that make no promise.
Quiet(r) == r.stage \notin {"listing", "answered"}

LEMMA UploadKept ==
    ASSUME UploadInv, stored' = stored,
           \A d \in Docs : upload'[d] = upload[d] \/ Quiet(upload'[d])
    PROVE  UploadInv'
<1>1. ASSUME NEW d \in Docs
      PROVE  /\ upload'[d].stage = "listing" => d \in RowsOf(stored')
             /\ upload'[d].stage = "answered" => d \in upload'[d].items \/ Displaced(d, stored')
  <2>1. CASE upload'[d] = upload[d]
    BY <2>1, Zenon DEF UploadInv
  <2>2. CASE Quiet(upload'[d])
    BY <2>2 DEF Quiet
  <2> QED
    BY <2>1, <2>2
<1> QED
    BY <1>1, Zenon DEF UploadInv, Displaced, RowsOf

LEMMA UnmountQuiet ==
    ASSUME FormUnmounts, FormTypeOK
    PROVE  \A d \in Docs : upload'[d] = upload[d] \/ Quiet(upload'[d])
BY DEF FormUnmounts, Quiet, At, FormTypeOK

LEMMA UploadHolds == TypeOK /\ UploadInv /\ [Next]_vars => UploadInv'
<1> SUFFICES ASSUME TypeOK, UploadInv, [Next]_vars PROVE UploadInv'
    OBVIOUS
<1>0. FormTypeOK /\ stored \in Seq(Docs)
    BY DEF TypeOK, FormTypeOK
<1>1. CASE UNCHANGED documents
    BY <1>1, UploadKept, Zenon DEF documents
<1>2. CASE FormUnmounts /\ UNCHANGED stored
    BY <1>0, <1>2, UnmountQuiet, UploadKept
<1>3. CASE FieldStep
  <2>1. CASE UNCHANGED upload /\ UNCHANGED stored
    BY <2>1, UploadKept
  <2>2. ASSUME NEW d \in Docs, ChooseFile(d) PROVE UploadInv'
    <3>1. \A e \in Docs : upload'[e] = upload[e] \/ Quiet(upload'[e])
        BY <1>0, <2>2 DEF ChooseFile, At, Quiet, FormTypeOK
    <3> QED
        BY <2>2, <3>1, UploadKept DEF ChooseFile
  <2> QED
    BY <1>3, <2>1, <2>2 DEF FieldStep, FillIn, SetMode, ToggleDocument
<1>4. CASE RequestStep
  <2>1. CASE UNCHANGED upload /\ UNCHANGED stored
    BY <2>1, UploadKept
  <2>2. ASSUME NEW d \in Docs, ServerUploads(d) PROVE UploadInv'
    <3>1. stored' = stored \/ stored' = <<d>> \o stored
        BY <2>2, Zenon DEF ServerUploads, Store
    <3>2. PICK u \in {At("listing"), At("done")} :
            /\ upload' = [upload EXCEPT ![d] = u]
            /\ u = At("listing") => stored' = <<d>> \o stored
        BY <2>2 DEF ServerUploads, Store, At
    <3>3. \A e \in Docs : Displaced(e, stored) => Displaced(e, stored')
        BY <1>0, <3>1, DisplacedStays
    <3>4. RowsOf(stored) \subseteq RowsOf(stored') /\
          (stored' = <<d>> \o stored => d \in RowsOf(stored'))
      <4>1. RowsOf(<<d>> \o stored) = {d} \cup RowsOf(stored)
        BY <1>0, RowInFront
      <4> QED
        BY <3>1, <4>1, Zenon
    <3>5. ASSUME NEW e \in Docs, e # d
          PROVE  /\ upload'[e].stage = "listing" => e \in RowsOf(stored')
                 /\ upload'[e].stage = "answered" =>
                        e \in upload'[e].items \/ Displaced(e, stored')
        BY <1>0, <3>2, <3>3, <3>4, <3>5 DEF UploadInv, FormTypeOK
    <3>6. /\ upload'[d].stage = "listing" => d \in RowsOf(stored')
          /\ upload'[d].stage # "answered"
        BY <1>0, <3>2, <3>4 DEF FormTypeOK, At
    <3> QED
        BY <3>5, <3>6 DEF UploadInv, Displaced, RowsOf
  <2>3. ASSUME NEW d \in Docs, AnswerUpload(d) PROVE UploadInv'
    <3>1. stored' = stored /\ upload[d].stage = "listing"
        BY <2>3 DEF AnswerUpload, At
    <3>2. PICK u \in {Answered(Page(stored)), At("done")} : upload' = [upload EXCEPT ![d] = u]
        BY <2>3 DEF AnswerUpload
    <3>3. d \in Page(stored) \/ Displaced(d, stored)
        BY <1>0, <3>1, OnPageOrDisplaced DEF UploadInv
    <3>4. upload'[d] = u /\ \A e \in Docs : e # d => upload'[e] = upload[e]
        BY <1>0, <3>2 DEF FormTypeOK
    <3>5. u.stage # "listing" /\ (u.stage = "answered" => u.items = Page(stored))
        BY DEF Answered, At
    <3> QED
      <4>1. /\ upload'[d].stage # "listing"
              /\ upload'[d].stage = "answered" => d \in upload'[d].items \/ Displaced(d, stored')
            BY <3>1, <3>3, <3>4, <3>5 DEF Displaced
      <4> QED
            BY <3>1, <3>4, <4>1, Zenon DEF UploadInv, Displaced, RowsOf
  <2>4. ASSUME NEW d \in Docs, DeliverUpload(d) PROVE UploadInv'
    <3>1. \A e \in Docs : upload'[e] = upload[e] \/ Quiet(upload'[e])
        BY <1>0, <2>4 DEF DeliverUpload, At, Quiet, FormTypeOK
    <3> QED
        BY <2>4, <3>1, UploadKept DEF DeliverUpload
  <2> QED
    BY <1>4, <2>1, <2>2, <2>3, <2>4 DEF RequestStep, AnswerLoad, DeliverLoad
<1> QED
  <2>1. Back \/ (\E c \in Courses : DeliverCreated(c)) =>
            UNCHANGED form \/ (FormUnmounts /\ UNCHANGED stored)
    BY Zenon DEF Back, DeliverCreated, CloseForm
  <2>4. UNCHANGED form => UNCHANGED documents
    BY Zenon DEF form
  <2>3. Next => UNCHANGED documents \/ (FormUnmounts /\ UNCHANGED stored) \/ FieldStep \/ RequestStep
    BY <2>1, <2>4, Zenon DEF Next, UseLibrary, UseForm, OpenCreation, FormRequest, Mounted, Poll,
        SelectCourse, Generate, ServerCreates, AnswerCreated, Work
  <2>2. UNCHANGED vars => UNCHANGED documents
    BY Zenon DEF vars, form
  <2> QED
    BY <1>1, <1>2, <1>3, <1>4, <2>2, <2>3

\* For any number of documents, whatever the length of a page: an upload that is
\* done is listed, or newer ones have driven it from the page.
THEOREM UploadsAreListed == Spec => UploadedIsListed
<1>1. Init => UploadInv
    BY DEF Init, FormInit, UploadInv, Idle, At
<1>2. TypeOK /\ UploadInv /\ [Next]_vars =>
        [\A d \in Docs :
            upload[d].stage = "answered" /\ upload'[d] = At("done") /\ screen' = "create" =>
                d \in listed' \/ \E i \in DOMAIN stored : stored[i] = d /\ i > PageLimit]_vars
  <2> SUFFICES ASSUME TypeOK, UploadInv, Next, NEW d \in Docs,
                      upload[d].stage = "answered", upload'[d] = At("done"), screen' = "create"
               PROVE  d \in listed' \/ Displaced(d, stored)
    BY DEF Displaced
  <2>1. CASE DeliverUpload(d)
    BY <2>1 DEF DeliverUpload, UploadInv
  <2>2. CASE upload'[d] = upload[d]
    BY <2>2 DEF At
  <2>3. CASE screen' = "library"
    BY <2>3
  <2>4. CASE FieldStep
    BY <2>2, <2>4 DEF FieldStep, FillIn, SetMode, ToggleDocument, ChooseFile, TypeOK, FormTypeOK, Idle, At
  <2>5. CASE RequestStep
    <3>1. ASSUME NEW e \in Docs, e # d, ServerUploads(e) \/ AnswerUpload(e) \/ DeliverUpload(e)
          PROVE  upload'[d] = upload[d]
        BY <3>1 DEF ServerUploads, AnswerUpload, DeliverUpload, TypeOK, FormTypeOK
    <3>2. ~ServerUploads(d) /\ ~AnswerUpload(d)
        BY DEF ServerUploads, AnswerUpload, At
    <3> QED
        BY <2>1, <2>2, <2>5, <3>1, <3>2 DEF RequestStep, AnswerLoad, DeliverLoad
  <2>6. UNCHANGED upload \/ screen' = "library" \/ FieldStep \/ RequestStep
    BY Zenon DEF Next, UseLibrary, UseForm, OpenCreation, Back, FormRequest, Mounted, Poll,
        SelectCourse, Generate, ServerCreates, AnswerCreated, DeliverCreated, Work, form, documents
  <2> QED
    BY <2>2, <2>3, <2>4, <2>5, <2>6
<1> QED
    BY <1>1, <1>2, UploadHolds, ScreensTypeCorrectness, PTL DEF Spec, UploadedIsListed

-------------------------------------------------------------------------------
LEMMA PostKept ==
    ASSUME PostInv, rows' = rows,
           \A c \in Courses : post'[c] = post[c] \/ Quiet(post'[c]),
           screen' # "library" =>
             search' = NoQuery /\ statusFilter' = "all" /\ difficultyFilter' = "all"
    PROVE  PostInv'
<1>1. ASSUME NEW c \in Courses
      PROVE  /\ post'[c].stage = "listing" => c \in RowsOf(rows')
             /\ post'[c].stage = "answered" => c \in DOMAIN post'[c].items \/ Displaced(c, rows')
  <2>1. CASE post'[c] = post[c]
    BY <2>1, Zenon DEF PostInv
  <2>2. CASE Quiet(post'[c])
    BY <2>2 DEF Quiet
  <2> QED
    BY <2>1, <2>2
<1> QED
    BY <1>1, Zenon DEF PostInv, Displaced, RowsOf

\* A step that leaves the screen and the filters.
LEMMA FiltersKept ==
    ASSUME PostInv, UNCHANGED <<screen, filters>>
    PROVE  screen' # "library" =>
             search' = NoQuery /\ statusFilter' = "all" /\ difficultyFilter' = "all"
BY DEF PostInv, filters

LEMMA PostHolds == TypeOK /\ PostInv /\ [Next]_vars => PostInv'
<1> SUFFICES ASSUME TypeOK, PostInv, [Next]_vars PROVE PostInv'
    OBVIOUS
<1>0. rows \in Seq(Courses) /\ DOMAIN post = Courses
    BY DEF TypeOK
<1>1. CASE UNCHANGED <<screen, filters, post, rows>>
    BY <1>1, FiltersKept, Zenon DEF PostInv, Displaced, RowsOf
<1>2. CASE screen' = "library" /\ UNCHANGED <<post, rows>>
    BY <1>2, PostKept
<1>3. CASE LibraryUnmounts /\ UNCHANGED <<post, rows>>
    BY <1>3, PostKept DEF LibraryUnmounts
<1>4. ASSUME NEW c \in Courses, Generate(c) PROVE PostInv'
  <2>1. UNCHANGED <<screen, filters, rows>>
    BY <1>4, Zenon DEF Generate, library, server
  <2>2. PICK types \in TypesToggled :
            post' = [post EXCEPT ![c] = [stage |-> "posted", payload |-> Payload(types)]]
    BY <1>4 DEF Generate
  <2>3. \A e \in Courses : post'[e] = post[e] \/ Quiet(post'[e])
    BY <1>0, <2>2 DEF Quiet
  <2> QED
    BY <2>1, <2>3, PostKept, FiltersKept
<1>5. ASSUME NEW c \in Courses, ServerCreates(c) PROVE PostInv'
  <2>1. UNCHANGED <<screen, filters>>
    BY <1>5, Zenon DEF ServerCreates, library
  <2>2. rows' = rows \/ rows' = <<c>> \o rows
    BY <1>5, Zenon DEF ServerCreates, Insert
  <2>3. PICK p \in {At("listing"), At("failed")} :
            /\ post' = [post EXCEPT ![c] = p]
            /\ p = At("listing") => rows' = <<c>> \o rows
    BY <1>5 DEF ServerCreates, Insert, Fail, At
  <2>4. \A e \in Courses : Displaced(e, rows) => Displaced(e, rows')
    BY <1>0, <2>2, DisplacedStays
  <2>5. RowsOf(rows) \subseteq RowsOf(rows') /\ (rows' = <<c>> \o rows => c \in RowsOf(rows'))
    <3>1. RowsOf(<<c>> \o rows) = {c} \cup RowsOf(rows)
        BY <1>0, RowInFront
    <3> QED
        BY <2>2, <3>1, Zenon
  <2>6. ASSUME NEW e \in Courses, e # c
        PROVE  /\ post'[e].stage = "listing" => e \in RowsOf(rows')
               /\ post'[e].stage = "answered" => e \in DOMAIN post'[e].items \/ Displaced(e, rows')
    BY <1>0, <2>3, <2>4, <2>5, <2>6 DEF PostInv
  <2>7. /\ post'[c].stage = "listing" => c \in RowsOf(rows')
        /\ post'[c].stage # "answered"
    BY <1>0, <2>3, <2>5 DEF At
  <2> QED
    BY <2>1, <2>6, <2>7, FiltersKept DEF PostInv, Displaced, RowsOf
<1>6. ASSUME NEW c \in Courses, AnswerCreated(c) PROVE PostInv'
  <2>1. UNCHANGED <<screen, filters, rows>> /\ post[c].stage = "listing"
    BY <1>6 DEF AnswerCreated, library, server, At
  <2>2. PICK p \in {Answered(Items), At("failed")} : post' = [post EXCEPT ![c] = p]
    BY <1>6 DEF AnswerCreated, Fail
  <2>3. c \in DOMAIN Items \/ Displaced(c, rows)
    BY <1>0, <2>1, OnPageOrDisplaced DEF PostInv, Items
  <2>4. post'[c] = p /\ \A e \in Courses : e # c => post'[e] = post[e]
    BY <1>0, <2>2
  <2>5. p.stage # "listing" /\ (p.stage = "answered" => p.items = Items)
    BY DEF Answered, At
  <2> QED
    BY <2>1, <2>3, <2>4, <2>5, FiltersKept, Zenon DEF PostInv, Displaced, RowsOf
<1>7. ASSUME NEW c \in Courses, DeliverCreated(c) PROVE PostInv'
  <2>1. screen' = "library" /\ rows' = rows
    BY <1>7, Zenon DEF DeliverCreated, server
  <2>2. \A e \in Courses : post'[e] = post[e] \/ Quiet(post'[e])
    BY <1>0, <1>7 DEF DeliverCreated, At, Quiet
  <2> QED
    BY <2>1, <2>2, PostKept
<1> QED
  <2>1. \/ UNCHANGED <<screen, filters, post, rows>>
        \/ screen' = "library" /\ UNCHANGED <<post, rows>>
        \/ LibraryUnmounts /\ UNCHANGED <<post, rows>>
        \/ \E c \in Courses :
              Generate(c) \/ ServerCreates(c) \/ AnswerCreated(c) \/ DeliverCreated(c)
    BY Zenon DEF Next, UseLibrary, UseForm, OpenCreation, Back, FormRequest, Mounted, Poll,
        SelectCourse, Work, library, server, vars
  <2> QED
    BY <1>1, <1>2, <1>3, <1>4, <1>5, <1>6, <1>7, <2>1

\* For any courses and filters, whatever the length of a page: the card of a new
\* course is seen, or newer ones have driven it from the page.
THEOREM AcceptedCoursesAreVisible == Spec => AcceptedIsVisible
<1>1. Init => PostInv
    BY DEF Init, LibraryInit, PostInv, Idle, At
<1>2. TypeOK /\ PostInv /\ [Next]_vars =>
        [\A c \in Courses :
            /\ screen = "create"
            /\ post[c].stage = "answered" /\ post'[c] = At("done")
            =>  \/ loadingCourses'
                \/ c \in Cards'
                \/ \E i \in DOMAIN rows : rows[i] = c /\ i > PageLimit]_vars
  <2> SUFFICES ASSUME TypeOK, PostInv, Next, NEW c \in Courses, screen = "create",
                      post[c].stage = "answered", post'[c] = At("done")
               PROVE  loadingCourses' \/ c \in Cards' \/ Displaced(c, rows)
    BY DEF Displaced
  <2>1. CASE DeliverCreated(c)
    <3>1. list' = post[c].items /\ UNCHANGED <<loadingCourses, filters>>
        BY <2>1, Zenon DEF DeliverCreated
    <3>2. search' = NoQuery /\ statusFilter' = "all" /\ difficultyFilter' = "all"
        BY <3>1 DEF PostInv, filters
    <3>3. c \in DOMAIN post[c].items \/ Displaced(c, rows)
        BY DEF PostInv
    <3> QED
        BY <3>1, <3>2, <3>3 DEF Cards, filteredCourses
  <2>2. CASE post'[c] = post[c]
    BY <2>2 DEF At
  <2>3. ASSUME NEW e \in Courses, e # c,
               Generate(e) \/ ServerCreates(e) \/ AnswerCreated(e) \/ DeliverCreated(e)
        PROVE  post'[c] = post[c]
    BY <2>3 DEF Generate, ServerCreates, AnswerCreated, DeliverCreated, Fail, TypeOK
  <2>4. ~Generate(c) /\ ~ServerCreates(c) /\ ~AnswerCreated(c)
    BY DEF Generate, ServerCreates, AnswerCreated, At, Idle
  <2>5. \/ UNCHANGED post
        \/ \E e \in Courses :
              Generate(e) \/ ServerCreates(e) \/ AnswerCreated(e) \/ DeliverCreated(e)
    BY Zenon DEF Next, UseLibrary, UseForm, OpenCreation, Back, FormRequest, Mounted, Poll,
        SelectCourse, Work
  <2> QED
    BY <2>1, <2>2, <2>3, <2>4, <2>5
<1> QED
    BY <1>1, <1>2, PostHolds, ScreensTypeCorrectness, PTL DEF Spec, AcceptedIsVisible
==============================================================================
