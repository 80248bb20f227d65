----------------------------- MODULE LessonPlayer -----------------------------
(***************************************************************************)
(* The lesson screen (src/src/app/screens/LessonView.tsx) with what it     *)
(* mounts: the sidebar, and the part of the lesson that the active tab     *)
(* shows: theory with a code block, practice, quiz or sources.             *)
(*                                                                         *)
(* React keeps the state of a component for as long as it is rendered at   *)
(* the same place.  The parts have no key of their own, so the quiz of one *)
(* lesson goes on with the answers of another if the step between them     *)
(* leaves the quiz tab mounted.  A component that is not mounted has its   *)
(* initial state here, because that is what it will be mounted with.       *)
(*                                                                         *)
(* The parent of LessonView is not part of the source.  As its props ask,  *)
(* it changes the current lesson on onLessonChange, and rebuilds modules   *)
(* with one more completed lesson on onLessonComplete.                     *)
(***************************************************************************)
EXTENDS Integers, Sequences, FiniteSets, TheoryMarkup

CONSTANTS
    AllLessons,     \* allLessons: the lessons of all modules, in order
    ModuleOf,       \* the module of each lesson
    FirstStatus,    \* the status of each lesson when the screen is first opened
    Parts,          \* which of theory, practice, quiz and sources a lesson has
    Correct,        \* correctAnswer of each question, for the lessons with a quiz
    Options,        \* the options of a question that are tried
    BlockKey,       \* the React key of the code block, for the lessons with one
    Queries,        \* search texts that are tried
    Matches,        \* the lessons whose title contains a search text
    Texts,          \* answers to a practice that are tried, not blank
    MaxCopies,      \* bound on the copies whose tick is not cleared yet
    NoQuery,        \* the empty search text
    Nothing         \* null: no option selected; a blank answer

Tabs == {"theory", "practice", "quiz", "sources"}
Statuses == {"not-started", "in-progress", "completed"}
Lessons == {AllLessons[i] : i \in DOMAIN AllLessons}
Modules == {ModuleOf[l] : l \in Lessons}
Quizzes == {l \in Lessons : "quiz" \in Parts[l]}
WithCode == DOMAIN BlockKey

ASSUME LessonsAssumption ==
    /\ AllLessons \in Seq(Lessons) /\ AllLessons # <<>>
    /\ \A i, j \in DOMAIN AllLessons : AllLessons[i] = AllLessons[j] => i = j
    /\ FirstStatus \in [Lessons -> Statuses]
    /\ Parts \in [Lessons -> SUBSET Tabs]
ASSUME QuizAssumption ==
    /\ Correct \in [Quizzes -> Seq(Options)]
    /\ Nothing \notin Options \cup Texts
ASSUME CodeAssumption == WithCode \subseteq {l \in Lessons : "theory" \in Parts[l]}
ASSUME SearchAssumption == NoQuery \in Queries /\ Matches \in [Queries -> SUBSET Lessons]
ASSUME CopiesAssumption == MaxCopies \in Nat

VARIABLES
    open,       \* LessonView is mounted
    crashed,    \* a render has thrown: the page is blank
    current,    \* the parent: currentLesson
    status,     \* the parent: the status of each lesson
    tab,        \* activeTab
    focus,      \* focusMode
    expanded,   \* sidebar: expandedModules
    query,      \* sidebar: searchQuery
    index,      \* quiz: currentQuestionIndex
    selected,   \* quiz: selectedAnswer
    submitted,  \* quiz: submitted
    answers,    \* quiz: answers
    finished,   \* whether the mounted quiz has called onComplete
    carried,    \* whether the mounted quiz has been that of another lesson
    text,       \* practice: answer
    sent,       \* practice: submitted, and the feedback shown: it is always the same
    writing,    \* code block: calls of the clipboard under way
    copied,     \* code block: copied
    timers      \* code block: timers that will clear the tick

place == <<open, current, tab>>
sidebar == <<expanded, query>>
quiz == <<index, selected, submitted, answers, finished, carried>>
practice == <<text, sent>>
code == <<writing, copied, timers>>
vars == <<place, crashed, status, focus, sidebar, quiz, practice, code>>

-------------------------------------------------------------------------------
(***************************************************************************)
(* What is mounted, and with which state.                                  *)
(***************************************************************************)
Position == CHOOSE i \in DOMAIN AllLessons : AllLessons[i] = current
CanGoPrevious == Position > 1
CanGoNext == Position < Len(AllLessons)

\* A tab without its part of the lesson is empty: the tab is kept when the
\* lesson changes, and nothing falls back to one that exists.
Shown(l, t) == t \in Parts[l]
QuizMounted == open /\ Shown(current, tab) /\ tab = "quiz"
PracticeMounted == open /\ Shown(current, tab) /\ tab = "practice"
CodeMounted == open /\ tab = "theory" /\ current \in WithCode

Questions(l) == Len(Correct[l])

\* "Quiz completed view"
ResultsShown ==
    QuizMounted /\ index >= Questions(current) /\ Len(answers) = Questions(current)
QuestionShown == QuizMounted /\ index < Questions(current)

FreshQuiz ==
    /\ index' = 0 /\ selected' = Nothing /\ submitted' = FALSE /\ answers' = <<>>
    /\ finished' = FALSE /\ carried' = FALSE
FreshPractice == text' = Nothing /\ sent' = FALSE
FreshCode == writing' = 0 /\ copied' = FALSE /\ timers' = 0
FreshSidebar == expanded' = Modules /\ query' = NoQuery

Init ==
    /\ open = FALSE
    /\ crashed = FALSE
    /\ current \in Lessons
    /\ status = FirstStatus
    /\ tab = "theory"
    /\ focus = FALSE
    /\ expanded = Modules /\ query = NoQuery
    /\ index = 0 /\ selected = Nothing /\ submitted = FALSE /\ answers = <<>>
    /\ finished = FALSE /\ carried = FALSE
    /\ text = Nothing /\ sent = FALSE
    /\ writing = 0 /\ copied = FALSE /\ timers = 0

\* The render of tab t of lesson l: a part that is mounted before and after
\* keeps its state.  A question beyond the end of the quiz is undefined, and
\* reading its text throws.
Show(l, t) ==
    /\ current' = l
    /\ tab' = t
    /\ IF tab = "quiz" /\ t = "quiz" /\ Shown(current, t) /\ Shown(l, t)
       THEN /\ carried' = (carried \/ l # current)
            /\ UNCHANGED <<index, selected, submitted, answers, finished>>
            /\ crashed' = (index >= Questions(l) /\ Len(answers) # Questions(l))
       ELSE FreshQuiz /\ crashed' = FALSE
    /\ IF tab = "practice" /\ t = "practice" /\ Shown(current, t) /\ Shown(l, t)
       THEN UNCHANGED practice
       ELSE FreshPractice
    /\ IF /\ tab = "theory" /\ t = "theory" /\ {current, l} \subseteq WithCode
          /\ BlockKey[current] = BlockKey[l]
       THEN UNCHANGED code
       ELSE FreshCode
    /\ UNCHANGED open

Live == open /\ ~crashed

-------------------------------------------------------------------------------
(***************************************************************************)
(* LessonView.                                                             *)
(***************************************************************************)

\* The parent mounts the screen on a lesson.
Open(l) ==
    /\ ~open
    /\ open' = TRUE
    /\ current' = l
    /\ UNCHANGED <<crashed, status, tab, focus, sidebar, quiz, practice, code>>

\* onBack; or the page is loaded again.
Leave ==
    /\ open
    /\ open' = FALSE
    /\ crashed' = FALSE
    /\ tab' = "theory"
    /\ focus' = FALSE
    /\ FreshSidebar /\ FreshQuiz /\ FreshPractice /\ FreshCode
    /\ UNCHANGED <<current, status>>

GoTo(l) ==      \* onLessonChange
    /\ Show(l, tab)
    /\ UNCHANGED <<status, focus, sidebar>>

PreviousLesson ==     \* handlePrevious
    /\ Live
    /\ CanGoPrevious
    /\ GoTo(AllLessons[Position - 1])

NextLesson ==        \* handleNext: the buttons Continue and Next
    /\ Live
    /\ CanGoNext
    /\ GoTo(AllLessons[Position + 1])

\* Mutant: the parent uses a status that the sidebar does not know.
CompleteAsDone ==
    /\ Live
    /\ status[current] # "completed"
    /\ status' = [status EXCEPT ![current] = "done"]
    /\ Show(IF CanGoNext THEN AllLessons[Position + 1] ELSE current, tab)
    /\ expanded' = Modules
    /\ UNCHANGED <<focus, query>>

\* handleComplete.  The parent rebuilds modules, and the effect of the sidebar
\* opens every module again.
Complete ==
    /\ Live
    /\ status[current] # "completed"
    /\ status' = [status EXCEPT ![current] = "completed"]
    /\ Show(IF CanGoNext THEN AllLessons[Position + 1] ELSE current, tab)
    /\ expanded' = Modules
    /\ UNCHANGED <<focus, query>>

\* The sidebar is unmounted in focus mode.
ToggleFocus ==
    /\ Live
    /\ focus' = ~focus
    /\ FreshSidebar
    /\ UNCHANGED <<place, crashed, status, quiz, practice, code>>

ChooseTab(t) ==     \* only the parts the lesson has get a trigger
    /\ Live
    /\ Shown(current, t)
    /\ t # tab
    /\ Show(current, t)
    /\ UNCHANGED <<status, focus, sidebar>>

-------------------------------------------------------------------------------
(***************************************************************************)
(* LessonSidebar.                                                          *)
(***************************************************************************)
SidebarMounted == Live /\ ~focus
Found(l) == query = NoQuery \/ l \in Matches[query]

\* A module without a lesson that is found is left out.
Headed(m) == query = NoQuery \/ \E l \in Lessons : ModuleOf[l] = m /\ Found(l)

ToggleModule(m) ==
    /\ SidebarMounted
    /\ Headed(m)
    /\ expanded' = IF m \in expanded THEN expanded \ {m} ELSE expanded \cup {m}
    /\ UNCHANGED <<place, crashed, status, focus, query, quiz, practice, code>>

Search(q) ==
    /\ SidebarMounted
    /\ query' = q
    /\ UNCHANGED <<place, crashed, status, focus, expanded, quiz, practice, code>>

SelectLesson(l) ==
    /\ SidebarMounted
    /\ Found(l)
    /\ ModuleOf[l] \in expanded
    /\ GoTo(l)

-------------------------------------------------------------------------------
(***************************************************************************)
(* QuizView.                                                               *)
(***************************************************************************)
Question == <<current, index + 1>>      \* currentQuestion.id
CorrectOption == Correct[current][index + 1]
IsLastQuestion == index = Questions(current) - 1

\* How an option is drawn.
Mark(o) ==
    CASE submitted /\ o = CorrectOption -> "right"
      [] submitted /\ o # CorrectOption /\ o = selected -> "wrong"
      [] ~submitted /\ o = selected -> "selected"
      [] OTHER -> "plain"

SelectOption(o) ==
    /\ Live /\ QuestionShown
    /\ ~submitted
    /\ selected' = o
    /\ UNCHANGED <<place, crashed, status, focus, sidebar, index, submitted, answers,
                   finished, carried, practice, code>>

SubmitAnswer ==     \* handleSubmit
    /\ Live /\ QuestionShown
    /\ ~submitted
    /\ selected # Nothing
    /\ answers' = Append(answers, [question |-> Question, correct |-> selected = CorrectOption])
    /\ submitted' = TRUE
    /\ UNCHANGED <<place, crashed, status, focus, sidebar, index, selected, finished,
                   carried, practice, code>>

\* Mutant: the next question starts as submitted.
NextQuestionSubmitted ==
    /\ Live /\ QuestionShown
    /\ submitted
    /\ IF IsLastQuestion
       THEN finished' = TRUE /\ UNCHANGED <<index, selected, submitted, answers, carried>>
       ELSE /\ index' = index + 1
            /\ selected' = Nothing
            /\ UNCHANGED <<submitted, answers, finished, carried>>
    /\ UNCHANGED <<place, crashed, status, focus, sidebar, practice, code>>

\* handleNext.  On the last question, where the button reads "View Results", it
\* only calls onComplete, which logs.
NextQuestion ==
    /\ Live /\ QuestionShown
    /\ submitted
    /\ IF IsLastQuestion
       THEN finished' = TRUE /\ UNCHANGED <<index, selected, submitted, answers, carried>>
       ELSE /\ index' = index + 1
            /\ selected' = Nothing
            /\ submitted' = FALSE
            /\ UNCHANGED <<answers, finished, carried>>
    /\ UNCHANGED <<place, crashed, status, focus, sidebar, practice, code>>

-------------------------------------------------------------------------------
(***************************************************************************)
(* PracticeView.                                                           *)
(***************************************************************************)

TypeAnswer(t) ==
    /\ Live /\ PracticeMounted
    /\ ~sent
    /\ text' = t
    /\ UNCHANGED <<place, crashed, status, focus, sidebar, quiz, sent, code>>

SubmitPractice ==   \* handleSubmit
    /\ Live /\ PracticeMounted
    /\ ~sent
    /\ text # Nothing
    /\ sent' = TRUE
    /\ UNCHANGED <<place, crashed, status, focus, sidebar, quiz, text, code>>

-------------------------------------------------------------------------------
(***************************************************************************)
(* CodeBlock.                                                              *)
(***************************************************************************)
ClickCopy ==    \* handleCopy, up to its await
    /\ Live /\ CodeMounted
    /\ writing + timers < MaxCopies
    /\ writing' = writing + 1
    /\ UNCHANGED <<place, crashed, status, focus, sidebar, quiz, practice, copied, timers>>

\* Mutant: the tick is shown and no timer is set to clear it.
WrittenForGood ==
    /\ Live /\ CodeMounted
    /\ writing > 0
    /\ writing' = writing - 1
    /\ copied' = TRUE
    /\ UNCHANGED timers
    /\ UNCHANGED <<place, crashed, status, focus, sidebar, quiz, practice>>

\* The clipboard answers; a refusal is not caught, and changes nothing.
Written ==
    /\ Live /\ CodeMounted
    /\ writing > 0
    /\ writing' = writing - 1
    /\ \/ copied' = TRUE /\ timers' = timers + 1
       \/ UNCHANGED <<copied, timers>>
    /\ UNCHANGED <<place, crashed, status, focus, sidebar, quiz, practice>>

\* The timer of an earlier copy clears the tick of a later one.
ClearTick ==
    /\ Live /\ CodeMounted
    /\ timers > 0
    /\ timers' = timers - 1
    /\ copied' = FALSE
    /\ UNCHANGED <<place, crashed, status, focus, sidebar, quiz, practice, writing>>

-------------------------------------------------------------------------------
LessonViewStep ==
    \/ \E l \in Lessons : Open(l)
    \/ Leave \/ PreviousLesson \/ NextLesson \/ Complete \/ ToggleFocus
    \/ \E t \in Tabs : ChooseTab(t)

SidebarStep ==
    \/ \E m \in Modules : ToggleModule(m)
    \/ \E q \in Queries : Search(q)
    \/ \E l \in Lessons : SelectLesson(l)

QuizStep == (\E o \in Options : SelectOption(o)) \/ SubmitAnswer \/ NextQuestion
PracticeStep == (\E t \in Texts \cup {Nothing} : TypeAnswer(t)) \/ SubmitPractice
CodeStep == ClickCopy \/ Written \/ ClearTick

Next == LessonViewStep \/ SidebarStep \/ QuizStep \/ PracticeStep \/ CodeStep

Spec == Init /\ [][Next]_vars

-------------------------------------------------------------------------------
(***************************************************************************)
(* Properties.                                                             *)
(***************************************************************************)
Answers == [question : Quizzes \X (Nat \ {0}), correct : BOOLEAN]

TypeOK ==
    /\ open \in BOOLEAN /\ crashed \in BOOLEAN /\ focus \in BOOLEAN
    /\ current \in Lessons
    /\ status \in [Lessons -> Statuses]
    /\ tab \in Tabs
    /\ expanded \subseteq Modules /\ query \in Queries
    /\ index \in Nat
    /\ selected \in Options \cup {Nothing}
    /\ submitted \in BOOLEAN /\ finished \in BOOLEAN /\ carried \in BOOLEAN
    /\ answers \in Seq(Answers)
    /\ text \in Texts \cup {Nothing}
    /\ sent \in BOOLEAN
    /\ writing \in Nat /\ timers \in Nat
    /\ copied \in BOOLEAN

\* Whatever way the user takes through tabs and lessons, each question is
\* answered once before the next one comes up.  And a quiz that has not been
\* carried over from another lesson collects the answers to its own questions
\* in their order, never gives the right option away before its question is
\* answered, reports its completion only when every question is answered, and
\* never runs off its end (QuizView.tsx:20-43 against the render in 174-223; the
\* state outlives the lesson in LessonView.tsx:190-197).
QuizStaysInOrder ==
    /\ Len(answers) = IF submitted THEN index + 1 ELSE index
    /\ crashed => carried
    /\ ~carried =>
          /\ \A i \in DOMAIN answers : answers[i].question = <<current, i>>
          /\ finished => Len(answers) = Questions(current)
          /\ QuestionShown =>
                \A o \in Options : Mark(o) = "right" =>
                    \E i \in DOMAIN answers : answers[i].question = Question

\* DESIGN_SYSTEM.md, Task/Quiz completion flow: after the last question the
\* results are viewed.  Said of a quiz that the user has gone through to View
\* Results without leaving its lesson.
ResultsFollow == finished /\ QuizMounted /\ ~carried => ResultsShown

\* The tick of the copy button never stays: while it is shown a timer is set
\* that will clear it, although copies overlap (CodeBlock.tsx:12-16).
TickIsCleared == copied => timers > 0

\* While the theory of a lesson is shown, each line before a fence that is never
\* closed is rendered once, in order and as what it is (TheoryView.tsx:17-87).
TheoryIsRendered == open /\ Shown(current, tab) /\ tab = "theory" => ContentsAreRendered
==============================================================================
