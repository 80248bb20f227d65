-------------------------- MODULE LessonPlayerProofs --------------------------
(***************************************************************************)
(* Proofs about LessonPlayer, for every course.                            *)
(***************************************************************************)
EXTENDS LessonPlayer, TheoryMarkupProofs, TLAPS

-------------------------------------------------------------------------------
(***************************************************************************)
(* Types.                                                                  *)
(***************************************************************************)
LEMMA PositionOfCurrent ==
    ASSUME current \in Lessons
    PROVE  Position \in DOMAIN AllLessons /\ AllLessons[Position] = current
BY DEF Position, Lessons

\* The lessons that the buttons lead to.
LEMMA Neighbours ==
    ASSUME current \in Lessons
    PROVE  /\ CanGoPrevious => AllLessons[Position - 1] \in Lessons
           /\ CanGoNext => AllLessons[Position + 1] \in Lessons
<1> Position \in 1 .. Len(AllLessons)
    BY PositionOfCurrent, LessonsAssumption
<1> QED
    BY LessonsAssumption DEF CanGoPrevious, CanGoNext, Lessons

LEMMA QuestionsType == \A l \in Quizzes : Questions(l) \in Nat
BY QuizAssumption DEF Questions

LEMMA ShowTypes ==
    ASSUME TypeOK, NEW l \in Lessons, NEW t \in Tabs, Show(l, t),
           status' \in [Lessons -> Statuses], expanded' \subseteq Modules,
           UNCHANGED <<focus, query>>
    PROVE  TypeOK'
<1>1. /\ index' \in Nat
      /\ selected' \in Options \cup {Nothing} /\ submitted' \in BOOLEAN
      /\ finished' \in BOOLEAN /\ carried' \in BOOLEAN /\ crashed' \in BOOLEAN
      /\ answers' \in Seq(Answers)
  <2>1. CASE UNCHANGED <<index, selected, submitted, answers, finished>>
    <3>1. carried' \in BOOLEAN /\ crashed' \in BOOLEAN
        BY Zenon DEF Show, FreshQuiz
    <3> QED
        BY <2>1, <3>1 DEF TypeOK, Questions
  <2>2. CASE FreshQuiz /\ crashed' = FALSE
    <3>1. answers' \in Seq(Answers)
        BY <2>2 DEF FreshQuiz
    <3> QED
        BY <2>2, <3>1 DEF FreshQuiz
  <2> QED
    BY <2>1, <2>2 DEF Show
<1>2. text' \in Texts \cup {Nothing} /\ sent' \in BOOLEAN
    BY DEF TypeOK, Show, FreshPractice, practice
<1>3. writing' \in Nat /\ timers' \in Nat /\ copied' \in BOOLEAN
  <2>1. UNCHANGED code \/ FreshCode
    BY DEF Show
  <2>2. copied' \in BOOLEAN
    BY <2>1, Zenon DEF TypeOK, FreshCode, code
  <2>3. writing' \in Nat /\ timers' \in Nat
    <3>1. UNCHANGED <<writing, timers>> \/ (writing' = 0 /\ timers' = 0)
        BY <2>1, Zenon DEF FreshCode, code
    <3> QED
        BY <3>1 DEF TypeOK
  <2> QED
    BY <2>2, <2>3
<1> QED
    BY <1>1, <1>2, <1>3 DEF TypeOK, Show, Questions

LEMMA TypesHold == TypeOK /\ [Next]_vars => TypeOK'
<1> SUFFICES ASSUME TypeOK, [Next]_vars PROVE TypeOK'
    OBVIOUS
<1>1. ASSUME NEW l \in Lessons, Open(l) PROVE TypeOK'
    BY <1>1 DEF TypeOK, Open, sidebar, quiz, practice, code, Questions
<1>2. CASE Leave
  <2>1. /\ open' \in BOOLEAN /\ crashed' \in BOOLEAN /\ focus' \in BOOLEAN
        /\ submitted' \in BOOLEAN /\ finished' \in BOOLEAN /\ carried' \in BOOLEAN
        /\ sent' \in BOOLEAN /\ copied' \in BOOLEAN
    BY <1>2, Zenon DEF Leave, FreshQuiz, FreshPractice, FreshCode
  <2>2. /\ current' \in Lessons /\ status' \in [Lessons -> Statuses] /\ tab' \in Tabs
        /\ expanded' \subseteq Modules /\ query' \in Queries
        /\ index' \in Nat /\ index' = 0 /\ selected' \in Options \cup {Nothing}
        /\ answers' \in Seq(Answers)
        /\ text' \in Texts \cup {Nothing}
        /\ writing' \in Nat /\ timers' \in Nat
    BY <1>2, SearchAssumption
    DEF TypeOK, Leave, FreshSidebar, FreshQuiz, FreshPractice, FreshCode, Tabs
  <2> QED
    BY <2>1, <2>2 DEF TypeOK
<1>3. CASE PreviousLesson
    BY <1>3, Neighbours, ShowTypes DEF PreviousLesson, GoTo, TypeOK, sidebar
<1>4. CASE NextLesson
    BY <1>4, Neighbours, ShowTypes DEF NextLesson, GoTo, TypeOK, sidebar
<1>5. CASE Complete
    BY <1>5, Neighbours, ShowTypes DEF Complete, TypeOK, Statuses
<1>6. CASE ToggleFocus
    BY <1>6, SearchAssumption
    DEF TypeOK, ToggleFocus, FreshSidebar, place, quiz, practice, code, Questions
<1>7. ASSUME NEW t \in Tabs, ChooseTab(t) PROVE TypeOK'
    BY <1>7, ShowTypes DEF ChooseTab, TypeOK, sidebar
<1>8. CASE SidebarStep
  <2>1. ASSUME NEW m \in Modules, ToggleModule(m) PROVE TypeOK'
    BY <2>1 DEF TypeOK, ToggleModule, place, quiz, practice, code, Questions
  <2>2. ASSUME NEW q \in Queries, Search(q) PROVE TypeOK'
    BY <2>2 DEF TypeOK, Search, place, quiz, practice, code, Questions
  <2>3. ASSUME NEW l \in Lessons, SelectLesson(l) PROVE TypeOK'
    BY <2>3, ShowTypes DEF SelectLesson, GoTo, TypeOK, sidebar
  <2> QED
    BY <1>8, <2>1, <2>2, <2>3 DEF SidebarStep
<1>9. CASE QuizStep
  <2>1. ASSUME NEW o \in Options, SelectOption(o) PROVE TypeOK'
    BY <2>1 DEF TypeOK, SelectOption, place, sidebar, practice, code, Questions
  <2>2. CASE SubmitAnswer
    <3>1. current \in Quizzes
        BY <2>2 DEF SubmitAnswer, QuestionShown, QuizMounted, Shown, Quizzes, TypeOK
    <3>2. [question |-> Question, correct |-> selected = CorrectOption] \in Answers
        BY <3>1 DEF Answers, Question, TypeOK
    <3>3. answers' \in Seq(Answers)
        BY <2>2, <3>2 DEF SubmitAnswer, TypeOK
    <3> QED
        BY <2>2, <3>3 DEF TypeOK, SubmitAnswer, place, sidebar, practice, code, Questions
  <2>3. CASE NextQuestion
    <3>1. \/ index' = index /\ selected' = selected /\ submitted' = submitted
          \/ index' = index + 1 /\ selected' = Nothing /\ submitted' = FALSE
        BY <2>3, Zenon DEF NextQuestion
    <3>2. /\ finished' = TRUE \/ finished' = finished
          /\ UNCHANGED <<answers, carried>>
        BY <2>3, Zenon DEF NextQuestion
    <3>3. UNCHANGED <<place, crashed, status, focus, sidebar, practice, code>>
        BY <2>3, Zenon DEF NextQuestion
    <3>4. submitted' \in BOOLEAN /\ finished' \in BOOLEAN
        BY <3>1, <3>2, Zenon DEF TypeOK
    <3>5. index' \in Nat /\ selected' \in Options \cup {Nothing}
        BY <3>1 DEF TypeOK
    <3> QED
        BY <3>2, <3>3, <3>4, <3>5 DEF TypeOK, place, sidebar, practice, code
  <2> QED
    BY <1>9, <2>1, <2>2, <2>3 DEF QuizStep
<1>10. CASE PracticeStep
    BY <1>10 DEF TypeOK, PracticeStep, TypeAnswer, SubmitPractice, place, sidebar, quiz, code,
                 Questions
<1>11. CASE CodeStep
  <2>1. writing' \in Nat /\ timers' \in Nat
    BY <1>11 DEF TypeOK, CodeStep, ClickCopy, Written, ClearTick
  <2>2. copied' \in BOOLEAN
    BY <1>11 DEF TypeOK, CodeStep, ClickCopy, Written, ClearTick
  <2>3. UNCHANGED <<place, crashed, status, focus, sidebar, quiz, practice>>
    BY <1>11, Zenon DEF CodeStep, ClickCopy, Written, ClearTick
  <2> QED
    BY <2>1, <2>2, <2>3 DEF TypeOK, place, sidebar, quiz, practice, Questions
<1>12. CASE UNCHANGED vars
    BY <1>12 DEF TypeOK, vars, place, sidebar, quiz, practice, code, Questions
<1> QED
    BY <1>1, <1>2, <1>3, <1>4, <1>5, <1>6, <1>7, <1>8, <1>9, <1>10, <1>11, <1>12
    DEF Next, LessonViewStep

\* Every variable keeps its type, for any course.
THEOREM LessonPlayerTypeCorrectness == Spec => []TypeOK
<1>1. Init => TypeOK
  <2> SUFFICES ASSUME Init PROVE TypeOK
    OBVIOUS
  <2>1. answers \in Seq(Answers)
    BY DEF Init
  <2>2. expanded \subseteq Modules /\ query \in Queries /\ status \in [Lessons -> Statuses]
    BY LessonsAssumption, SearchAssumption DEF Init
  <2> QED
    BY <2>1, <2>2 DEF Init, TypeOK, Tabs
<1> QED
    BY <1>1, TypesHold, PTL DEF Spec

-------------------------------------------------------------------------------
(***************************************************************************)
(* The quiz.                                                               *)
(***************************************************************************)
InQuiz == tab = "quiz" /\ Shown(current, tab)

\* A quiz that is not mounted is fresh; and one that is still that of its own
\* lesson has not gone beyond its last question.
QuizInv ==
    /\ ~open => tab = "theory"
    /\ ~InQuiz => /\ index = 0 /\ submitted = FALSE /\ answers = <<>>
                  /\ finished = FALSE /\ carried = FALSE
    /\ InQuiz /\ ~carried =>
          index < Questions(current) \/ (index = 0 /\ submitted = FALSE /\ Questions(current) = 0)
    /\ Len(answers) = IF submitted THEN index + 1 ELSE index
    /\ crashed => carried
    /\ ~carried => \A i \in DOMAIN answers : answers[i].question = <<current, i>>
    /\ finished /\ ~carried => submitted /\ Len(answers) = Questions(current)

LEMMA ShowKeepsOrder ==
    ASSUME TypeOK, QuizInv, open, NEW l \in Lessons, NEW t \in Tabs, Show(l, t)
    PROVE  QuizInv'
<1>1. open' /\ current' = l /\ tab' = t
    BY Zenon DEF Show
<1>2. CASE tab = "quiz" /\ t = "quiz" /\ Shown(current, t) /\ Shown(l, t)
  <2>1. /\ carried' <=> carried \/ l # current
        /\ UNCHANGED <<index, selected, submitted, answers, finished>>
        /\ crashed' <=> index >= Questions(l) /\ Len(answers) # Questions(l)
    BY <1>2, Zenon DEF Show
  <2>2. InQuiz /\ InQuiz'
    BY <1>1, <1>2 DEF InQuiz, Shown
  <2>3. l \in Quizzes /\ current \in Quizzes
    BY <1>2 DEF Quizzes, Shown, TypeOK
  <2>4. ASSUME ~carried' PROVE l = current /\ ~carried
    BY <2>1, <2>4
  <2>5. Questions(l)' = Questions(l) /\ Questions(l) \in Nat /\ index \in Nat
    BY <2>3, QuestionsType DEF Questions, TypeOK
  <2>6. /\ InQuiz' /\ ~carried' =>
              index' < Questions(current)' \/ (index' = 0 /\ submitted' = FALSE /\ Questions(current)' = 0)
        /\ crashed' => carried'
    <3>1. ASSUME ~carried' 
          PROVE  index < Questions(l) \/ (index = 0 /\ submitted = FALSE /\ Questions(l) = 0)
        BY <2>2, <2>4, <3>1 DEF QuizInv
    <3>2. ASSUME ~carried', index = 0, submitted = FALSE, Questions(l) = 0 PROVE ~crashed'
        <4>1. Len(answers) = 0
            BY <2>1, <2>4, <3>2, <2>2 DEF QuizInv, TypeOK, Answers
        <4> QED
            BY <4>1, <3>2, <2>1
    <3>3. ASSUME ~carried', index < Questions(l) PROVE ~crashed'
        BY <3>3, <2>1, <2>5
    <3> QED
        BY <3>1, <3>2, <3>3, <2>1, <1>1 DEF Questions
  <2>7. Len(answers)' = IF submitted' THEN index' + 1 ELSE index'
    BY <2>1 DEF QuizInv
  <2>8. ~carried' => \A i \in DOMAIN answers' : answers'[i].question = <<current', i>>
    BY <2>1, <2>4, <1>1 DEF QuizInv
  <2>9. ASSUME finished', ~carried' PROVE submitted' /\ Len(answers') = Questions(current)'
    BY <1>1, <2>1, <2>4, <2>5, <2>9 DEF QuizInv
  <2> QED
    BY <1>1, <2>2, <2>6, <2>7, <2>8, <2>9 DEF QuizInv
<1>3. CASE ~(tab = "quiz" /\ t = "quiz" /\ Shown(current, t) /\ Shown(l, t))
  <2>1. /\ index' = 0 /\ submitted' = FALSE /\ answers' = <<>>
        /\ finished' = FALSE /\ carried' = FALSE /\ crashed' = FALSE
    BY <1>3, Zenon DEF Show, FreshQuiz
  <2>2. InQuiz' => 0 < Questions(current)' \/ Questions(current)' = 0
    BY <1>1, QuestionsType DEF InQuiz, Shown, Quizzes, Questions
  <2> QED
    BY <1>1, <2>1, <2>2 DEF QuizInv
<1> QED
    BY <1>2, <1>3

LEMMA QuizKept ==
    ASSUME QuizInv, UNCHANGED <<place, crashed, quiz>>
    PROVE  QuizInv'
BY DEF QuizInv, InQuiz, Shown, Questions, place, quiz

LEMMA OrderHolds == TypeOK /\ QuizInv /\ [Next]_vars => QuizInv'
<1> SUFFICES ASSUME TypeOK, QuizInv, [Next]_vars PROVE QuizInv'
    OBVIOUS
<1>1. ASSUME NEW l \in Lessons, Open(l) PROVE QuizInv'
  <2>1. open' /\ tab' = "theory" /\ UNCHANGED <<crashed, quiz>> /\ ~InQuiz /\ ~InQuiz'
    BY <1>1 DEF Open, QuizInv, InQuiz
  <2> QED
    BY <2>1 DEF QuizInv, quiz
<1>2. CASE Leave
  <2>1. /\ tab' = "theory" /\ crashed' = FALSE
        /\ index' = 0 /\ submitted' = FALSE /\ answers' = <<>>
        /\ finished' = FALSE /\ carried' = FALSE
    BY <1>2, Zenon DEF Leave, FreshQuiz
  <2> QED
    BY <2>1 DEF QuizInv, InQuiz
<1>3. CASE PreviousLesson
    BY <1>3, Neighbours, ShowKeepsOrder DEF PreviousLesson, GoTo, TypeOK, Live
<1>4. CASE NextLesson
    BY <1>4, Neighbours, ShowKeepsOrder DEF NextLesson, GoTo, TypeOK, Live
<1>5. CASE Complete
    BY <1>5, Neighbours, ShowKeepsOrder DEF Complete, TypeOK, Live
<1>6. CASE ToggleFocus
    BY <1>6, QuizKept DEF ToggleFocus
<1>7. ASSUME NEW t \in Tabs, ChooseTab(t) PROVE QuizInv'
    BY <1>7, ShowKeepsOrder DEF ChooseTab, TypeOK, Live
<1>8. CASE SidebarStep
  <2>1. ASSUME NEW l \in Lessons, SelectLesson(l) PROVE QuizInv'
    BY <2>1, ShowKeepsOrder DEF SelectLesson, GoTo, TypeOK, SidebarMounted, Live
  <2> QED
    BY <1>8, <2>1, QuizKept DEF SidebarStep, ToggleModule, Search
<1>9. CASE QuizStep
  <2>1. ASSUME NEW o \in Options, SelectOption(o) PROVE QuizInv'
    BY <2>1 DEF SelectOption, QuizInv, InQuiz, Shown, Questions, place
  <2>2. CASE SubmitAnswer
    <3>1. /\ InQuiz /\ ~submitted /\ submitted'
          /\ answers' = Append(answers, [question |-> Question, correct |-> selected = CorrectOption])
          /\ UNCHANGED <<place, crashed, index, finished, carried>>
        BY <2>2 DEF SubmitAnswer, QuestionShown, QuizMounted, InQuiz
    <3>2. answers \in Seq(Answers) /\ Len(answers) = index /\ index \in Nat
        BY <3>1 DEF TypeOK, QuizInv
    <3>3. Len(answers') = index' + 1
        BY <3>1, <3>2
    <3>4. ASSUME ~carried', NEW i \in DOMAIN answers'
          PROVE  answers'[i].question = <<current', i>>
        BY <3>1, <3>2, <3>4 DEF QuizInv, Question, place
    <3>5. InQuiz' /\ open' = open /\ current' = current /\ (open' \/ tab' = "theory")
        BY <3>1 DEF InQuiz, Shown, place, QuizInv
    <3>6. (carried' <=> carried) /\ (crashed' <=> crashed)
        BY <3>1, Zenon
    <3>7. ~carried => index < Questions(current)
        BY <2>2, <3>1 DEF SubmitAnswer, QuestionShown
    <3>8. Questions(current)' = Questions(current) /\ index' = index
        BY <3>1, <3>5 DEF Questions
    <3>9. ~(finished' /\ ~carried')
        BY <3>1, Zenon DEF QuizInv
    <3> QED
        BY <3>1, <3>3, <3>4, <3>5, <3>6, <3>7, <3>8, <3>9 DEF QuizInv
  <2>3. CASE NextQuestion
    <3>1. CASE IsLastQuestion
      <4>1. /\ submitted /\ current \in Quizzes
            /\ UNCHANGED <<place, crashed, index, submitted, answers, carried>>
        BY <2>3, <3>1 DEF NextQuestion, QuestionShown, QuizMounted, Shown, Quizzes, TypeOK
      <4>2. Len(answers) = Questions(current)
        BY <3>1, <4>1, QuestionsType DEF IsLastQuestion, QuizInv, TypeOK
      <4>3. InQuiz
        BY <2>3 DEF NextQuestion, QuestionShown, QuizMounted, InQuiz
      <4>4. Questions(current)' = Questions(current) /\ InQuiz'
        BY <4>1, <4>3 DEF Questions, place, InQuiz, Shown
      <4> QED
        BY <4>1, <4>2, <4>3, <4>4 DEF QuizInv, place
    <3>2. CASE ~IsLastQuestion
      <4>1. /\ InQuiz /\ submitted /\ index' = index + 1 /\ submitted' = FALSE
            /\ UNCHANGED <<answers, finished, carried, place, crashed>>
            /\ index < Questions(current)
        BY <2>3, <3>2, Zenon DEF NextQuestion, QuestionShown, QuizMounted, InQuiz
      <4>2. current \in Quizzes /\ index \in Nat
        BY <4>1 DEF InQuiz, Shown, Quizzes, TypeOK
      <4>3. index' < Questions(current)
        BY <4>1, <4>2, <3>2, QuestionsType DEF IsLastQuestion
      <4>4. Len(answers') = index'
        BY <4>1 DEF QuizInv
      <4>5. InQuiz' /\ open' = open /\ current' = current /\ (open' \/ tab' = "theory")
        BY <4>1 DEF InQuiz, Shown, place, QuizInv
      <4>6. (carried' <=> carried) /\ (crashed' <=> crashed) /\ ~submitted'
        BY <4>1, Zenon
      <4>7. Questions(current)' = Questions(current)
        BY <4>5 DEF Questions
      <4>8. ~carried' => \A i \in DOMAIN answers' : answers'[i].question = <<current', i>>
        BY <4>1, <4>5, <4>6 DEF QuizInv
      <4>9. ~(finished' /\ ~carried')
        <5>1. SUFFICES ASSUME finished, ~carried PROVE FALSE
            BY <4>1, Zenon
        <5>2. index + 1 = Questions(current)
            BY <4>1, <4>2, <5>1 DEF QuizInv
        <5> QED
            BY <3>2, <4>2, <5>2, QuestionsType DEF IsLastQuestion
      <4> QED
        BY <4>3, <4>4, <4>5, <4>6, <4>7, <4>8, <4>9 DEF QuizInv
    <3> QED
        BY <3>1, <3>2
  <2> QED
    BY <1>9, <2>1, <2>2, <2>3 DEF QuizStep
<1>10. PracticeStep \/ CodeStep \/ UNCHANGED vars => UNCHANGED <<place, crashed, quiz>>
    BY Zenon DEF PracticeStep, TypeAnswer, SubmitPractice, CodeStep, ClickCopy, Written, ClearTick,
                 vars
<1> QED
    BY <1>1, <1>2, <1>3, <1>4, <1>5, <1>6, <1>7, <1>8, <1>9, <1>10, QuizKept
    DEF Next, LessonViewStep

LEMMA OrderIsKept == TypeOK /\ QuizInv => QuizStaysInOrder
<1> SUFFICES ASSUME TypeOK, QuizInv PROVE QuizStaysInOrder
    OBVIOUS
<1>1. ASSUME ~carried, QuestionShown, NEW o \in Options, Mark(o) = "right"
      PROVE  \E i \in DOMAIN answers : answers[i].question = Question
  <2>1. submitted
    BY <1>1 DEF Mark
  <2>2. Len(answers) = index + 1 /\ answers \in Seq(Answers) /\ index \in Nat
    BY <2>1 DEF QuizInv, TypeOK
  <2>3. index + 1 \in DOMAIN answers
    BY <2>2
  <2> QED
    BY <1>1, <2>3 DEF QuizInv, Question
<1> QED
    BY <1>1 DEF QuizInv, QuizStaysInOrder

\* In any course, along any way through tabs and lessons, the questions are
\* answered one after the other, and what a quiz of one lesson can do wrong takes
\* a step to another lesson.
THEOREM QuizOrder == Spec => []QuizStaysInOrder
<1>1. Init => QuizInv
    BY DEF Init, QuizInv, InQuiz
<1> QED
    BY <1>1, OrderHolds, OrderIsKept, LessonPlayerTypeCorrectness, PTL DEF Spec

-------------------------------------------------------------------------------
(***************************************************************************)
(* The code block.                                                         *)
(***************************************************************************)
LEMMA TickHolds == TypeOK /\ TickIsCleared /\ [Next]_vars => TickIsCleared'
<1> SUFFICES ASSUME TypeOK, TickIsCleared, [Next]_vars PROVE TickIsCleared'
    OBVIOUS
<1>1. ASSUME NEW l, NEW t, Show(l, t) PROVE TickIsCleared'
    BY <1>1 DEF Show, TickIsCleared, FreshCode, code
<1>2. CASE Leave
    BY <1>2 DEF Leave, TickIsCleared, FreshCode
<1>3. CASE CodeStep
  <2>1. CASE ClickCopy
    BY <2>1 DEF ClickCopy, TickIsCleared
  <2>2. CASE Written
    <3>1. timers' = timers + 1 \/ UNCHANGED <<copied, timers>>
        BY <2>2, Zenon DEF Written
    <3>2. timers' = timers + 1 => timers' > 0
        BY DEF TypeOK
    <3>3. UNCHANGED <<copied, timers>> => TickIsCleared'
        BY Zenon DEF TickIsCleared
    <3> QED
        BY <3>1, <3>2, <3>3, Zenon DEF TickIsCleared
  <2>3. CASE ClearTick
    BY <2>3, Zenon DEF ClearTick, TickIsCleared
  <2> QED
    BY <1>3, <2>1, <2>2, <2>3 DEF CodeStep
<1>4. CASE UNCHANGED code
    BY <1>4 DEF TickIsCleared, code
<1>5. LessonViewStep => \/ UNCHANGED code \/ Leave \/ \E l, t : Show(l, t)
    BY DEF LessonViewStep, Open, PreviousLesson, NextLesson, Complete, ToggleFocus, ChooseTab,
           GoTo
<1>6. SidebarStep => UNCHANGED code \/ \E l, t : Show(l, t)
    BY DEF SidebarStep, ToggleModule, Search, SelectLesson, GoTo
<1>7. QuizStep \/ PracticeStep \/ UNCHANGED vars => UNCHANGED code
    BY Zenon DEF QuizStep, SelectOption, SubmitAnswer, NextQuestion, PracticeStep, TypeAnswer,
           SubmitPractice, vars
<1> QED
    BY <1>1, <1>2, <1>3, <1>4, <1>5, <1>6, <1>7 DEF Next

\* However many copies overlap, a tick that is shown will be cleared.
THEOREM TickIsAlwaysCleared == Spec => []TickIsCleared
<1>1. Init => TickIsCleared
    BY DEF Init, TickIsCleared
<1> QED
    BY <1>1, TickHolds, LessonPlayerTypeCorrectness, PTL DEF Spec

-------------------------------------------------------------------------------
(***************************************************************************)
(* The theory.                                                             *)
(***************************************************************************)

\* Whatever text a lesson has, its theory is shown as it is written, up to a fence
\* that is never closed.
THEOREM TheoryIsAlwaysRendered == Spec => []TheoryIsRendered
<1>1. ContentsAreRendered
    BY ContentsAssumption, EveryTextIsRendered DEF ContentsAreRendered
<1>2. TheoryIsRendered
    BY <1>1 DEF TheoryIsRendered
<1> QED
    BY <1>2, PTL
==============================================================================
