---------------------------- MODULE MCLessonPlayer ----------------------------
(***************************************************************************)
(* A small course for LessonPlayer: the lessons of SampleCourse, and one   *)
(* with every part.  No two of the sample lessons have a quiz or a         *)
(* practice, so that without it nothing is ever carried over.              *)
(***************************************************************************)
EXTENDS LessonPlayer, SampleCourse, SequencesExt

CONSTANTS t1, t2

mixed ==
    [ id |-> "l6", moduleId |-> "m2", status |-> "not-started",
      parts |-> {"theory", "practice", "quiz", "sources"},
      theory |-> lesson1.theory, quiz |-> <<2, 1>> ]

Course == mockLessons \o <<mixed>>
Ids == [i \in DOMAIN Course |-> Course[i].id]
Lesson(id) == Course[CHOOSE i \in DOMAIN Course : Course[i].id = id]
Field(F(_)) == [id \in ToSet(Ids) |-> F(Lesson(id))]

ModulesOfCourse == Field(LAMBDA l : l.moduleId)
StatusesOfCourse == Field(LAMBDA l : l.status)
PartsOfCourse == Field(LAMBDA l : l.parts)
QuizzesOfCourse == [id \in {"l4", "l6"} |-> Lesson(id).quiz]

\* A block has the number of its closing fence as its key.
BlocksOfCourse ==
    [id \in {i \in ToSet(Ids) : \E k \in DOMAIN Lesson(i).theory : Lesson(i).theory[k] = "fence"} |->
        Max({k \in DOMAIN Lesson(id).theory : Lesson(id).theory[k] = "fence"}) - 1]

TwoOptions == {1, 2}
TwoTexts == {t1, t2}
NoQueryText == ""
TwoQueries == {NoQueryText, "chunk"}
TitlesWith == [q \in TwoQueries |-> IF q = "chunk" THEN {"l3"} ELSE ToSet(Ids)]

ShortContents == BoundedSeq({"fence", "text", "blank", "h1"}, 6)
SomeContents == ShortContents \cup {Course[i].theory : i \in DOMAIN Course}
==============================================================================
