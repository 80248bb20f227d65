----------------------------- MODULE SampleCourse -----------------------------
(***************************************************************************)
(* The lessons of src/src/app/data/mockData.ts, as far as the lesson       *)
(* screen tells them apart: the parts a lesson has, the lines of its       *)
(* theory by what they start with, and the right option of each question   *)
(* (counted from 0, of four).                                              *)
(***************************************************************************)
EXTENDS Naturals, Sequences

lesson1 ==
    [ id |-> "l1", moduleId |-> "m1", status |-> "completed", parts |-> {"theory", "sources"},
      theory |-> <<"h1", "blank", "text", "blank", "h2", "blank", "text", "text", "text", "blank",
                   "h2", "blank", "item", "item", "item", "item", "blank", "h2", "blank",
                   "fence", "text", "fence", "blank", "text">>,
      quiz |-> <<>> ]

lesson2 ==
    [ id |-> "l2", moduleId |-> "m1", status |-> "completed", parts |-> {"theory", "sources"},
      theory |-> <<"h1", "blank", "text", "blank", "h2", "blank", "text", "blank", "item", "item",
                   "item", "blank", "fence", "h1", "text", "text", "text", "text", "fence",
                   "blank", "h2", "blank", "text", "blank", "text", "text", "text", "blank", "h2",
                   "blank", "text", "blank", "h2", "blank", "item", "item", "item", "item">>,
      quiz |-> <<>> ]

lesson3 ==
    [ id |-> "l3", moduleId |-> "m1", status |-> "in-progress", parts |-> {"practice", "sources"},
      theory |-> <<>>,
      quiz |-> <<>> ]

lesson4 ==
    [ id |-> "l4", moduleId |-> "m1", status |-> "not-started", parts |-> {"quiz"},
      theory |-> <<>>,
      quiz |-> <<1, 2, 1>> ]

lesson5 ==
    [ id |-> "l5", moduleId |-> "m2", status |-> "not-started", parts |-> {"theory", "sources"},
      theory |-> <<"h1", "blank", "text", "blank", "h2", "blank", "text", "blank", "h2", "blank",
                   "text", "text", "text", "text", "blank", "h2", "blank", "item", "item", "item",
                   "item", "item", "blank", "h2", "blank", "text", "blank", "item", "item", "item">>,
      quiz |-> <<>> ]

mockLessons == <<lesson1, lesson2, lesson3, lesson4, lesson5>>
==============================================================================
