------------------------------ MODULE MCScreens ------------------------------
(***************************************************************************)
(* A small instance of Screens: two courses of different levels, of which  *)
(* one is found by the search, and two documents, one uploaded before.      *)
(***************************************************************************)
EXTENDS Screens, TLC

CONSTANTS c1, c2, d1, d2, found

TwoCourses == {c1, c2}
TwoLevels == c1 :> "beginner" @@ c2 :> "advanced"
TwoQueries == {NoQuery, found}
OneMatch == NoQuery :> {} @@ found :> {c1}
TwoDocs == {d1, d2}
OneOldDoc == <<d2>>
==============================================================================
