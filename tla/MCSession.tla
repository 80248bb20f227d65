------------------------------ MODULE MCSession ------------------------------
(***************************************************************************)
(* A small instance of Session for TLC.                                    *)
(***************************************************************************)
EXTENDS Session

CONSTANTS c1, c2, h1, h2

TwoCalls == {c1, c2}
TwoHandlers == {h1, h2}
==============================================================================
