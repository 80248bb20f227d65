----------------------------- MODULE MCDocuments -----------------------------
(***************************************************************************)
(* Small instances of Documents for TLC.                                   *)
(***************************************************************************)
EXTENDS Documents, TLC

CONSTANTS d1, d2, d3, d4, d5, x1, x2

ThreeDocs == {d3, d4, d5}
FourDocs == {d1, d2, d3, d4}
FiveDocs == {d1, d2, d3, d4, d5}
OneDeleter == {x1}
TwoDeleters == {x1, x2}

\* Two files as large as MaxFile, a small one and two empty ones.  Three large
\* files fit the limit of files and break that of bytes; small and empty ones
\* fit that of bytes and break that of files.
Sizes == d1 :> 3 @@ d2 :> 3 @@ d3 :> 1 @@ d4 :> 0 @@ d5 :> 0
SizesOfDocs == [d \in Docs |-> Sizes[d]]

\* Documents of one size are interchangeable, and so are DELETE requests.
Symmetry == Permutations({d1, d2}) \cup Permutations(TwoDeleters)

NoFaults == {}
==============================================================================
