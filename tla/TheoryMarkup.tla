----------------------------- MODULE TheoryMarkup -----------------------------
(***************************************************************************)
(* The parser of TheoryView.tsx: one pass over the lines of a lesson's     *)
(* theory.  A line is represented by what it starts with, an element by    *)
(* its kind and the numbers of the lines it shows.                         *)
(***************************************************************************)
EXTENDS Naturals, Sequences, FiniteSets

CONSTANT Contents       \* the theories that are tried

LineKinds == {"fence", "h1", "h2", "h3", "blank", "item", "text"}

ASSUME ContentsAssumption == \A content \in Contents : content \in Seq(LineKinds)

Start == [elements |-> <<>>, codeBlock |-> <<>>, inCodeBlock |-> FALSE]

\* Mutant: a block keeps the lines of the one before.
ReadLineKeepingCode(state, line, kind) ==
    LET element(k, lines) == Append(state.elements, [kind |-> k, lines |-> lines])
    IN CASE kind = "fence" /\ ~state.inCodeBlock -> [state EXCEPT !.inCodeBlock = TRUE]
         [] kind = "fence" /\ state.inCodeBlock ->
              [state EXCEPT !.elements = element("code", state.codeBlock), !.inCodeBlock = FALSE]
         [] kind # "fence" /\ state.inCodeBlock ->
              [state EXCEPT !.codeBlock = Append(@, line)]
         [] OTHER -> [state EXCEPT !.elements = element(kind, <<line>>)]

ReadLine(state, line, kind) ==
    LET element(k, lines) == Append(state.elements, [kind |-> k, lines |-> lines])
    IN CASE kind = "fence" /\ ~state.inCodeBlock -> [state EXCEPT !.inCodeBlock = TRUE]
         [] kind = "fence" /\ state.inCodeBlock ->
              [elements |-> element("code", state.codeBlock), codeBlock |-> <<>>,
               inCodeBlock |-> FALSE]
         [] kind # "fence" /\ state.inCodeBlock ->
              [state EXCEPT !.codeBlock = Append(@, line)]
         [] OTHER -> [state EXCEPT !.elements = element(kind, <<line>>)]

\* What lines.forEach has collected before the first line and after each line.
Reading(content) ==
    LET after[n \in 0 .. Len(content)] ==
            IF n = 0 THEN Start ELSE ReadLine(after[n - 1], n, content[n])
    IN after

Render(content) == Reading(content)[Len(content)].elements

-------------------------------------------------------------------------------
(***************************************************************************)
(* What the parser should do, said of the text as a whole.                 *)
(***************************************************************************)
Fences(content) == {i \in DOMAIN content : content[i] = "fence"}
FencesBefore(content, line) == {i \in Fences(content) : i < line}
IsCode(content, line) == Cardinality(FencesBefore(content, line)) % 2 = 1

\* The lines behind a fence that is never closed are dropped.
Dropped(content) ==
    {i \in DOMAIN content \ Fences(content) :
        IsCode(content, i) /\ \A fence \in Fences(content) : fence < i}

LinesOf(lines) == {lines[k] : k \in DOMAIN lines}
LinesShown(elements) == UNION {LinesOf(elements[e].lines) : e \in DOMAIN elements}

Increasing(lines) == \A k, l \in DOMAIN lines : k < l => lines[k] < lines[l]
InOrder(elements) ==
    /\ \A e \in DOMAIN elements : Increasing(elements[e].lines)
    /\ \A e, f \in DOMAIN elements :
          e < f => \A i \in LinesOf(elements[e].lines), j \in LinesOf(elements[f].lines) : i < j

KindsKept(content, elements) ==
    \A e \in DOMAIN elements : \A i \in LinesOf(elements[e].lines) :
        elements[e].kind = IF IsCode(content, i) THEN "code" ELSE content[i]

\* Every line that is neither a fence nor behind one that is never closed is
\* shown once, in order, as code exactly if it stands between two fences.
RenderedAsWritten(content) ==
    /\ LinesShown(Render(content)) = DOMAIN content \ (Fences(content) \cup Dropped(content))
    /\ InOrder(Render(content))
    /\ KindsKept(content, Render(content))

ContentsAreRendered == \A content \in Contents : RenderedAsWritten(content)
==============================================================================
