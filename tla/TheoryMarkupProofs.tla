-------------------------- MODULE TheoryMarkupProofs --------------------------
(***************************************************************************)
(* The theory parser is right for every text: by induction on the lines it *)
(* has read.                                                               *)
(***************************************************************************)
EXTENDS TheoryMarkup, FiniteSetTheorems, WellFoundedInduction, TLAPS

\* A set of numbers that is not empty has a least one.
LEMMA LeastNumber ==
    ASSUME NEW T \in SUBSET Nat, T # {}
    PROVE  \E n \in T : \A m \in T : n <= m
<1> DEFINE R == OpToRel(<, Nat)
<1>1. IsWellFoundedOn(R, Nat)
  BY NatLessThanWellFounded
<1>2. PICK n \in T : \A m \in T : <<m, n>> \notin R
  <2> HIDE DEF R
  <2> QED
    BY <1>1, WFMin
<1>3. \A m \in T : ~(m < n)
  BY <1>2 DEF OpToRel
<1> QED
  BY <1>3

\* A set that has 0, and n + 1 with each n below the limit, has every number up
\* to the limit.
LEMMA UpTo ==
    ASSUME NEW N \in Nat, NEW T, 0 \in T, \A n \in 0 .. N - 1 : n \in T => n + 1 \in T
    PROVE  0 .. N \subseteq T
<1> SUFFICES ASSUME (0 .. N) \ T # {} PROVE FALSE
  OBVIOUS
<1>1. PICK n \in (0 .. N) \ T : \A m \in (0 .. N) \ T : n <= m
  <2>1. (0 .. N) \ T \in SUBSET Nat
    OBVIOUS
  <2> QED
    BY <2>1, LeastNumber, Zenon
<1>2. n # 0 /\ n - 1 \in 0 .. N - 1
  BY <1>1
<1>3. n - 1 \in T
  BY <1>1, <1>2
<1> QED
  BY <1>1, <1>2, <1>3

-------------------------------------------------------------------------------
(***************************************************************************)
(* The recursion.                                                          *)
(***************************************************************************)
ReadsUpTo(content, N, after) ==
    after = [n \in 0 .. N |-> IF n = 0 THEN Start ELSE ReadLine(after[n - 1], n, content[n])]

\* The lines of a text can be read up to any number.
LEMMA SomeReading ==
    ASSUME NEW content, NEW N \in Nat
    PROVE  \E after : ReadsUpTo(content, N, after)
<1> DEFINE T == {n \in 0 .. N : \E after : ReadsUpTo(content, n, after)}
<1>1. 0 \in T
  <2>1. ReadsUpTo(content, 0, [n \in 0 .. 0 |-> Start])
    BY DEF ReadsUpTo
  <2> QED
    BY <2>1
<1>2. ASSUME NEW n \in 0 .. N - 1, n \in T PROVE n + 1 \in T
  <2>1. PICK after : ReadsUpTo(content, n, after)
    BY <1>2
  <2> DEFINE longer == [k \in 0 .. n + 1 |->
                           IF k = n + 1 THEN ReadLine(after[n], n + 1, content[n + 1]) ELSE after[k]]
  <2>2. ASSUME NEW k \in 0 .. n + 1
        PROVE  longer[k] = IF k = 0 THEN Start ELSE ReadLine(longer[k - 1], k, content[k])
    <3>1. CASE k = n + 1
      BY <3>1
    <3>2. CASE k # n + 1
      <4>1. /\ k \in 0 .. n /\ longer[k] = after[k]
            /\ (k # 0 => longer[k - 1] = after[k - 1])
        BY <3>2
      <4>2. after[k] = IF k = 0 THEN Start ELSE ReadLine(after[k - 1], k, content[k])
        BY <2>1, <4>1 DEF ReadsUpTo
      <4> QED
        BY <4>1, <4>2
    <3> QED
      BY <3>1, <3>2
  <2>3. ReadsUpTo(content, n + 1, longer)
    BY <2>2 DEF ReadsUpTo
  <2> HIDE DEF longer
  <2> QED
    BY <2>3
<1>3. 0 .. N \subseteq T
  <2> HIDE DEF T
  <2> QED
    BY <1>1, <1>2, UpTo
<1> QED
  BY <1>3

\* Reading follows its recursion.
LEMMA ReadingDef ==
    ASSUME NEW content, Len(content) \in Nat
    PROVE  /\ Reading(content)[0] = Start
           /\ \A n \in 1 .. Len(content) :
                 Reading(content)[n] = ReadLine(Reading(content)[n - 1], n, content[n])
<1>1. PICK after : ReadsUpTo(content, Len(content), after)
  BY SomeReading
<1>2. ReadsUpTo(content, Len(content), Reading(content))
  BY <1>1, Zenon DEF Reading, ReadsUpTo
<1>3. \A n \in 0 .. Len(content) :
         Reading(content)[n] =
            IF n = 0 THEN Start ELSE ReadLine(Reading(content)[n - 1], n, content[n])
  <2> DEFINE R == Reading(content)
  <2>1. R = [n \in 0 .. Len(content) |-> IF n = 0 THEN Start ELSE ReadLine(R[n - 1], n, content[n])]
    BY <1>2 DEF ReadsUpTo
  <2> HIDE DEF R
  <2>2. \A n \in 0 .. Len(content) :
           R[n] = IF n = 0 THEN Start ELSE ReadLine(R[n - 1], n, content[n])
    BY <2>1, Zenon
  <2> QED
    BY <2>2 DEF R
<1> QED
  BY <1>3

-------------------------------------------------------------------------------
(***************************************************************************)
(* Lines and elements that are appended.                                   *)
(***************************************************************************)
Elements == [kind : LineKinds \cup {"code"}, lines : Seq(Nat)]

LEMMA AppendLine ==
    ASSUME NEW lines \in Seq(Nat), NEW n \in Nat,
           Increasing(lines), \A i \in LinesOf(lines) : i < n
    PROVE  /\ Append(lines, n) \in Seq(Nat)
           /\ LinesOf(Append(lines, n)) = LinesOf(lines) \cup {n}
           /\ Increasing(Append(lines, n))
<1> DEFINE longer == Append(lines, n)
<1>1. /\ longer \in Seq(Nat) /\ DOMAIN longer = 1 .. Len(lines) + 1 /\ Len(lines) \in Nat
      /\ DOMAIN lines = 1 .. Len(lines)
      /\ \A k \in 1 .. Len(lines) : longer[k] = lines[k]
      /\ longer[Len(lines) + 1] = n
  OBVIOUS
<1> HIDE DEF longer
<1>2. LinesOf(longer) = LinesOf(lines) \cup {n}
  <2>1. ASSUME NEW k \in DOMAIN longer PROVE longer[k] \in LinesOf(lines) \cup {n}
    BY <1>1 DEF LinesOf
  <2>2. ASSUME NEW k \in DOMAIN lines PROVE lines[k] \in LinesOf(longer)
    BY <1>1 DEF LinesOf
  <2>3. n \in LinesOf(longer)
    BY <1>1 DEF LinesOf
  <2> QED
    BY <2>1, <2>2, <2>3 DEF LinesOf
<1>3. Increasing(longer)
  <2> SUFFICES ASSUME NEW k \in DOMAIN longer, NEW l \in DOMAIN longer, k < l
               PROVE  longer[k] < longer[l]
    BY DEF Increasing
  <2>1. k \in DOMAIN lines /\ longer[k] = lines[k]
    BY <1>1
  <2>2. CASE l \in DOMAIN lines
    BY <1>1, <2>1, <2>2 DEF Increasing
  <2>3. CASE l = Len(lines) + 1
    BY <1>1, <2>1, <2>3 DEF LinesOf
  <2> QED
    BY <1>1, <2>2, <2>3
<1> QED
  BY <1>1, <1>2, <1>3 DEF longer

LEMMA AppendElement ==
    ASSUME NEW content, NEW elements \in Seq(Elements), NEW e \in Elements,
           InOrder(elements), KindsKept(content, elements), Increasing(e.lines),
           \A i \in LinesShown(elements), j \in LinesOf(e.lines) : i < j,
           \A i \in LinesOf(e.lines) : e.kind = IF IsCode(content, i) THEN "code" ELSE content[i]
    PROVE  /\ Append(elements, e) \in Seq(Elements)
           /\ LinesShown(Append(elements, e)) = LinesShown(elements) \cup LinesOf(e.lines)
           /\ InOrder(Append(elements, e))
           /\ KindsKept(content, Append(elements, e))
<1> DEFINE longer == Append(elements, e)
           last == Len(elements) + 1
<1>1. /\ longer \in Seq(Elements) /\ DOMAIN longer = 1 .. last /\ Len(elements) \in Nat
      /\ DOMAIN elements = 1 .. Len(elements)
      /\ \A k \in 1 .. Len(elements) : longer[k] = elements[k]
      /\ longer[last] = e
  OBVIOUS
<1> HIDE DEF longer
<1>2. \A k \in DOMAIN longer :
         (k \in DOMAIN elements /\ longer[k] = elements[k]) \/ (k = last /\ longer[k] = e)
  BY <1>1
<1>3. \A k \in DOMAIN elements : LinesOf(elements[k].lines) \subseteq LinesShown(elements)
  BY DEF LinesShown
<1>4. LinesShown(longer) = LinesShown(elements) \cup LinesOf(e.lines)
  <2>1. ASSUME NEW k \in DOMAIN longer
        PROVE  LinesOf(longer[k].lines) \subseteq LinesShown(elements) \cup LinesOf(e.lines)
    BY <1>2, <1>3
  <2>2. ASSUME NEW k \in DOMAIN elements PROVE LinesOf(elements[k].lines) \subseteq LinesShown(longer)
    BY <1>1 DEF LinesShown
  <2>3. LinesOf(e.lines) \subseteq LinesShown(longer)
    BY <1>1 DEF LinesShown
  <2> QED
    BY <2>1, <2>2, <2>3 DEF LinesShown
<1>5. InOrder(longer)
  <2>1. \A k \in DOMAIN longer : Increasing(longer[k].lines)
    BY <1>2 DEF InOrder
  <2>2. ASSUME NEW k \in DOMAIN longer, NEW l \in DOMAIN longer, k < l,
               NEW i \in LinesOf(longer[k].lines), NEW j \in LinesOf(longer[l].lines)
        PROVE  i < j
    <3>1. k \in DOMAIN elements /\ longer[k] = elements[k]
      BY <1>1, <2>2
    <3>2. CASE l \in DOMAIN elements /\ longer[l] = elements[l]
      BY <2>2, <3>1, <3>2 DEF InOrder
    <3>3. CASE longer[l] = e
      <4>1. i \in LinesShown(elements)
        BY <1>3, <2>2, <3>1
      <4>2. j \in LinesOf(e.lines)
        BY <2>2, <3>3
      <4> QED
        BY <4>1, <4>2
    <3> QED
      BY <1>2, <3>2, <3>3
  <2> QED
    BY <2>1, <2>2 DEF InOrder
<1>6. KindsKept(content, longer)
  <2> SUFFICES ASSUME NEW k \in DOMAIN longer, NEW i \in LinesOf(longer[k].lines)
               PROVE  longer[k].kind = IF IsCode(content, i) THEN "code" ELSE content[i]
    BY DEF KindsKept
  <2>1. CASE k \in DOMAIN elements /\ longer[k] = elements[k]
    BY <2>1 DEF KindsKept
  <2>2. CASE longer[k] = e
    BY <2>2
  <2> QED
    BY <1>2, <2>1, <2>2
<1> QED
  BY <1>1, <1>4, <1>5, <1>6 DEF longer

-------------------------------------------------------------------------------
(***************************************************************************)
(* The lines that have been read.                                          *)
(***************************************************************************)

\* The lines up to n that stand behind a fence with no other fence after them.
Pending(content, n) ==
    {i \in (1 .. n) \ Fences(content) :
        IsCode(content, i) /\ \A fence \in Fences(content) : fence <= n => fence < i}

ReadCorrectly(content, n, state) ==
    /\ state \in [elements : Seq(Elements), codeBlock : Seq(Nat), inCodeBlock : BOOLEAN]
    /\ state.inCodeBlock <=> IsCode(content, n + 1)
    /\ LinesOf(state.codeBlock) = Pending(content, n)
    /\ Increasing(state.codeBlock)
    /\ LinesShown(state.elements) = (1 .. n) \ (Fences(content) \cup Pending(content, n))
    /\ InOrder(state.elements)
    /\ \A i \in LinesShown(state.elements), j \in LinesOf(state.codeBlock) : i < j
    /\ KindsKept(content, state.elements)

\* A fence turns code into text and text into code; another line does not.
LEMMA FenceTurns ==
    ASSUME NEW content \in Seq(LineKinds), NEW n \in 1 .. Len(content)
    PROVE  /\ content[n] = "fence" => (IsCode(content, n + 1) <=> ~IsCode(content, n))
           /\ content[n] # "fence" => (IsCode(content, n + 1) <=> IsCode(content, n))
<1> DEFINE before == FencesBefore(content, n)
<1>0. Len(content) \in Nat /\ DOMAIN content = 1 .. Len(content)
  OBVIOUS
<1>1. before \subseteq 1 .. Len(content) /\ IsFiniteSet(1 .. Len(content))
  <2>1. before \subseteq 1 .. Len(content)
    BY <1>0 DEF FencesBefore, Fences
  <2>2. IsFiniteSet(1 .. Len(content))
    BY <1>0, FS_Interval
  <2> QED
    BY <2>1, <2>2
<1>2. IsFiniteSet(before) /\ Cardinality(before) \in Nat
  BY <1>1, FS_Subset, FS_CardinalityType
<1>3. CASE content[n] = "fence"
  <2>1. FencesBefore(content, n + 1) = before \cup {n} /\ n \notin before
    BY <1>3 DEF FencesBefore, Fences
  <2>2. Cardinality(FencesBefore(content, n + 1)) = Cardinality(before) + 1
    BY <1>2, <2>1, FS_AddElement
  <2> DEFINE k == Cardinality(before)
  <2>3. k \in Nat /\ IsCode(content, n + 1) = ((k + 1) % 2 = 1) /\ IsCode(content, n) = (k % 2 = 1)
    BY <1>2, <2>2 DEF IsCode
  <2> HIDE DEF k
  <2>4. ((k + 1) % 2 = 1) <=> ~(k % 2 = 1)
    BY <2>3
  <2> QED
    BY <1>3, <2>3, <2>4
<1>4. CASE content[n] # "fence"
  <2>1. FencesBefore(content, n + 1) = before
    BY <1>4 DEF FencesBefore, Fences
  <2> QED
    BY <1>4, <2>1 DEF IsCode
<1> QED
  BY <1>3, <1>4

\* What is pending before line n is code up to line n, so that there is nothing
\* pending in front of a line that is not code.
LEMMA PendingIsCode ==
    ASSUME NEW content \in Seq(LineKinds), NEW n \in Nat, ~IsCode(content, n + 1)
    PROVE  Pending(content, n) = {}
<1> SUFFICES ASSUME NEW i \in Pending(content, n) PROVE FALSE
  OBVIOUS
<1>1. /\ i \in 1 .. n /\ i \notin Fences(content) /\ IsCode(content, i)
      /\ \A fence \in Fences(content) : fence <= n => fence < i
  BY DEF Pending
<1>2. Fences(content) \subseteq Nat
  BY DEF Fences
<1>3. FencesBefore(content, i) = FencesBefore(content, n + 1)
  BY <1>1, <1>2 DEF FencesBefore
<1> QED
  BY <1>1, <1>3 DEF IsCode

\* What the next line does to the pending ones.
LEMMA NextPending ==
    ASSUME NEW content \in Seq(LineKinds), NEW n \in 1 .. Len(content)
    PROVE  /\ content[n] = "fence" => Pending(content, n) = {}
           /\ content[n] # "fence" /\ IsCode(content, n) =>
                 Pending(content, n) = Pending(content, n - 1) \cup {n}
           /\ content[n] # "fence" /\ ~IsCode(content, n) =>
                 Pending(content, n) = Pending(content, n - 1)
<1>1. Fences(content) \subseteq Nat /\ (n \in Fences(content) <=> content[n] = "fence")
  BY DEF Fences
<1>2. 1 .. n = (1 .. n - 1) \cup {n} /\ n \notin 1 .. n - 1
  OBVIOUS
<1>3. CASE content[n] = "fence"
  BY <1>1, <1>3 DEF Pending
<1>4. CASE content[n] # "fence"
  <2>1. \A fence \in Fences(content) : fence <= n <=> fence <= n - 1
    BY <1>1, <1>4
  <2>2. \A fence \in Fences(content) : fence <= n => fence < n
    BY <1>1, <1>4
  <2> QED
    BY <1>1, <1>2, <1>4, <2>1, <2>2 DEF Pending
<1> QED
  BY <1>3, <1>4

\* One more line is read correctly.
LEMMA NextLine ==
    ASSUME NEW content \in Seq(LineKinds), NEW n \in 1 .. Len(content), NEW state,
           ReadCorrectly(content, n - 1, state)
    PROVE  ReadCorrectly(content, n, ReadLine(state, n, content[n]))
<1> DEFINE kind == content[n]
           next == ReadLine(state, n, kind)
<1>0. /\ kind \in LineKinds /\ n \in Nat /\ n - 1 \in Nat /\ (n - 1) + 1 = n
      /\ DOMAIN content = 1 .. Len(content)
      /\ (n \in Fences(content) <=> kind = "fence")
      /\ 1 .. n = (1 .. n - 1) \cup {n}
  BY DEF Fences
<1>1. /\ state.elements \in Seq(Elements) /\ state.codeBlock \in Seq(Nat)
      /\ state.inCodeBlock \in BOOLEAN
      /\ state = [elements |-> state.elements, codeBlock |-> state.codeBlock,
                  inCodeBlock |-> state.inCodeBlock]
      /\ state.inCodeBlock <=> IsCode(content, n)
      /\ LinesOf(state.codeBlock) = Pending(content, n - 1)
      /\ Increasing(state.codeBlock)
      /\ LinesShown(state.elements) =
            (1 .. n - 1) \ (Fences(content) \cup Pending(content, n - 1))
      /\ InOrder(state.elements)
      /\ \A i \in LinesShown(state.elements), j \in LinesOf(state.codeBlock) : i < j
      /\ KindsKept(content, state.elements)
  BY <1>0 DEF ReadCorrectly
<1>2. /\ kind = "fence" => (IsCode(content, n + 1) <=> ~IsCode(content, n))
      /\ kind # "fence" => (IsCode(content, n + 1) <=> IsCode(content, n))
  BY FenceTurns
<1>3. Pending(content, n - 1) \subseteq (1 .. n - 1) \ Fences(content)
  BY DEF Pending
<1>4. ~state.inCodeBlock => Pending(content, n - 1) = {}
  BY <1>0, <1>1, PendingIsCode
<1>5. LinesOf(<<>>) = {} /\ Increasing(<<>>) /\ <<>> \in Seq(Nat)
  BY DEF LinesOf, Increasing
<1>6. CASE kind = "fence" /\ ~state.inCodeBlock
  <2>1. /\ next.elements = state.elements /\ next.codeBlock = state.codeBlock
        /\ next.inCodeBlock = TRUE
        /\ next \in [elements : Seq(Elements), codeBlock : Seq(Nat), inCodeBlock : BOOLEAN]
    BY <1>1, <1>6 DEF ReadLine
  <2>2. Pending(content, n) = {}
    BY <1>6, NextPending
  <2> HIDE DEF next
  <2>3. LinesShown(next.elements) = (1 .. n) \ (Fences(content) \cup Pending(content, n))
    BY <1>0, <1>1, <1>4, <1>6, <2>1, <2>2
  <2> QED
    BY <1>1, <1>2, <1>4, <1>6, <2>1, <2>2, <2>3 DEF ReadCorrectly, next
<1>7. CASE kind = "fence" /\ state.inCodeBlock
  <2> DEFINE e == [kind |-> "code", lines |-> state.codeBlock]
  <2>1. /\ next.elements = Append(state.elements, e) /\ next.codeBlock = <<>>
        /\ next.inCodeBlock = FALSE
        /\ next = [elements |-> Append(state.elements, e), codeBlock |-> <<>>, inCodeBlock |-> FALSE]
    BY <1>7 DEF ReadLine
  <2>2. e \in Elements /\ e.lines = state.codeBlock /\ e.kind = "code"
    BY <1>1 DEF Elements
  <2>3. \A i \in LinesOf(e.lines) : e.kind = IF IsCode(content, i) THEN "code" ELSE content[i]
    BY <1>1, <2>2 DEF Pending
  <2> HIDE DEF e
  <2>4. /\ Append(state.elements, e) \in Seq(Elements)
        /\ LinesShown(Append(state.elements, e)) =
              LinesShown(state.elements) \cup LinesOf(state.codeBlock)
        /\ InOrder(Append(state.elements, e))
        /\ KindsKept(content, Append(state.elements, e))
    BY <1>1, <2>2, <2>3, AppendElement
  <2>5. Pending(content, n) = {}
    BY <1>7, NextPending
  <2> HIDE DEF next
  <2>6. LinesShown(next.elements) = (1 .. n) \ (Fences(content) \cup Pending(content, n))
    BY <1>0, <1>1, <1>3, <1>7, <2>1, <2>4, <2>5
  <2>7. next \in [elements : Seq(Elements), codeBlock : Seq(Nat), inCodeBlock : BOOLEAN]
    BY <1>5, <2>1, <2>4
  <2> QED
    BY <1>1, <1>2, <1>5, <1>7, <2>1, <2>4, <2>5, <2>6, <2>7 DEF ReadCorrectly, next
<1>8. CASE kind # "fence" /\ state.inCodeBlock
  <2>1. /\ next.elements = state.elements /\ next.codeBlock = Append(state.codeBlock, n)
        /\ next.inCodeBlock = state.inCodeBlock
        /\ next = [elements |-> state.elements, codeBlock |-> Append(state.codeBlock, n),
                   inCodeBlock |-> state.inCodeBlock]
    BY <1>1, <1>8 DEF ReadLine
  <2>2. \A i \in LinesOf(state.codeBlock) : i < n
    BY <1>1, <1>3
  <2>3. /\ Append(state.codeBlock, n) \in Seq(Nat)
        /\ LinesOf(Append(state.codeBlock, n)) = LinesOf(state.codeBlock) \cup {n}
        /\ Increasing(Append(state.codeBlock, n))
    BY <1>0, <1>1, <2>2, AppendLine
  <2>4. Pending(content, n) = Pending(content, n - 1) \cup {n}
    BY <1>1, <1>8, NextPending
  <2> HIDE DEF next
  <2>5. LinesShown(next.elements) = (1 .. n) \ (Fences(content) \cup Pending(content, n))
    BY <1>0, <1>1, <1>8, <2>1, <2>4
  <2>6. \A i \in LinesShown(next.elements), j \in LinesOf(next.codeBlock) : i < j
    BY <1>1, <2>1, <2>3
  <2>7. next \in [elements : Seq(Elements), codeBlock : Seq(Nat), inCodeBlock : BOOLEAN]
    BY <1>1, <2>1, <2>3
  <2> QED
    BY <1>1, <1>2, <1>8, <2>1, <2>3, <2>4, <2>5, <2>6, <2>7 DEF ReadCorrectly, next
<1>9. CASE kind # "fence" /\ ~state.inCodeBlock
  <2> DEFINE e == [kind |-> kind, lines |-> <<n>>]
  <2>1. /\ next.elements = Append(state.elements, e) /\ next.codeBlock = state.codeBlock
        /\ next.inCodeBlock = state.inCodeBlock
        /\ next = [elements |-> Append(state.elements, e), codeBlock |-> state.codeBlock,
                   inCodeBlock |-> state.inCodeBlock]
    BY <1>1, <1>9 DEF ReadLine
  <2>2. e \in Elements /\ e.kind = kind /\ LinesOf(e.lines) = {n} /\ Increasing(e.lines)
    BY <1>0 DEF Elements, LinesOf, Increasing
  <2>3. \A i \in LinesOf(e.lines) : e.kind = IF IsCode(content, i) THEN "code" ELSE content[i]
    BY <1>1, <1>9, <2>2
  <2> HIDE DEF e
  <2>4. \A i \in LinesShown(state.elements), j \in LinesOf(e.lines) : i < j
    BY <1>1, <2>2
  <2>5. /\ Append(state.elements, e) \in Seq(Elements)
        /\ LinesShown(Append(state.elements, e)) = LinesShown(state.elements) \cup {n}
        /\ InOrder(Append(state.elements, e))
        /\ KindsKept(content, Append(state.elements, e))
    <3>1. /\ state.elements \in Seq(Elements) /\ InOrder(state.elements)
          /\ KindsKept(content, state.elements)
      BY <1>1
    <3> HIDE DEF kind
    <3> QED
      BY <2>2, <2>3, <2>4, <3>1, AppendElement
  <2>6. Pending(content, n) = {}
    BY <1>1, <1>4, <1>9, NextPending
  <2> HIDE DEF next
  <2>7. LinesShown(next.elements) = (1 .. n) \ (Fences(content) \cup Pending(content, n))
    BY <1>0, <1>1, <1>4, <1>9, <2>1, <2>5, <2>6
  <2>8. next \in [elements : Seq(Elements), codeBlock : Seq(Nat), inCodeBlock : BOOLEAN]
    BY <1>1, <2>1, <2>5
  <2> QED
    BY <1>1, <1>2, <1>4, <1>9, <2>1, <2>5, <2>6, <2>7, <2>8 DEF ReadCorrectly, next
<1> QED
  BY <1>1, <1>6, <1>7, <1>8, <1>9

\* Whatever the text says, each of its lines that is neither a fence nor behind a
\* fence that is never closed is shown once, in order, as code exactly if it
\* stands between two fences (TheoryView.tsx:17-87).
THEOREM EveryTextIsRendered ==
    ASSUME NEW content \in Seq(LineKinds)
    PROVE  RenderedAsWritten(content)
<1> DEFINE N == Len(content)
           T == {n \in 0 .. N : ReadCorrectly(content, n, Reading(content)[n])}
<1>0. N \in Nat /\ DOMAIN content = 1 .. N
  OBVIOUS
<1>1. 0 \in T
  <2>1. Reading(content)[0] = Start
    BY <1>0, ReadingDef
  <2>2. FencesBefore(content, 0 + 1) = {}
    BY <1>0 DEF FencesBefore, Fences
  <2>3. ~IsCode(content, 0 + 1)
    <3>1. Cardinality(FencesBefore(content, 0 + 1)) = 0
      BY <2>2, FS_EmptySet
    <3> QED
      BY <3>1 DEF IsCode
  <2>4. Pending(content, 0) = {}
    BY DEF Pending
  <2>5. /\ LinesOf(<<>>) = {} /\ LinesShown(<<>>) = {} /\ Increasing(<<>>) /\ InOrder(<<>>)
        /\ KindsKept(content, <<>>)
    BY DEF LinesOf, LinesShown, Increasing, InOrder, KindsKept
  <2>6. 1 .. 0 = {}
    OBVIOUS
  <2>7. /\ Start.elements = <<>> /\ Start.codeBlock = <<>> /\ Start.inCodeBlock = FALSE
        /\ Start \in [elements : Seq(Elements), codeBlock : Seq(Nat), inCodeBlock : BOOLEAN]
    BY DEF Start
  <2>8. ReadCorrectly(content, 0, Start)
    BY <2>3, <2>4, <2>5, <2>6, <2>7 DEF ReadCorrectly
  <2> QED
    BY <1>0, <2>1, <2>8
<1>2. ASSUME NEW n \in 0 .. N - 1, n \in T PROVE n + 1 \in T
  <2>1. /\ n + 1 \in 1 .. Len(content) /\ (n + 1) - 1 = n
        /\ ReadCorrectly(content, (n + 1) - 1, Reading(content)[n])
    BY <1>2
  <2>2. Reading(content)[n + 1] = ReadLine(Reading(content)[n], n + 1, content[n + 1])
    BY <1>0, <2>1, ReadingDef
  <2>3. ReadCorrectly(content, n + 1, ReadLine(Reading(content)[n], n + 1, content[n + 1]))
    BY <2>1, NextLine
  <2> QED
    BY <2>1, <2>2, <2>3
<1>3. 0 .. N \subseteq T
  <2> HIDE DEF T
  <2> QED
    BY <1>0, <1>1, <1>2, UpTo
<1>4. ReadCorrectly(content, N, Reading(content)[N])
  BY <1>0, <1>3
<1>5. Pending(content, N) = Dropped(content)
  BY <1>0 DEF Pending, Dropped, Fences
<1> QED
  BY <1>0, <1>4, <1>5 DEF ReadCorrectly, RenderedAsWritten, Render
==============================================================================
