----------------------- MODULE SequenceDiagramProofs -------------------------
(***************************************************************************)
(* Whatever the signals of a sequence diagram are, its loops enclose what  *)
(* is in them, its activations end in the right order, its messages meet   *)
(* the sides of their actors and its picture holds all that has been drawn.*)
(***************************************************************************)
EXTENDS SequenceDiagram, ListLemmas, FiniteSetTheorems

-----------------------------------------------------------------------------
(* Greatest elements.                                                       *)

LEMMA GreatestElement ==
  ASSUME NEW S \in SUBSET Nat, S # {}, NEW n \in Nat, \A x \in S : x <= n
  PROVE  Max(S) \in S /\ \A x \in S : x <= Max(S)
<1> DEFINE T == {n - x : x \in S}
<1>1. PICK m \in T : \A y \in T : m <= y
  <2>1. T \in SUBSET Nat /\ T # {}
    <3>1. \A x \in S : n - x \in T /\ n - x \in Nat
      OBVIOUS
    <3> QED
      BY <3>1
  <2> HIDE DEF T
  <2> QED
    BY <2>1, LeastElement, Zenon
<1>2. PICK k \in S : m = n - k
  BY <1>1
<1>3. ASSUME NEW x \in S  PROVE x <= k
  <2>1. n - k <= n - x
    BY <1>1, <1>2
  <2> QED
    BY <2>1
<1> QED
  BY <1>2, <1>3 DEF Max

-----------------------------------------------------------------------------
(* The types, and what is true of the boxes.  A diagram grows downwards: w *)
(* is how far it has come, what is put into it next begins at most 10 above*)
(* that, and c is where the lowest of its boxes ends at most.              *)

BoxType == [startx : Int, starty : Int, stopx : Int, stopy : Int]
SectionType == [y : Int, since : Nat]
LoopType == [startx : Int, starty : Int, stopx : Int, stopy : Int,
             empty : BOOLEAN, sections : Seq(SectionType), since : Nat]
ActivationType == [startx : Int, starty : Int, stopx : Int, actor : Actor, begun : Nat]
BoundsType == [data : BoxType, verticalPos : Int, sequenceItems : Seq(LoopType),
               activations : Seq(ActivationType), placed : Seq(BoxType)]

\* The box around everything is as wide as everything, and nothing is above it.
DataHolds(b, c) ==
  /\ b.data.starty = 0
  /\ \A k \in 1 .. Len(b.placed) :
       /\ b.data.startx <= b.placed[k].startx /\ b.placed[k].stopx <= b.data.stopx
       /\ 0 <= b.placed[k].starty /\ b.placed[k].stopy <= c

\* The open loops lie in the box and each around the next, with a margin.
LoopsNest(b, w, c) ==
  \A i \in 1 .. Len(b.sequenceItems) : LET loop == b.sequenceItems[i] IN
    /\ 0 <= loop.starty /\ loop.starty <= w
    /\ ~loop.empty =>
         /\ b.data.startx <= loop.startx /\ loop.stopx <= b.data.stopx
         /\ loop.stopy <= c + 10 * (Len(b.sequenceItems) - i + 1)
    /\ \A j \in i + 1 .. Len(b.sequenceItems) : LET inner == b.sequenceItems[j] IN
         /\ loop.starty + 10 <= inner.starty
         /\ ~inner.empty => ~loop.empty /\ Within(Spread(inner, BoxMargin), loop)

\* An open loop is around what has been drawn since its beginning.
LoopsHold(b) ==
  \A i \in 1 .. Len(b.sequenceItems), k \in 1 .. Len(b.placed) :
    b.sequenceItems[i].since < k =>
      /\ ~b.sequenceItems[i].empty
      /\ Within(Spread(b.placed[k], BoxMargin), b.sequenceItems[i])

\* The line of a section is above what has been drawn and begun since then.
SectionsHold(b, w) ==
  \A i \in 1 .. Len(b.sequenceItems) :
    \A n \in 1 .. Len(b.sequenceItems[i].sections) :
      LET section == b.sequenceItems[i].sections[n] IN
        /\ section.y + 10 + 25 * (Len(b.sequenceItems) - i) <= w
        /\ \A k \in 1 .. Len(b.placed) : section.since < k => section.y <= b.placed[k].starty
        /\ \A j \in i + 1 .. Len(b.sequenceItems) : section.y <= b.sequenceItems[j].starty

BoundsRight(b, w, c) ==
  /\ b \in BoundsType
  /\ w \in Int /\ c \in Int /\ 65 + 25 * Len(b.sequenceItems) <= w
  /\ DataHolds(b, c) /\ LoopsNest(b, w, c) /\ LoopsHold(b) /\ SectionsHold(b, w)

\* An activation may be drawn 12 lower than the diagram has come.
Laid(b) == BoundsRight(b, b.verticalPos, b.verticalPos + 12)

-----------------------------------------------------------------------------
(* What the operations on the boxes do.                                    *)

LEMMA BoxIsABox ==
  ASSUME NEW startx \in Int, NEW starty \in Int, NEW stopx \in Int, NEW stopy \in Int
  PROVE  LET box == Box(startx, starty, stopx, stopy)
         IN  /\ box \in BoxType
             /\ box.starty = Lesser(starty, stopy) /\ box.stopy = Greater(starty, stopy)
BY DEF Box, BoxType, Lesser, Greater

LEMMA SpreadIsABox ==
  ASSUME NEW box \in BoxType, NEW n \in Int
  PROVE  /\ Spread(box, n) \in BoxType
         /\ Spread(box, n).startx = box.startx - n /\ Spread(box, n).starty = box.starty - n
         /\ Spread(box, n).stopx = box.stopx + n /\ Spread(box, n).stopy = box.stopy + n
BY DEF Spread, BoxType

LEMMA CoverIsAround ==
  ASSUME NEW item \in BoxType, NEW box \in BoxType
  PROVE  LET e == Cover(item, box)
         IN  /\ e \in BoxType
             /\ e.startx <= item.startx /\ e.startx <= box.startx
             /\ item.stopx <= e.stopx /\ box.stopx <= e.stopx
             /\ e.starty = IF item.starty <= box.starty THEN item.starty ELSE box.starty
<1> DEFINE e == Cover(item, box)
<1>1. /\ e \in BoxType
      /\ e.startx = Lesser(item.startx, box.startx)
      /\ e.starty = Lesser(item.starty, box.starty)
      /\ e.stopx = Greater(item.stopx, box.stopx)
  BY DEF Cover, BoxType, Lesser, Greater
<1> QED
  BY <1>1 DEF BoxType, Lesser, Greater

\* Each side of a loop becomes that of the box or remains as it was.
LEMMA EncloseIsAround ==
  ASSUME NEW loop \in LoopType, NEW box \in BoxType
  PROVE  LET e == Enclose(loop, box)
         IN  /\ e \in LoopType /\ ~e.empty /\ e.sections = loop.sections /\ e.since = loop.since
             /\ e.starty <= loop.starty /\ Within(box, e)
             /\ ~loop.empty => Within(loop, e)
             /\ e.starty = loop.starty \/ e.starty = box.starty
             /\ e.startx = box.startx \/ (~loop.empty /\ e.startx = loop.startx)
             /\ e.stopx = box.stopx \/ (~loop.empty /\ e.stopx = loop.stopx)
             /\ e.stopy = box.stopy \/ (~loop.empty /\ e.stopy = loop.stopy)
<1>1. CASE loop.empty
  <2> DEFINE e == [loop EXCEPT !.startx = box.startx, !.starty = Lesser(@, box.starty),
                               !.stopx = box.stopx, !.stopy = box.stopy, !.empty = FALSE]
  <2>1. /\ e \in LoopType /\ ~e.empty /\ e.sections = loop.sections /\ e.since = loop.since
        /\ e.startx = box.startx /\ e.stopx = box.stopx /\ e.stopy = box.stopy
        /\ e.starty = IF loop.starty <= box.starty THEN loop.starty ELSE box.starty
    BY DEF LoopType, BoxType, Lesser
  <2>2. Enclose(loop, box) = e
    BY <1>1 DEF Enclose
  <2> HIDE DEF e
  <2> QED
    BY <1>1, <2>1, <2>2 DEF Within, LoopType, BoxType
<1>2. CASE ~loop.empty
  <2> DEFINE e == Cover(loop, box)
  <2>1. /\ e \in LoopType /\ ~e.empty /\ e.sections = loop.sections /\ e.since = loop.since
        /\ e.startx = IF loop.startx <= box.startx THEN loop.startx ELSE box.startx
        /\ e.starty = IF loop.starty <= box.starty THEN loop.starty ELSE box.starty
        /\ e.stopx = IF loop.stopx >= box.stopx THEN loop.stopx ELSE box.stopx
        /\ e.stopy = IF loop.stopy >= box.stopy THEN loop.stopy ELSE box.stopy
    BY <1>2 DEF Cover, LoopType, BoxType, Lesser, Greater
  <2>2. Enclose(loop, box) = e
    BY <1>2 DEF Enclose
  <2> HIDE DEF e
  <2> QED
    BY <1>2, <2>1, <2>2 DEF Within, LoopType, BoxType
<1> QED
  BY <1>1, <1>2

\* What is within a loop is within what is around it.
LEMMA WithinOuter ==
  ASSUME NEW box \in BoxType, NEW loop \in LoopType, NEW outer \in LoopType,
         Within(Spread(box, 10), loop), Within(loop, outer)
  PROVE  Within(Spread(box, 10), outer)
<1>1. /\ loop.startx <= box.startx - 10 /\ loop.starty <= box.starty - 10
      /\ box.stopx + 10 <= loop.stopx /\ box.stopy + 10 <= loop.stopy
  BY DEF Within, Spread
<1>2. /\ outer.startx <= loop.startx /\ outer.starty <= loop.starty
      /\ loop.stopx <= outer.stopx /\ loop.stopy <= outer.stopy
  BY DEF Within
<1>3. /\ outer.startx <= box.startx - 10 /\ outer.starty <= box.starty - 10
      /\ box.stopx + 10 <= outer.stopx /\ box.stopy + 10 <= outer.stopy
  <2>1. /\ box.startx \in Int /\ box.starty \in Int /\ box.stopx \in Int /\ box.stopy \in Int
        /\ loop.startx \in Int /\ loop.starty \in Int /\ loop.stopx \in Int
        /\ loop.stopy \in Int /\ outer.startx \in Int /\ outer.starty \in Int
        /\ outer.stopx \in Int /\ outer.stopy \in Int
    BY DEF BoxType, LoopType
  <2>2. outer.startx <= box.startx - 10 /\ outer.starty <= box.starty - 10
    BY <1>1, <1>2, <2>1
  <2>3. box.stopx + 10 <= outer.stopx /\ box.stopy + 10 <= outer.stopy
    BY <1>1, <1>2, <2>1
  <2> QED
    BY <2>2, <2>3
<1> QED
  BY <1>3 DEF Within, Spread

\* What a bump of the height leaves alone.
LEMMA BumpKeeps ==
  ASSUME NEW b \in BoundsType, NEW n \in Int
  PROVE  LET e == BumpVerticalPos(b, n)
         IN  /\ e \in BoundsType /\ e.verticalPos = b.verticalPos + n
             /\ e.sequenceItems = b.sequenceItems /\ e.placed = b.placed
             /\ e.activations = b.activations
             /\ e.data = [b.data EXCEPT !.stopy = b.verticalPos + n]
<1>1. b.data \in BoxType
  BY DEF BoundsType
<1>2. [b.data EXCEPT !.stopy = b.verticalPos + n] \in BoxType
  BY <1>1 DEF BoundsType, BoxType
<1> DEFINE e == BumpVerticalPos(b, n)
           data == [b.data EXCEPT !.stopy = b.verticalPos + n]
<1>3. e = [b EXCEPT !.verticalPos = b.verticalPos + n, !.data = data]
  BY DEF BumpVerticalPos, BoundsType
<1>6. data \in BoxType /\ b.verticalPos + n \in Int
  BY <1>2 DEF BoundsType
<1> HIDE DEF e, data
<1>4. e \in BoundsType /\ e.verticalPos = b.verticalPos + n /\ e.data = data
  BY <1>3, <1>6 DEF BoundsType
<1>5. /\ e.sequenceItems = b.sequenceItems /\ e.placed = b.placed
      /\ e.activations = b.activations
  BY <1>3 DEF BoundsType
<1> QED
  BY <1>4, <1>5 DEF e, data

LEMMA BumpRight ==
  ASSUME NEW b, NEW w, NEW c, BoundsRight(b, w, c), NEW n \in Int
  PROVE  BoundsRight(BumpVerticalPos(b, n), w, c)
<1> DEFINE e == BumpVerticalPos(b, n)
<1>1. b \in BoundsType
  BY DEF BoundsRight
<1>2. /\ e \in BoundsType /\ e.sequenceItems = b.sequenceItems /\ e.placed = b.placed
      /\ e.data.startx = b.data.startx /\ e.data.stopx = b.data.stopx
      /\ e.data.starty = b.data.starty
  <2>1. b.data \in BoxType
    BY <1>1 DEF BoundsType
  <2>2. /\ e \in BoundsType /\ e.sequenceItems = b.sequenceItems /\ e.placed = b.placed
        /\ e.data = [b.data EXCEPT !.stopy = b.verticalPos + n]
    BY <1>1, BumpKeeps, Zenon
  <2> HIDE DEF e
  <2> QED
    BY <2>1, <2>2 DEF BoxType
<1> HIDE DEF e
<1>3. BoundsRight(e, w, c)
  <2>1. DataHolds(e, c)
    BY <1>2 DEF BoundsRight, DataHolds
  <2>2. LoopsNest(e, w, c)
    BY <1>2, Zenon DEF BoundsRight, LoopsNest
  <2>3. LoopsHold(e)
    BY <1>2, Zenon DEF BoundsRight, LoopsHold
  <2>4. SectionsHold(e, w)
    BY <1>2, Zenon DEF BoundsRight, SectionsHold
  <2> QED
    BY <1>2, <2>1, <2>2, <2>3, <2>4 DEF BoundsRight
<1> QED
  BY <1>3 DEF e

\* One may always have come further.
LEMMA RaiseRight ==
  ASSUME NEW b, NEW w, NEW c, BoundsRight(b, w, c),
         NEW v \in Int, NEW h \in Int, w <= v, c <= h
  PROVE  BoundsRight(b, v, h)
<1>1. b \in BoundsType /\ w \in Int /\ c \in Int /\ 65 + 25 * Len(b.sequenceItems) <= w
  BY DEF BoundsRight
<1>2. Len(b.sequenceItems) \in Nat /\ Len(b.placed) \in Nat
  BY <1>1 DEF BoundsType
<1>3. ASSUME NEW i \in 1 .. Len(b.sequenceItems)  PROVE b.sequenceItems[i] \in LoopType
  BY <1>1 DEF BoundsType
<1>4. ASSUME NEW k \in 1 .. Len(b.placed)  PROVE b.placed[k] \in BoxType
  BY <1>1 DEF BoundsType
<1>5. DataHolds(b, h)
  BY <1>1, <1>4 DEF BoundsRight, DataHolds, BoxType
<1>6. LoopsNest(b, v, h)
  <2> DEFINE D == Len(b.sequenceItems)
  <2>1. LoopsNest(b, w, c) /\ h \in Int /\ D \in Nat
    BY <1>2 DEF BoundsRight
  <2>2. ASSUME NEW i \in 1 .. D
        PROVE  /\ b.sequenceItems[i].starty <= v
               /\ ~b.sequenceItems[i].empty => b.sequenceItems[i].stopy <= h + 10 * (D - i + 1)
    <3> DEFINE loop == b.sequenceItems[i]
               m == 10 * (D - i + 1)
    <3>1. loop.starty \in Int /\ loop.stopy \in Int /\ m \in Int
      <4>1. m \in Int
        <5> HIDE DEF D
        <5> QED
          BY <2>1
      <4>2. loop \in LoopType
        BY <1>3
      <4> QED
        BY <4>1, <4>2 DEF LoopType
    <3>2. loop.starty <= w /\ (~loop.empty => loop.stopy <= c + m)
      BY <2>1 DEF LoopsNest
    <3> HIDE DEF loop, m
    <3>3. loop.starty <= v
      BY <1>1, <3>1, <3>2
    <3>4. ~loop.empty => loop.stopy <= h + m
      BY <1>1, <2>1, <3>1, <3>2
    <3> QED
      BY <3>3, <3>4 DEF loop, m
  <2> QED
    BY <2>1, <2>2, Zenon DEF LoopsNest
<1>7. SectionsHold(b, v)
  <2> SUFFICES ASSUME NEW i \in 1 .. Len(b.sequenceItems),
                      NEW n \in 1 .. Len(b.sequenceItems[i].sections)
               PROVE  b.sequenceItems[i].sections[n].y
                        + 10 + 25 * (Len(b.sequenceItems) - i) <= v
    BY DEF BoundsRight, SectionsHold
  <2>1. b.sequenceItems[i].sections[n] \in SectionType
    BY <1>3 DEF LoopType
  <2>2. b.sequenceItems[i].sections[n].y + 10 + 25 * (Len(b.sequenceItems) - i) <= w
    BY DEF BoundsRight, SectionsHold
  <2> DEFINE y == b.sequenceItems[i].sections[n].y
             r == 25 * (Len(b.sequenceItems) - i)
  <2>3. y \in Int /\ r \in Int /\ y + 10 + r <= w
    BY <1>2, <2>1, <2>2 DEF SectionType
  <2> HIDE DEF y, r
  <2>4. y + 10 + r <= v
    BY <1>1, <2>3
  <2> QED
    BY <2>4 DEF y, r
<1> QED
  BY <1>1, <1>5, <1>6, <1>7 DEF BoundsRight

\* Only how far up they reach may differ.
SameStacks(acts, others) ==
  /\ Len(others) = Len(acts)
  /\ \A i \in 1 .. Len(acts) :
       /\ others[i].startx = acts[i].startx /\ others[i].stopx = acts[i].stopx
       /\ others[i].actor = acts[i].actor /\ others[i].begun = acts[i].begun

\* Insert, part by part: e is what b becomes when box is put in.
Inserted(b, box, e) ==
  LET d == Len(b.sequenceItems)
  IN  /\ e \in BoundsType /\ e.verticalPos = b.verticalPos
      /\ e.placed = Append(b.placed, box)
      /\ e.data = Cover(Cover(b.data, box), Spread(box, d * 10))
      /\ Len(e.sequenceItems) = d
      /\ \A i \in 1 .. d : e.sequenceItems[i]
           = Enclose(b.sequenceItems[i], Spread(box, (d - i + 1) * 10))
      /\ SameStacks(b.activations, e.activations)

LEMMA InsertParts ==
  ASSUME NEW b \in BoundsType,
         NEW startx \in Int, NEW starty \in Int, NEW stopx \in Int, NEW stopy \in Int
  PROVE  Inserted(b, Box(startx, starty, stopx, stopy),
                  Insert(b, startx, starty, stopx, stopy))
<1> DEFINE box == Box(startx, starty, stopx, stopy)
           d == Len(b.sequenceItems)
           e == Insert(b, startx, starty, stopx, stopy)
           data == Cover(Cover(b.data, box), Spread(box, d * 10))
           placed == Append(b.placed, box)
           items == [i \in 1 .. d |->
                       Enclose(b.sequenceItems[i], Spread(box, (d - i + 1) * 10))]
           acts == [i \in DOMAIN b.activations |->
                      [b.activations[i] EXCEPT
                         !.starty = Lesser(@, Spread(box, (1 - i) * 10).starty)]]
<1>1. /\ b.data \in BoxType /\ b.sequenceItems \in Seq(LoopType) /\ d \in Nat
      /\ b.activations \in Seq(ActivationType) /\ b.placed \in Seq(BoxType)
  BY DEF BoundsType
<1>2. box \in BoxType
  BY BoxIsABox
<1>3. e = [b EXCEPT !.data = data, !.placed = placed,
                    !.sequenceItems = items, !.activations = acts]
  <2> DEFINE mid == [b EXCEPT !.data = Cover(@, box), !.placed = Append(@, box)]
  <2>1. /\ mid.data = Cover(b.data, box) /\ mid.sequenceItems = b.sequenceItems
        /\ mid.activations = b.activations
    BY DEF BoundsType
  <2>2. mid.placed = placed
    BY DEF BoundsType
  <2>3. e = UpdateBounds(mid, box)
    BY DEF Insert
  <2>4. UpdateBounds(mid, box) = [mid EXCEPT !.data = data, !.sequenceItems = items,
                                             !.activations = acts]
    <3> HIDE DEF mid, box
    <3> QED
      BY <2>1 DEF UpdateBounds, BoxMargin
  <2>5. mid = [b EXCEPT !.data = Cover(b.data, box), !.placed = placed]
    OBVIOUS
  <2> HIDE DEF mid, box, data, items, acts, placed, d
  <2> QED
    BY <2>3, <2>4, <2>5 DEF BoundsType
<1>4. data \in BoxType
  <2>1. d * 10 \in Int
    BY <1>1
  <2> HIDE DEF box, d
  <2>2. Spread(box, d * 10) \in BoxType
    BY <1>2, <2>1, SpreadIsABox
  <2>3. Cover(b.data, box) \in BoxType
    BY <1>1, <1>2, CoverIsAround
  <2> QED
    BY <2>2, <2>3, CoverIsAround
<1>5. placed \in Seq(BoxType)
  BY <1>1, <1>2
<1>6. items \in Seq(LoopType) /\ Len(items) = d
  <2>1. ASSUME NEW i \in 1 .. d
        PROVE  Enclose(b.sequenceItems[i], Spread(box, (d - i + 1) * 10)) \in LoopType
    <3>1. b.sequenceItems[i] \in LoopType
      BY <1>1
    <3>2. Spread(box, (d - i + 1) * 10) \in BoxType
      <4>1. (d - i + 1) * 10 \in Int
        BY <1>1
      <4> HIDE DEF d, box
      <4> QED
        BY <1>2, <4>1, SpreadIsABox
    <3> QED
      BY <3>1, <3>2, EncloseIsAround
  <2> HIDE DEF d, box
  <2> QED
    BY <1>1, <2>1
<1>7. ASSUME NEW i \in 1 .. Len(b.activations)
      PROVE  /\ acts[i] \in ActivationType
             /\ acts[i].startx = b.activations[i].startx
             /\ acts[i].stopx = b.activations[i].stopx
             /\ acts[i].actor = b.activations[i].actor
             /\ acts[i].begun = b.activations[i].begun
  <2>1. b.activations[i] \in ActivationType
    BY <1>1
  <2>2. Lesser(b.activations[i].starty, Spread(box, (1 - i) * 10).starty) \in Int
    <3>1. Spread(box, (1 - i) * 10) \in BoxType
      BY <1>2, SpreadIsABox
    <3> QED
      BY <2>1, <3>1 DEF Lesser, BoxType, ActivationType
  <2>3. acts[i] = [b.activations[i] EXCEPT
                     !.starty = Lesser(@, Spread(box, (1 - i) * 10).starty)]
    BY <1>1
  <2> HIDE DEF acts, box
  <2> QED
    BY <2>1, <2>2, <2>3 DEF ActivationType
<1>8. acts \in Seq(ActivationType) /\ Len(acts) = Len(b.activations)
  <2>1. DOMAIN acts = 1 .. Len(b.activations) /\ Len(b.activations) \in Nat
    BY <1>1
  <2>2. acts \in [1 .. Len(b.activations) -> ActivationType]
    <3>1. acts = [i \in 1 .. Len(b.activations) |-> acts[i]]
      BY <2>1
    <3> HIDE DEF acts
    <3> QED
      BY <1>7, <3>1
  <2> HIDE DEF acts
  <2> QED
    BY <2>1, <2>2, SeqDef
<1>9. /\ e \in BoundsType /\ e.verticalPos = b.verticalPos /\ e.placed = placed
      /\ e.data = data /\ e.sequenceItems = items /\ e.activations = acts
  <2> HIDE DEF e, data, placed, items, acts
  <2> QED
    BY <1>3, <1>4, <1>5, <1>6, <1>8 DEF BoundsType
<1>10. \A i \in 1 .. d :
         items[i] = Enclose(b.sequenceItems[i], Spread(box, (d - i + 1) * 10))
  OBVIOUS
<1> HIDE DEF e, box, items, acts
<1> SUFFICES
      /\ e \in BoundsType /\ e.verticalPos = b.verticalPos
      /\ e.placed = placed /\ e.data = data /\ Len(e.sequenceItems) = d
      /\ \A i \in 1 .. d : e.sequenceItems[i]
           = Enclose(b.sequenceItems[i], Spread(box, (d - i + 1) * 10))
      /\ SameStacks(b.activations, e.activations)
  BY Zenon DEF Inserted, e, box
<1>11. SameStacks(b.activations, e.activations)
  BY <1>7, <1>8, <1>9 DEF SameStacks
<1> HIDE DEF data, placed, d
<1> QED
  BY <1>6, <1>9, <1>10, <1>11

\* What is put in below what has been drawn leaves everything as it has to be.
LEMMA InsertRight ==
  ASSUME NEW b, NEW w, NEW c, BoundsRight(b, w, c),
         NEW startx \in Int, NEW starty \in Int, NEW stopx \in Int, NEW stopy \in Int,
         w - 10 <= starty, w - 10 <= stopy, starty <= c, stopy <= c
  PROVE  BoundsRight(Insert(b, startx, starty, stopx, stopy), w, c)
<1> DEFINE box == Box(startx, starty, stopx, stopy)
           d == Len(b.sequenceItems)
           e == Insert(b, startx, starty, stopx, stopy)
           Old(i) == b.sequenceItems[i]
           New(i) == e.sequenceItems[i]
<1>1. /\ b \in BoundsType /\ w \in Int /\ c \in Int /\ 65 + 25 * d <= w
      /\ DataHolds(b, c) /\ LoopsNest(b, w, c) /\ LoopsHold(b) /\ SectionsHold(b, w)
  BY DEF BoundsRight
<1>2. /\ d \in Nat /\ Len(b.placed) \in Nat /\ b.data \in BoxType
      /\ \A i \in 1 .. d : Old(i) \in LoopType
      /\ \A k \in 1 .. Len(b.placed) : b.placed[k] \in BoxType
  BY <1>1 DEF BoundsType
<1>3. /\ box \in BoxType /\ w - 10 <= box.starty /\ box.stopy <= c
      /\ 0 <= box.starty /\ 0 <= box.starty - 10 * d
  <2>1. /\ box \in BoxType
        /\ box.starty = Lesser(starty, stopy) /\ box.stopy = Greater(starty, stopy)
    BY BoxIsABox
  <2>2. w - 10 <= box.starty /\ box.stopy <= c
    BY <2>1 DEF Lesser, Greater
  <2>3. box.starty \in Int /\ w \in Int /\ d \in Nat /\ 65 + 25 * d <= w
    BY <1>1, <1>2, <2>1 DEF BoxType
  <2> HIDE DEF box, d
  <2> QED
    BY <2>1, <2>2, <2>3
<1>4. /\ e \in BoundsType /\ e.placed = Append(b.placed, box)
      /\ e.data = Cover(Cover(b.data, box), Spread(box, d * 10))
      /\ Len(e.sequenceItems) = d
      /\ \A i \in 1 .. d : New(i) = Enclose(Old(i), Spread(box, (d - i + 1) * 10))
  <2>1. Inserted(b, box, e)
    BY <1>1, InsertParts
  <2> HIDE DEF box, e
  <2> QED
    BY <2>1 DEF Inserted
<1> HIDE DEF box, d, e
<1>5. /\ Len(e.placed) = Len(b.placed) + 1 /\ e.placed[Len(b.placed) + 1] = box
      /\ \A k \in 1 .. Len(b.placed) : e.placed[k] = b.placed[k]
  BY <1>1, <1>3, <1>4 DEF BoundsType
<1>6. /\ e.data \in BoxType /\ e.data.starty = 0
      /\ e.data.startx <= b.data.startx /\ b.data.stopx <= e.data.stopx
      /\ e.data.startx <= box.startx - 10 * d /\ box.stopx + 10 * d <= e.data.stopx
      /\ e.data.startx <= box.startx /\ box.stopx <= e.data.stopx
  <2> DEFINE inner == Cover(b.data, box)
             far == Spread(box, d * 10)
  <2>1. /\ far \in BoxType /\ far.startx = box.startx - 10 * d
        /\ far.stopx = box.stopx + 10 * d /\ far.starty = box.starty - 10 * d
    <3> DEFINE m == d * 10
    <3>1. m \in Int /\ m = 10 * d
      BY <1>2
    <3> HIDE DEF m
    <3>2. /\ Spread(box, m) \in BoxType /\ Spread(box, m).startx = box.startx - m
          /\ Spread(box, m).stopx = box.stopx + m /\ Spread(box, m).starty = box.starty - m
      BY <1>3, <3>1, SpreadIsABox
    <3> QED
      BY <3>1, <3>2 DEF m
  <2>2. /\ inner \in BoxType
        /\ inner.startx <= b.data.startx /\ inner.startx <= box.startx
        /\ b.data.stopx <= inner.stopx /\ box.stopx <= inner.stopx
        /\ inner.starty = IF b.data.starty <= box.starty THEN b.data.starty ELSE box.starty
    BY <1>2, <1>3, CoverIsAround
  <2> HIDE DEF inner, far
  <2>3. /\ e.data \in BoxType
        /\ e.data.startx <= inner.startx /\ e.data.startx <= far.startx
        /\ inner.stopx <= e.data.stopx /\ far.stopx <= e.data.stopx
        /\ e.data.starty = IF inner.starty <= far.starty THEN inner.starty ELSE far.starty
    BY <1>4, <2>1, <2>2, CoverIsAround DEF inner, far
  <2>4. b.data.starty = 0
    BY <1>1 DEF DataHolds
  <2>5. /\ inner.startx \in Int /\ inner.starty \in Int /\ inner.stopx \in Int
        /\ far.startx \in Int /\ far.starty \in Int /\ far.stopx \in Int
        /\ b.data.startx \in Int /\ b.data.stopx \in Int
        /\ box.startx \in Int /\ box.starty \in Int /\ box.stopx \in Int
        /\ e.data.startx \in Int /\ e.data.stopx \in Int
    BY <1>2, <1>3, <2>1, <2>2, <2>3 DEF BoxType
  <2> QED
    BY <1>3, <2>1, <2>2, <2>3, <2>4, <2>5
<1>7. ASSUME NEW i \in 1 .. d
      PROVE  /\ New(i) \in LoopType /\ ~New(i).empty
             /\ New(i).sections = Old(i).sections /\ New(i).since = Old(i).since
             /\ New(i).starty <= Old(i).starty
             /\ ~Old(i).empty => Within(Old(i), New(i))
             /\ New(i).startx <= box.startx - 10 * (d - i + 1)
             /\ New(i).starty <= box.starty - 10 * (d - i + 1)
             /\ box.stopx + 10 * (d - i + 1) <= New(i).stopx
             /\ box.stopy + 10 * (d - i + 1) <= New(i).stopy
             /\ \/ New(i).starty = Old(i).starty
                \/ New(i).starty = box.starty - 10 * (d - i + 1)
             /\ \/ New(i).startx = box.startx - 10 * (d - i + 1)
                \/ ~Old(i).empty /\ New(i).startx = Old(i).startx
             /\ \/ New(i).stopx = box.stopx + 10 * (d - i + 1)
                \/ ~Old(i).empty /\ New(i).stopx = Old(i).stopx
             /\ \/ New(i).stopy = box.stopy + 10 * (d - i + 1)
                \/ ~Old(i).empty /\ New(i).stopy = Old(i).stopy
  <2> DEFINE m == (d - i + 1) * 10
             wide == Spread(box, m)
  <2>1. m \in Int /\ m = 10 * (d - i + 1)
    BY <1>2
  <2> HIDE DEF m
  <2>2. /\ wide \in BoxType /\ wide.startx = box.startx - m /\ wide.stopx = box.stopx + m
        /\ wide.starty = box.starty - m /\ wide.stopy = box.stopy + m
    BY <1>3, <2>1, SpreadIsABox
  <2> HIDE DEF wide
  <2>3. Old(i) \in LoopType /\ New(i) = Enclose(Old(i), wide)
    BY <1>2, <1>4 DEF wide, m
  <2> HIDE DEF Old, New
  <2> DEFINE n == Enclose(Old(i), wide)
  <2>4. /\ n \in LoopType /\ ~n.empty
        /\ n.sections = Old(i).sections /\ n.since = Old(i).since
        /\ n.starty <= Old(i).starty /\ Within(wide, n)
        /\ ~Old(i).empty => Within(Old(i), n)
        /\ n.starty = Old(i).starty \/ n.starty = wide.starty
        /\ n.startx = wide.startx \/ (~Old(i).empty /\ n.startx = Old(i).startx)
        /\ n.stopx = wide.stopx \/ (~Old(i).empty /\ n.stopx = Old(i).stopx)
        /\ n.stopy = wide.stopy \/ (~Old(i).empty /\ n.stopy = Old(i).stopy)
    BY <2>2, <2>3, EncloseIsAround
  <2> HIDE DEF n
  <2>5. New(i) = n
    BY <2>3 DEF n
  <2> QED
    BY <2>1, <2>2, <2>4, <2>5 DEF Within
<1> HIDE DEF Old, New
<1>8. DataHolds(e, c)
  <2> SUFFICES ASSUME NEW k \in 1 .. Len(b.placed) + 1
               PROVE  /\ e.data.startx <= e.placed[k].startx
                      /\ e.placed[k].stopx <= e.data.stopx
                      /\ 0 <= e.placed[k].starty /\ e.placed[k].stopy <= c
    BY <1>5, <1>6 DEF DataHolds
  <2>1. CASE k = Len(b.placed) + 1
    BY <1>3, <1>5, <1>6, <2>1
  <2>2. CASE k \in 1 .. Len(b.placed)
    <3>1. /\ b.data.startx <= b.placed[k].startx /\ b.placed[k].stopx <= b.data.stopx
          /\ 0 <= b.placed[k].starty /\ b.placed[k].stopy <= c
      BY <1>1, <2>2 DEF DataHolds
    <3>2. /\ b.placed[k].startx \in Int /\ b.placed[k].stopx \in Int
          /\ b.data.startx \in Int /\ b.data.stopx \in Int
          /\ e.data.startx \in Int /\ e.data.stopx \in Int
      BY <1>2, <1>6, <2>2 DEF BoxType
    <3>3. e.placed[k] = b.placed[k]
      BY <1>5, <2>2
    <3>4. e.data.startx <= b.data.startx /\ b.data.stopx <= e.data.stopx
      BY <1>6
    <3>5. e.data.startx <= b.placed[k].startx
      BY <3>1, <3>2, <3>4
    <3>6. b.placed[k].stopx <= e.data.stopx
      BY <3>1, <3>2, <3>4
    <3> QED
      BY <3>1, <3>3, <3>5, <3>6
  <2> QED
    BY <1>2, <2>1, <2>2
<1>9. ASSUME NEW i \in 1 .. d
      PROVE  /\ Old(i).startx \in Int /\ Old(i).starty \in Int
             /\ Old(i).stopx \in Int /\ Old(i).stopy \in Int
             /\ New(i).startx \in Int /\ New(i).starty \in Int
             /\ New(i).stopx \in Int /\ New(i).stopy \in Int
  BY <1>2, <1>7 DEF LoopType
<1>10. /\ box.startx \in Int /\ box.starty \in Int /\ box.stopx \in Int /\ box.stopy \in Int
       /\ b.data.startx \in Int /\ b.data.stopx \in Int
       /\ e.data.startx \in Int /\ e.data.stopx \in Int
       /\ w \in Int /\ c \in Int /\ d \in Nat /\ 65 + 25 * d <= w
  BY <1>1, <1>2, <1>3, <1>6 DEF BoxType
<1>11. ASSUME NEW i \in 1 .. d
       PROVE  /\ 0 <= New(i).starty /\ New(i).starty <= w
              /\ e.data.startx <= New(i).startx /\ New(i).stopx <= e.data.stopx
              /\ New(i).stopy <= c + 10 * (d - i + 1)
  <2>1. /\ 0 <= Old(i).starty /\ Old(i).starty <= w
        /\ ~Old(i).empty =>
             /\ b.data.startx <= Old(i).startx /\ Old(i).stopx <= b.data.stopx
             /\ Old(i).stopy <= c + 10 * (d - i + 1)
    BY <1>1 DEF LoopsNest, d, Old
  <2>2. 0 <= New(i).starty /\ New(i).starty <= w
    BY <1>3, <1>7, <1>9, <1>10, <2>1
  <2>3. e.data.startx <= New(i).startx
    BY <1>6, <1>7, <1>9, <1>10, <2>1
  <2>4. New(i).stopx <= e.data.stopx
    BY <1>6, <1>7, <1>9, <1>10, <2>1
  <2>5. New(i).stopy <= c + 10 * (d - i + 1)
    BY <1>3, <1>7, <1>9, <1>10, <2>1
  <2> QED
    BY <2>2, <2>3, <2>4, <2>5
<1>12. ASSUME NEW i \in 1 .. d, NEW j \in i + 1 .. d
       PROVE  /\ New(i).starty + 10 <= New(j).starty
              /\ Within(Spread(New(j), BoxMargin), New(i))
  <2>1. /\ Old(i).starty + 10 <= Old(j).starty
        /\ ~Old(j).empty => ~Old(i).empty /\ Within(Spread(Old(j), 10), Old(i))
    BY <1>1 DEF LoopsNest, d, Old, BoxMargin
  <2>2. ~Old(j).empty => /\ ~Old(i).empty /\ Old(i).startx <= Old(j).startx - 10
                         /\ Old(j).stopx + 10 <= Old(i).stopx
                         /\ Old(j).stopy + 10 <= Old(i).stopy
    BY <2>1 DEF Within, Spread
  <2>3. j \in 1 .. d /\ i + 1 <= j
    BY <1>10
  <2>4. ~Old(i).empty => /\ New(i).startx <= Old(i).startx /\ Old(i).stopx <= New(i).stopx
                         /\ Old(i).stopy <= New(i).stopy
    BY <1>7 DEF Within
  <2>5. New(i).starty + 10 <= New(j).starty
    BY <1>7, <1>9, <1>10, <2>1, <2>3
  <2>6. New(i).startx + 10 <= New(j).startx
    BY <1>7, <1>9, <1>10, <2>2, <2>3, <2>4
  <2>7. New(j).stopx + 10 <= New(i).stopx
    BY <1>7, <1>9, <1>10, <2>2, <2>3, <2>4
  <2>8. New(j).stopy + 10 <= New(i).stopy
    BY <1>7, <1>9, <1>10, <2>2, <2>3, <2>4
  <2> QED
    BY <1>9, <2>3, <2>5, <2>6, <2>7, <2>8 DEF Within, Spread, BoxMargin
<1>13. LoopsNest(e, w, c)
  BY <1>4, <1>7, <1>11, <1>12 DEF LoopsNest, New
<1>14. LoopsHold(e)
  <2> SUFFICES ASSUME NEW i \in 1 .. d, NEW k \in 1 .. Len(b.placed) + 1, Old(i).since < k
               PROVE  Within(Spread(e.placed[k], 10), New(i))
    BY <1>4, <1>5, <1>7 DEF LoopsHold, New, BoxMargin
  <2>1. CASE k = Len(b.placed) + 1
    <3>1. e.placed[k] = box
      BY <1>5, <2>1
    <3>2. 10 <= 10 * (d - i + 1) /\ 10 * (d - i + 1) \in Int
      BY <1>10
    <3>3. /\ New(i).startx <= box.startx - 10 /\ New(i).starty <= box.starty - 10
          /\ box.stopx + 10 <= New(i).stopx /\ box.stopy + 10 <= New(i).stopy
      <4> DEFINE m == 10 * (d - i + 1)
      <4>1. /\ New(i).startx <= box.startx - m /\ New(i).starty <= box.starty - m
            /\ box.stopx + m <= New(i).stopx /\ box.stopy + m <= New(i).stopy
        BY <1>7
      <4>2. m \in Int /\ 10 \in Int /\ 10 <= m
        BY <3>2
      <4>3. /\ New(i).startx \in Int /\ New(i).starty \in Int
            /\ New(i).stopx \in Int /\ New(i).stopy \in Int
        BY <1>9
      <4>4. box.startx \in Int /\ box.starty \in Int /\ box.stopx \in Int /\ box.stopy \in Int
        BY <1>10
      <4> DEFINE x1 == New(i).startx
                 y1 == New(i).starty
                 x2 == New(i).stopx
                 y2 == New(i).stopy
                 bx1 == box.startx
                 by1 == box.starty
                 bx2 == box.stopx
                 by2 == box.stopy
      <4>5. /\ x1 <= bx1 - m /\ y1 <= by1 - m /\ bx2 + m <= x2 /\ by2 + m <= y2
            /\ x1 \in Int /\ y1 \in Int /\ x2 \in Int /\ y2 \in Int
            /\ bx1 \in Int /\ by1 \in Int /\ bx2 \in Int /\ by2 \in Int
        BY <4>1, <4>3, <4>4
      <4> HIDE DEF m, x1, y1, x2, y2, bx1, by1, bx2, by2
      <4>6. x1 <= bx1 - 10 /\ y1 <= by1 - 10 /\ bx2 + 10 <= x2 /\ by2 + 10 <= y2
        BY <4>2, <4>5
      <4> QED
        BY <4>6 DEF x1, y1, x2, y2, bx1, by1, bx2, by2
    <3> QED
      BY <3>1, <3>3 DEF Within, Spread
  <2>2. CASE k \in 1 .. Len(b.placed)
    <3>1. e.placed[k] = b.placed[k] /\ b.placed[k] \in BoxType
      BY <1>2, <1>5, <2>2
    <3>2. ~Old(i).empty /\ Within(Spread(b.placed[k], 10), Old(i))
      BY <1>1, <2>2 DEF LoopsHold, Old, d, BoxMargin
    <3>3. Within(Old(i), New(i))
      BY <1>7, <3>2
    <3> QED
      BY <1>2, <1>7, <3>1, <3>2, <3>3, WithinOuter
  <2> QED
    BY <1>2, <2>1, <2>2
<1>15. SectionsHold(e, w)
  <2> SUFFICES ASSUME NEW i \in 1 .. d, NEW n \in 1 .. Len(Old(i).sections)
               PROVE  LET section == Old(i).sections[n] IN
                        /\ section.y + 10 + 25 * (d - i) <= w
                        /\ \A k \in 1 .. Len(b.placed) + 1 :
                             section.since < k => section.y <= e.placed[k].starty
                        /\ \A j \in i + 1 .. d : section.y <= New(j).starty
    BY <1>4, <1>5, <1>7 DEF SectionsHold, New
  <2> DEFINE section == Old(i).sections[n]
  <2>1. /\ section.y + 10 + 25 * (d - i) <= w
        /\ \A k \in 1 .. Len(b.placed) : section.since < k => section.y <= b.placed[k].starty
        /\ \A j \in i + 1 .. d : section.y <= Old(j).starty
    BY <1>1 DEF SectionsHold, Old, d
  <2>2. section.y \in Int
    <3>1. section \in SectionType
      BY <1>2 DEF LoopType, Old
    <3> QED
      BY <3>1 DEF SectionType
  <2> HIDE DEF section
  <2>5. section.y + 10 <= w - 25 * (d - i) /\ 0 <= 25 * (d - i) /\ 25 * (d - i) \in Int
    BY <1>10, <2>1, <2>2
  <2>3. ASSUME NEW k \in 1 .. Len(b.placed) + 1, section.since < k
        PROVE  section.y <= e.placed[k].starty
    <3>1. CASE k = Len(b.placed) + 1
      <4>1. section.y + 10 <= w
        BY <1>10, <2>2, <2>5
      <4>2. e.placed[k].starty = box.starty /\ w - 10 <= box.starty
        BY <1>3, <1>5, <3>1
      <4> QED
        BY <1>10, <2>2, <4>1, <4>2
    <3>2. CASE k \in 1 .. Len(b.placed)
      BY <1>5, <2>1, <2>3, <3>2
    <3> QED
      BY <1>2, <3>1, <3>2
  <2>4. ASSUME NEW j \in i + 1 .. d  PROVE section.y <= New(j).starty
    <3>1. j \in 1 .. d /\ i + 1 <= j
      BY <1>10
    <3>2. section.y <= Old(j).starty
      BY <2>1
    <3>3. New(j).starty = Old(j).starty \/ New(j).starty = box.starty - 10 * (d - j + 1)
      BY <1>7, <3>1
    <3>4. section.y <= box.starty - 10 * (d - j + 1)
      <4>1. w - 10 <= box.starty
        BY <1>3
      <4> DEFINE m == d - j + 1
                 r == d - i
                 up == 10 * m
                 down == 25 * r
      <4>2. m \in Nat /\ r \in Nat /\ m <= r
        BY <1>10, <3>1
      <4> HIDE DEF m, r
      <4>3. up <= down /\ up \in Int /\ down \in Int
        BY <4>2
      <4>4. section.y + 10 <= w - down
        BY <2>5 DEF r
      <4> HIDE DEF up, down
      <4>5. section.y <= box.starty - up
        BY <1>10, <2>2, <4>1, <4>3, <4>4
      <4> QED
        BY <4>5 DEF up, m
    <3> QED
      BY <3>2, <3>3, <3>4
  <2> QED
    BY <2>1, <2>3, <2>4 DEF section
<1>16. BoundsRight(e, w, c)
  BY <1>4, <1>8, <1>10, <1>13, <1>14, <1>15 DEF BoundsRight
<1> QED
  BY <1>16 DEF e

\* The activations are no part of it.
LEMMA ActivationsRight ==
  ASSUME NEW b, NEW w, NEW c, BoundsRight(b, w, c), NEW acts \in Seq(ActivationType)
  PROVE  LET e == [b EXCEPT !.activations = acts]
         IN  /\ BoundsRight(e, w, c)
             /\ e.verticalPos = b.verticalPos /\ e.activations = acts
<1> DEFINE e == [b EXCEPT !.activations = acts]
<1>1. b \in BoundsType
  BY DEF BoundsRight
<1>2. /\ e \in BoundsType /\ e.data = b.data /\ e.sequenceItems = b.sequenceItems
      /\ e.placed = b.placed /\ e.verticalPos = b.verticalPos /\ e.activations = acts
  BY <1>1 DEF BoundsType
<1> HIDE DEF e
<1>3. BoundsRight(e, w, c)
  BY <1>2 DEF BoundsRight, DataHolds, LoopsNest, LoopsHold, SectionsHold
<1> QED
  BY <1>2, <1>3 DEF e

\* A loop that begins below everything.
LEMMA NewLoopRight ==
  ASSUME NEW b, NEW w, NEW c, BoundsRight(b, w, c),
         NEW y \in Int, w + 10 <= y
  PROVE  LET loop == [startx |-> 0, starty |-> y, stopx |-> 0, stopy |-> 0,
                      empty |-> TRUE, sections |-> << >>, since |-> Len(b.placed)]
             e == [b EXCEPT !.sequenceItems = Append(@, loop)]
         IN  /\ BoundsRight(e, y + 15, c)
             /\ e.verticalPos = b.verticalPos /\ e.activations = b.activations
<1> DEFINE loop == [startx |-> 0, starty |-> y, stopx |-> 0, stopy |-> 0,
                    empty |-> TRUE, sections |-> << >>, since |-> Len(b.placed)]
           e == [b EXCEPT !.sequenceItems = Append(@, loop)]
           d == Len(b.sequenceItems)
           D == Len(e.sequenceItems)
           Old(i) == b.sequenceItems[i]
           New(i) == e.sequenceItems[i]
<1>1. /\ b \in BoundsType /\ w \in Int /\ c \in Int /\ 65 + 25 * d <= w
      /\ DataHolds(b, c) /\ LoopsNest(b, w, c) /\ LoopsHold(b) /\ SectionsHold(b, w)
  BY DEF BoundsRight
<1>2. /\ d \in Nat /\ Len(b.placed) \in Nat
      /\ \A i \in 1 .. d : Old(i) \in LoopType
      /\ b.sequenceItems \in Seq(LoopType)
  BY <1>1 DEF BoundsType
<1>3. loop \in LoopType
  BY <1>2 DEF LoopType
<1>4. /\ loop.starty = y /\ loop.empty /\ loop.sections = << >>
      /\ loop.since = Len(b.placed)
  OBVIOUS
<1> HIDE DEF loop
<1>5. /\ e \in BoundsType /\ e.data = b.data /\ e.placed = b.placed
      /\ e.verticalPos = b.verticalPos /\ e.activations = b.activations
      /\ e.sequenceItems = Append(b.sequenceItems, loop)
  <2>1. Append(b.sequenceItems, loop) \in Seq(LoopType)
    BY <1>2, <1>3
  <2> QED
    BY <1>1, <2>1 DEF BoundsType
<1> HIDE DEF e
<1>6. D = d + 1 /\ New(D) = loop /\ \A i \in 1 .. d : New(i) = Old(i)
  BY <1>2, <1>3, <1>5
<1>7. /\ w \in Int /\ c \in Int /\ y \in Int /\ d \in Nat
      /\ 65 + 25 * d <= w /\ w + 10 <= y /\ D = d + 1
  BY <1>1, <1>2, <1>6
<1> HIDE DEF Old, New, d, D
<1>8. DataHolds(e, c)
  BY <1>1, <1>5 DEF DataHolds
<1>9. ASSUME NEW i \in 1 .. d
      PROVE  Old(i).starty \in Int /\ Old(i).stopy \in Int /\ i \in 1 .. D
  BY <1>2, <1>7 DEF LoopType
<1>10. LoopsNest(e, y + 15, c)
  <2> SUFFICES ASSUME NEW i \in 1 .. D
               PROVE  /\ 0 <= New(i).starty /\ New(i).starty <= y + 15
                      /\ ~New(i).empty =>
                           /\ e.data.startx <= New(i).startx
                           /\ New(i).stopx <= e.data.stopx
                           /\ New(i).stopy <= c + 10 * (D - i + 1)
                      /\ \A j \in i + 1 .. D :
                           /\ New(i).starty + 10 <= New(j).starty
                           /\ ~New(j).empty =>
                                ~New(i).empty /\ Within(Spread(New(j), BoxMargin), New(i))
    BY Zenon DEF LoopsNest, New, D
  <2>1. CASE i = D
    <3>1. \A j \in i + 1 .. D : FALSE
      BY <1>7, <2>1
    <3>2. New(i).empty /\ New(i).starty = y
      BY <1>4, <1>6, <2>1
    <3>3. 0 <= y /\ y <= y + 15
      BY <1>7
    <3> QED
      BY <3>1, <3>2, <3>3
  <2>2. CASE i \in 1 .. d
    <3>1. /\ 0 <= Old(i).starty /\ Old(i).starty <= w
          /\ ~Old(i).empty =>
               /\ b.data.startx <= Old(i).startx /\ Old(i).stopx <= b.data.stopx
               /\ Old(i).stopy <= c + 10 * (d - i + 1)
          /\ \A j \in i + 1 .. d :
               /\ Old(i).starty + 10 <= Old(j).starty
               /\ ~Old(j).empty =>
                    ~Old(i).empty /\ Within(Spread(Old(j), BoxMargin), Old(i))
      BY <1>1, <2>2, Zenon DEF LoopsNest, Old, d
    <3>2. New(i) = Old(i)
      BY <1>6, <2>2
    <3>3. 0 <= New(i).starty /\ New(i).starty <= y + 15
      BY <1>7, <1>9, <2>2, <3>1, <3>2
    <3>4. ~New(i).empty => New(i).stopy <= c + 10 * (D - i + 1)
      BY <1>7, <1>9, <2>2, <3>1, <3>2
    <3>5. ASSUME NEW j \in i + 1 .. D
          PROVE  /\ New(i).starty + 10 <= New(j).starty
                 /\ ~New(j).empty =>
                      ~New(i).empty /\ Within(Spread(New(j), BoxMargin), New(i))
      <4>1. CASE j = D
        BY <1>4, <1>6, <1>7, <1>9, <2>2, <3>1, <3>2, <4>1
      <4>2. CASE j \in i + 1 .. d
        <5>1. New(j) = Old(j)
          BY <1>6, <1>7, <2>2, <4>2
        <5> QED
          BY <3>1, <3>2, <4>2, <5>1
      <4> QED
        BY <1>7, <4>1, <4>2
    <3> QED
      BY <1>5, <3>1, <3>2, <3>3, <3>4, <3>5
  <2> QED
    BY <1>7, <2>1, <2>2
<1>11. LoopsHold(e)
  <2> SUFFICES ASSUME NEW i \in 1 .. D, NEW k \in 1 .. Len(b.placed), New(i).since < k
               PROVE  ~New(i).empty /\ Within(Spread(b.placed[k], BoxMargin), New(i))
    BY <1>5, Zenon DEF LoopsHold, New, D
  <2>1. CASE i = D
    BY <1>2, <1>4, <1>6, <2>1
  <2>2. CASE i \in 1 .. d
    BY <1>1, <1>6, <2>2 DEF LoopsHold, Old, d
  <2> QED
    BY <1>7, <2>1, <2>2
<1>12. SectionsHold(e, y + 15)
  <2> SUFFICES ASSUME NEW i \in 1 .. D, NEW n \in 1 .. Len(New(i).sections)
               PROVE  LET section == New(i).sections[n] IN
                        /\ section.y + 10 + 25 * (D - i) <= y + 15
                        /\ \A k \in 1 .. Len(b.placed) :
                             section.since < k => section.y <= b.placed[k].starty
                        /\ \A j \in i + 1 .. D : section.y <= New(j).starty
    BY <1>5, Zenon DEF SectionsHold, New, D
  <2>1. i # D
    BY <1>4, <1>6
  <2>2. i \in 1 .. d
    BY <1>7, <2>1
  <2>3. New(i) = Old(i)
    BY <1>6, <2>2
  <2> DEFINE section == Old(i).sections[n]
  <2>4. /\ section.y + 10 + 25 * (d - i) <= w
        /\ \A k \in 1 .. Len(b.placed) : section.since < k => section.y <= b.placed[k].starty
        /\ \A j \in i + 1 .. d : section.y <= Old(j).starty
    BY <1>1, <2>2, <2>3, Zenon DEF SectionsHold, Old, d
  <2>5. section.y \in Int
    <3>1. section \in SectionType
      BY <1>2, <2>2, <2>3 DEF LoopType, Old
    <3> QED
      BY <3>1 DEF SectionType
  <2> HIDE DEF section
  <2>6. section.y + 10 + 25 * (D - i) <= y + 15 /\ section.y <= y
    <3> DEFINE r == 25 * (d - i)
    <3>1. r \in Int /\ 0 <= r /\ 25 * (D - i) = r + 25
      BY <1>7, <2>2
    <3>2. section.y + 10 + r <= w
      BY <2>4
    <3> HIDE DEF r
    <3> QED
      BY <1>7, <2>5, <3>1, <3>2
  <2>7. ASSUME NEW j \in i + 1 .. D  PROVE section.y <= New(j).starty
    <3>1. CASE j = D
      BY <1>4, <1>6, <2>6, <3>1
    <3>2. CASE j \in i + 1 .. d
      <4>1. New(j) = Old(j)
        BY <1>6, <1>7, <2>2, <3>2
      <4> QED
        BY <2>4, <3>2, <4>1
    <3> QED
      BY <1>7, <3>1, <3>2
  <2> QED
    BY <2>3, <2>4, <2>6, <2>7 DEF section
<1>13. y + 15 \in Int /\ 65 + 25 * (D) <= y + 15
  BY <1>7
<1>14. BoundsRight(e, y + 15, c)
  BY <1>5, <1>7, <1>8, <1>10, <1>11, <1>12, <1>13 DEF BoundsRight, D
<1> QED
  BY <1>5, <1>14 DEF e, loop

\* A section of the innermost loop whose line is below everything.
LEMMA AddSectionRight ==
  ASSUME NEW b, NEW w, NEW c, BoundsRight(b, w, c), b.sequenceItems # << >>,
         NEW y \in Int, w <= y
  PROVE  LET section == [y |-> y, since |-> Len(b.placed)]
             e == [b EXCEPT
                     !.sequenceItems[Len(b.sequenceItems)].sections = Append(@, section)]
         IN  /\ BoundsRight(e, y + 10, c)
             /\ e.verticalPos = b.verticalPos /\ e.activations = b.activations
<1> DEFINE section == [y |-> y, since |-> Len(b.placed)]
           e == [b EXCEPT
                   !.sequenceItems[Len(b.sequenceItems)].sections = Append(@, section)]
           d == Len(b.sequenceItems)
           Old(i) == b.sequenceItems[i]
           New(i) == e.sequenceItems[i]
           more == Append(Old(d).sections, section)
           changed == [Old(d) EXCEPT !.sections = more]
           items == [b.sequenceItems EXCEPT ![d] = changed]
<1>1. /\ b \in BoundsType /\ w \in Int /\ c \in Int /\ 65 + 25 * d <= w
      /\ DataHolds(b, c) /\ LoopsNest(b, w, c) /\ LoopsHold(b) /\ SectionsHold(b, w)
  BY DEF BoundsRight
<1>2. /\ d \in Nat \ {0} /\ d \in 1 .. d /\ Len(b.placed) \in Nat
      /\ \A i \in 1 .. d : Old(i) \in LoopType
      /\ b.sequenceItems \in Seq(LoopType)
  BY <1>1 DEF BoundsType
<1>3. section \in SectionType /\ section.y = y /\ section.since = Len(b.placed)
  BY <1>2 DEF SectionType
<1>4. /\ more \in Seq(SectionType) /\ Len(more) = Len(Old(d).sections) + 1
      /\ more[Len(more)] = section
      /\ \A n \in 1 .. Len(Old(d).sections) : more[n] = Old(d).sections[n]
  <2>1. Old(d).sections \in Seq(SectionType)
    BY <1>2 DEF LoopType
  <2> HIDE DEF section, d, Old
  <2> QED
    BY <1>3, <2>1
<1>5. /\ changed \in LoopType /\ changed.sections = more /\ changed.since = Old(d).since
      /\ changed.startx = Old(d).startx /\ changed.starty = Old(d).starty
      /\ changed.stopx = Old(d).stopx /\ changed.stopy = Old(d).stopy
      /\ changed.empty = Old(d).empty
  <2> HIDE DEF more, d
  <2> QED
    BY <1>2, <1>4 DEF LoopType
<1>6. e = [b EXCEPT !.sequenceItems = items]
  BY <1>1 DEF BoundsType
<1> HIDE DEF changed, e
<1>7. /\ items \in Seq(LoopType) /\ Len(items) = d /\ items[d] = changed
      /\ \A i \in 1 .. d : i # d => items[i] = Old(i)
  <2>1. DOMAIN b.sequenceItems = 1 .. d /\ Len(b.sequenceItems) = d
    BY <1>2
  <2> HIDE DEF d
  <2>2. /\ items \in [1 .. d -> LoopType] /\ items[d] = changed
        /\ \A i \in 1 .. d : i # d => items[i] = Old(i)
    BY <1>2, <1>5, <2>1
  <2> HIDE DEF items
  <2> QED
    BY <1>2, <2>2, SeqDef
<1> HIDE DEF items
<1>8. /\ e \in BoundsType /\ e.data = b.data /\ e.placed = b.placed
      /\ e.verticalPos = b.verticalPos /\ e.activations = b.activations
      /\ e.sequenceItems = items
  BY <1>1, <1>6, <1>7 DEF BoundsType
<1>9. Len(e.sequenceItems) = d
  BY <1>7, <1>8
<1>10. ASSUME NEW i \in 1 .. d
       PROVE  /\ New(i).startx = Old(i).startx /\ New(i).starty = Old(i).starty
              /\ New(i).stopx = Old(i).stopx /\ New(i).stopy = Old(i).stopy
              /\ New(i).empty = Old(i).empty /\ New(i).since = Old(i).since
              /\ i # d => New(i) = Old(i)
  BY <1>5, <1>7, <1>8
<1>11. New(d).sections = more
  BY <1>5, <1>7, <1>8
<1>12. /\ w \in Int /\ c \in Int /\ y \in Int /\ d \in Nat \ {0}
       /\ 65 + 25 * d <= w /\ w <= y
  BY <1>1, <1>2
<1>13. BoundsRight(b, y + 10, c)
  BY <1>12, RaiseRight
<1> HIDE DEF Old, New, d, more, section
<1>14. DataHolds(e, c)
  BY <1>1, <1>8 DEF DataHolds
<1>15. LoopsNest(e, y + 10, c)
  <2>1. LoopsNest(b, y + 10, c)
    BY <1>13 DEF BoundsRight
  <2> SUFFICES ASSUME NEW i \in 1 .. d
               PROVE  /\ 0 <= New(i).starty /\ New(i).starty <= y + 10
                      /\ ~New(i).empty =>
                           /\ b.data.startx <= New(i).startx
                           /\ New(i).stopx <= b.data.stopx
                           /\ New(i).stopy <= c + 10 * (d - i + 1)
                      /\ \A j \in i + 1 .. d :
                           /\ New(i).starty + 10 <= New(j).starty
                           /\ ~New(j).empty =>
                                ~New(i).empty /\ Within(Spread(New(j), BoxMargin), New(i))
    BY <1>8, <1>9, Zenon DEF LoopsNest, New
  <2>2. /\ 0 <= Old(i).starty /\ Old(i).starty <= y + 10
        /\ ~Old(i).empty =>
             /\ b.data.startx <= Old(i).startx /\ Old(i).stopx <= b.data.stopx
             /\ Old(i).stopy <= c + 10 * (d - i + 1)
        /\ \A j \in i + 1 .. d :
             /\ Old(i).starty + 10 <= Old(j).starty
             /\ ~Old(j).empty =>
                  ~Old(i).empty /\ Within(Spread(Old(j), BoxMargin), Old(i))
    BY <2>1, Zenon DEF LoopsNest, Old, d
  <2>3. ASSUME NEW j \in i + 1 .. d
        PROVE  /\ New(i).starty + 10 <= New(j).starty
               /\ ~New(j).empty =>
                    ~New(i).empty /\ Within(Spread(New(j), BoxMargin), New(i))
    <3>1. j \in 1 .. d
      BY <1>12
    <3>2. Within(Spread(Old(j), BoxMargin), Old(i))
            => Within(Spread(New(j), BoxMargin), New(i))
      BY <1>10, <3>1 DEF Within, Spread
    <3> QED
      BY <1>10, <2>2, <3>1, <3>2
  <2> QED
    BY <1>10, <2>2, <2>3
<1>16. LoopsHold(e)
  BY <1>1, <1>8, <1>9, <1>10 DEF LoopsHold, Old, New, d, Within
<1>17. SectionsHold(e, y + 10)
  <2> SUFFICES ASSUME NEW i \in 1 .. d, NEW n \in 1 .. Len(New(i).sections)
               PROVE  LET s == New(i).sections[n] IN
                        /\ s.y + 10 + 25 * (d - i) <= y + 10
                        /\ \A k \in 1 .. Len(b.placed) : s.since < k => s.y <= b.placed[k].starty
                        /\ \A j \in i + 1 .. d : s.y <= New(j).starty
    BY <1>8, <1>9, Zenon DEF SectionsHold, New
  <2>1. ASSUME n \in 1 .. Len(Old(i).sections), New(i).sections[n] = Old(i).sections[n]
        PROVE  LET s == Old(i).sections[n] IN
                 /\ s.y + 10 + 25 * (d - i) <= y + 10
                 /\ \A k \in 1 .. Len(b.placed) : s.since < k => s.y <= b.placed[k].starty
                 /\ \A j \in i + 1 .. d : s.y <= New(j).starty
    <3> DEFINE s == Old(i).sections[n]
    <3>1. /\ s.y + 10 + 25 * (d - i) <= y + 10
          /\ \A k \in 1 .. Len(b.placed) : s.since < k => s.y <= b.placed[k].starty
          /\ \A j \in i + 1 .. d : s.y <= Old(j).starty
      BY <1>13, <2>1, Zenon DEF BoundsRight, SectionsHold, Old, d
    <3>2. \A j \in i + 1 .. d : New(j).starty = Old(j).starty
      BY <1>10, <1>12
    <3> HIDE DEF s
    <3>3. \A j \in i + 1 .. d : s.y <= New(j).starty
      BY <3>1, <3>2
    <3> QED
      BY <3>1, <3>3 DEF s
  <2>2. CASE i # d
    BY <1>10, <2>1, <2>2
  <2>3. CASE i = d /\ n \in 1 .. Len(Old(d).sections)
    BY <1>4, <1>11, <2>1, <2>3
  <2>4. CASE i = d /\ n = Len(Old(d).sections) + 1
    <3>1. New(i).sections[n] = section
      BY <1>4, <1>11, <2>4
    <3>2. y + 10 + 25 * (d - i) <= y + 10 /\ \A j \in i + 1 .. d : FALSE
      BY <1>12, <2>4
    <3>3. \A k \in 1 .. Len(b.placed) : ~(Len(b.placed) < k)
      BY <1>2
    <3> QED
      BY <1>3, <3>1, <3>2, <3>3
  <2>5. Len(Old(d).sections) \in Nat
    <3>1. Old(d) \in LoopType
      BY <1>2 DEF Old
    <3> QED
      BY <3>1 DEF LoopType
  <2> QED
    BY <1>4, <1>11, <2>2, <2>3, <2>4, <2>5
<1>18. y + 10 \in Int /\ 65 + 25 * d <= y + 10
  BY <1>12
<1>19. BoundsRight(e, y + 10, c)
  BY <1>8, <1>9, <1>12, <1>14, <1>15, <1>16, <1>17, <1>18 DEF BoundsRight
<1> QED
  BY <1>8, <1>19 DEF e, section

\* The innermost loop is drawn.
LEMMA EndLoopRight ==
  ASSUME NEW b, NEW w, NEW c, BoundsRight(b, w, c), b.sequenceItems # << >>
  PROVE  LET loop == Last(b.sequenceItems)
             e == [b EXCEPT !.sequenceItems = Front(@),
                            !.placed = IF loop.empty THEN @ ELSE Append(@, Sides(loop))]
         IN  /\ BoundsRight(e, w, c + 10)
             /\ e.verticalPos = b.verticalPos /\ e.activations = b.activations
<1> DEFINE loop == Last(b.sequenceItems)
           placed == IF loop.empty THEN b.placed ELSE Append(b.placed, Sides(loop))
           e == [b EXCEPT !.sequenceItems = Front(@),
                          !.placed = IF loop.empty THEN @ ELSE Append(@, Sides(loop))]
           d == Len(b.sequenceItems)
           D == Len(e.sequenceItems)
           N == Len(b.placed)
           P == Len(e.placed)
           Old(i) == b.sequenceItems[i]
           New(i) == e.sequenceItems[i]
<1>1. /\ b \in BoundsType /\ w \in Int /\ c \in Int /\ 65 + 25 * d <= w
      /\ DataHolds(b, c) /\ LoopsNest(b, w, c) /\ LoopsHold(b) /\ SectionsHold(b, w)
  BY DEF BoundsRight
<1>2. /\ d \in Nat \ {0} /\ d \in 1 .. d /\ N \in Nat
      /\ \A i \in 1 .. d : Old(i) \in LoopType
      /\ b.sequenceItems \in Seq(LoopType) /\ b.placed \in Seq(BoxType)
  BY <1>1 DEF BoundsType
<1>3. loop = Old(d) /\ loop \in LoopType
  BY <1>2 DEF Last
<1> HIDE DEF loop
<1>4. /\ Sides(loop) \in BoxType
      /\ Sides(loop).startx = loop.startx /\ Sides(loop).starty = loop.starty
      /\ Sides(loop).stopx = loop.stopx /\ Sides(loop).stopy = loop.stopy
  BY <1>3 DEF Sides, LoopType, BoxType
<1>5. /\ placed \in Seq(BoxType) /\ \A k \in 1 .. N : placed[k] = b.placed[k]
      /\ \/ loop.empty /\ Len(placed) = N
         \/ ~loop.empty /\ Len(placed) = N + 1 /\ placed[N + 1] = Sides(loop)
  BY <1>2, <1>4
<1>6. /\ Front(b.sequenceItems) \in Seq(LoopType)
      /\ Len(Front(b.sequenceItems)) = d - 1
      /\ \A i \in 1 .. d - 1 : Front(b.sequenceItems)[i] = Old(i)
  <2>1. \A i \in 1 .. d - 1 : b.sequenceItems[i] \in LoopType
    BY <1>2
  <2> QED
    BY <1>2, <2>1, SubSeqProperties DEF Front
<1>7. /\ e \in BoundsType /\ e.data = b.data /\ e.placed = placed
      /\ e.verticalPos = b.verticalPos /\ e.activations = b.activations
      /\ e.sequenceItems = Front(b.sequenceItems)
  <2>1. e = [b EXCEPT !.sequenceItems = Front(b.sequenceItems), !.placed = placed]
    BY <1>1 DEF BoundsType
  <2> HIDE DEF e, placed
  <2> QED
    BY <1>1, <1>5, <1>6, <2>1 DEF BoundsType
<1> HIDE DEF e, placed
<1>8. D = d - 1 /\ \A i \in 1 .. D : New(i) = Old(i) /\ i \in 1 .. d
  BY <1>2, <1>6, <1>7
<1>9. /\ \A k \in 1 .. N : e.placed[k] = b.placed[k]
      /\ \/ loop.empty /\ P = N
         \/ ~loop.empty /\ P = N + 1 /\ e.placed[N + 1] = Sides(loop)
  BY <1>5, <1>7
<1>10. /\ w \in Int /\ c \in Int /\ d \in Nat \ {0} /\ N \in Nat
       /\ 65 + 25 * d <= w
  BY <1>1, <1>2
<1> HIDE DEF Old, New, d, D, N, P
\* What is placed has been placed before, or is the loop.
<1>11. ASSUME NEW k \in 1 .. P
       PROVE  \/ k \in 1 .. N /\ e.placed[k] = b.placed[k]
              \/ k = N + 1 /\ ~loop.empty /\ e.placed[k] = Sides(loop)
  BY <1>9, <1>10
<1>12. /\ 0 <= loop.starty /\ loop.starty \in Int /\ loop.stopy \in Int
       /\ ~loop.empty => /\ b.data.startx <= loop.startx /\ loop.stopx <= b.data.stopx
                         /\ loop.stopy <= c + 10
  <2>1. /\ 0 <= Old(d).starty
        /\ ~Old(d).empty => /\ b.data.startx <= Old(d).startx
                            /\ Old(d).stopx <= b.data.stopx
                            /\ Old(d).stopy <= c + 10 * (d - d + 1)
    BY <1>1, <1>2, Zenon DEF LoopsNest, Old, d
  <2>2. loop.starty \in Int /\ loop.stopy \in Int
    BY <1>3 DEF LoopType
  <2> QED
    BY <1>3, <1>10, <2>1, <2>2
<1>13. DataHolds(e, c + 10)
  <2> SUFFICES ASSUME NEW k \in 1 .. P
               PROVE  /\ b.data.startx <= e.placed[k].startx
                      /\ e.placed[k].stopx <= b.data.stopx
                      /\ 0 <= e.placed[k].starty /\ e.placed[k].stopy <= c + 10
    BY <1>1, <1>7, Zenon DEF DataHolds, P
  <2>1. CASE k \in 1 .. N /\ e.placed[k] = b.placed[k]
    <3>1. /\ b.data.startx <= b.placed[k].startx /\ b.placed[k].stopx <= b.data.stopx
          /\ 0 <= b.placed[k].starty /\ b.placed[k].stopy <= c
      BY <1>1, <2>1, Zenon DEF DataHolds, N
    <3>2. b.placed[k] \in BoxType
      BY <1>2, <2>1 DEF N
    <3>3. b.placed[k].stopy \in Int
      BY <3>2 DEF BoxType
    <3> QED
      BY <1>10, <2>1, <3>1, <3>3
  <2>2. CASE k = N + 1 /\ ~loop.empty /\ e.placed[k] = Sides(loop)
    BY <1>4, <1>12, <2>2
  <2> QED
    BY <1>11, <2>1, <2>2
<1>14. LoopsNest(e, w, c + 10)
  <2> SUFFICES ASSUME NEW i \in 1 .. D
               PROVE  /\ 0 <= New(i).starty /\ New(i).starty <= w
                      /\ ~New(i).empty =>
                           /\ b.data.startx <= New(i).startx
                           /\ New(i).stopx <= b.data.stopx
                           /\ New(i).stopy <= c + 10 + 10 * (D - i + 1)
                      /\ \A j \in i + 1 .. D :
                           /\ New(i).starty + 10 <= New(j).starty
                           /\ ~New(j).empty =>
                                ~New(i).empty /\ Within(Spread(New(j), BoxMargin), New(i))
    BY <1>7, Zenon DEF LoopsNest, New, D
  <2>1. New(i) = Old(i) /\ i \in 1 .. d
    BY <1>8
  <2>2. /\ 0 <= Old(i).starty /\ Old(i).starty <= w
        /\ ~Old(i).empty =>
             /\ b.data.startx <= Old(i).startx /\ Old(i).stopx <= b.data.stopx
             /\ Old(i).stopy <= c + 10 * (d - i + 1)
        /\ \A j \in i + 1 .. d :
             /\ Old(i).starty + 10 <= Old(j).starty
             /\ ~Old(j).empty =>
                  ~Old(i).empty /\ Within(Spread(Old(j), BoxMargin), Old(i))
    BY <1>1, <2>1, Zenon DEF LoopsNest, Old, d
  <2>3. c + 10 * (d - i + 1) = c + 10 + 10 * (D - i + 1)
    BY <1>8, <1>10
  <2>4. \A j \in i + 1 .. D : j \in i + 1 .. d /\ j \in 1 .. D
    BY <1>8, <1>10
  <2>5. \A j \in i + 1 .. D : New(j) = Old(j)
    BY <1>8, <2>4
  <2> QED
    BY <2>1, <2>2, <2>3, <2>4, <2>5, Zenon
<1>15. LoopsHold(e)
  <2> SUFFICES ASSUME NEW i \in 1 .. D, NEW k \in 1 .. P, New(i).since < k
               PROVE  ~New(i).empty /\ Within(Spread(e.placed[k], BoxMargin), New(i))
    BY Zenon DEF LoopsHold, New, D, P
  <2>1. New(i) = Old(i) /\ i \in 1 .. d
    BY <1>8
  <2>2. CASE k \in 1 .. N /\ e.placed[k] = b.placed[k]
    BY <1>1, <2>1, <2>2 DEF LoopsHold, Old, d, N
  <2>3. CASE k = N + 1 /\ ~loop.empty /\ e.placed[k] = Sides(loop)
    <3>1. d \in i + 1 .. d
      BY <1>8, <1>10
    <3>2. ~Old(i).empty /\ Within(Spread(loop, BoxMargin), Old(i))
      BY <1>1, <1>3, <2>1, <2>3, <3>1, Zenon DEF LoopsNest, Old, d
    <3>3. Spread(Sides(loop), BoxMargin) = Spread(loop, BoxMargin)
      BY <1>4 DEF Spread
    <3> QED
      BY <2>1, <2>3, <3>2, <3>3
  <2> QED
    BY <1>11, <2>2, <2>3
<1>16. SectionsHold(e, w)
  <2> SUFFICES ASSUME NEW i \in 1 .. D, NEW n \in 1 .. Len(New(i).sections)
               PROVE  LET s == New(i).sections[n] IN
                        /\ s.y + 10 + 25 * (D - i) <= w
                        /\ \A k \in 1 .. P : s.since < k => s.y <= e.placed[k].starty
                        /\ \A j \in i + 1 .. D : s.y <= New(j).starty
    BY Zenon DEF SectionsHold, New, D, P
  <2>1. New(i) = Old(i) /\ i \in 1 .. d
    BY <1>8
  <2> DEFINE s == Old(i).sections[n]
  <2>2. /\ s.y + 10 + 25 * (d - i) <= w
        /\ \A k \in 1 .. N : s.since < k => s.y <= b.placed[k].starty
        /\ \A j \in i + 1 .. d : s.y <= Old(j).starty
    BY <1>1, <2>1, Zenon DEF SectionsHold, Old, d, N
  <2>3. s.y \in Int
    <3>1. s \in SectionType
      <4>1. Old(i).sections \in Seq(SectionType)
        BY <1>2, <2>1 DEF LoopType
      <4> QED
        BY <2>1, <4>1
    <3> QED
      BY <3>1 DEF SectionType
  <2> HIDE DEF s
  <2>4. s.y + 10 + 25 * (D - i) <= w
    <3>1. 25 * (d - i) = 25 * (D - i) + 25 /\ 25 * (D - i) \in Int
      BY <1>8, <1>10
    <3> QED
      BY <1>10, <2>2, <2>3, <3>1
  <2>5. \A j \in i + 1 .. D : s.y <= New(j).starty
    <3>1. \A j \in i + 1 .. D : j \in i + 1 .. d /\ j \in 1 .. D
      BY <1>8, <1>10
    <3> QED
      BY <1>8, <2>2, <3>1
  <2>6. s.y <= loop.starty
    <3>1. d \in i + 1 .. d
      BY <1>8, <1>10
    <3> QED
      BY <1>3, <2>2, <3>1
  <2>7. ASSUME NEW k \in 1 .. P, s.since < k  PROVE s.y <= e.placed[k].starty
    BY <1>4, <1>11, <2>2, <2>6, <2>7
  <2> QED
    BY <2>1, <2>4, <2>5, <2>7 DEF s
<1>17. c + 10 \in Int /\ 65 + 25 * D <= w
  BY <1>8, <1>10
<1>18. BoundsRight(e, w, c + 10)
  BY <1>7, <1>10, <1>13, <1>14, <1>15, <1>16, <1>17 DEF BoundsRight, D
<1> QED
  BY <1>7, <1>18 DEF e, loop

LEMMA SubSeqElements ==
  ASSUME NEW S, NEW s \in Seq(S), NEW m \in Nat,
         NEW x \in ToSet(SubSeq(s, m + 1, Len(s)))
  PROVE  \E k \in 1 .. Len(s) : m < k /\ x = s[k]
<1> DEFINE t == SubSeq(s, m + 1, Len(s))
<1>1. /\ Len(t) = IF m + 1 <= Len(s) THEN Len(s) - m ELSE 0
      /\ \A i \in 1 .. Len(t) : t[i] = s[m + i]
      /\ t \in Seq(S) /\ Len(s) \in Nat
  <2>1. \A i \in m + 1 .. Len(s) : s[i] \in S
    BY ElementOfSeq
  <2>2. m + 1 \in Int /\ Len(s) \in Int
    BY LenProperties
  <2> QED
    BY <2>1, <2>2, SubSeqProperties
<1>4. x \in ToSet(t)
  OBVIOUS
<1> HIDE DEF t
<1>2. PICK i \in 1 .. Len(t) : x = t[i]
  <2>1. DOMAIN t = 1 .. Len(t)
    BY <1>1
  <2> QED
    BY <1>4, <2>1 DEF ToSet
<1>3. m + i \in 1 .. Len(s) /\ m < m + i
  BY <1>1
<1> QED
  BY <1>1, <1>2, <1>3

\* What the innermost loop is drawn around when it ends.
LEMMA InnermostHolds ==
  ASSUME NEW b, NEW w, NEW c, BoundsRight(b, w, c), b.sequenceItems # << >>
  PROVE  LET loop == Last(b.sequenceItems)
         IN  /\ \A box \in ToSet(SubSeq(b.placed, loop.since + 1, Len(b.placed))) :
                  Within(Spread(box, BoxMargin), loop)
             /\ \A n \in DOMAIN loop.sections :
                  \A box \in ToSet(SubSeq(b.placed, loop.sections[n].since + 1, Len(b.placed))) :
                    loop.sections[n].y <= box.starty
<1> DEFINE loop == Last(b.sequenceItems)
           d == Len(b.sequenceItems)
<1>1. b \in BoundsType /\ LoopsHold(b) /\ SectionsHold(b, w)
  BY DEF BoundsRight
<1>2. /\ d \in 1 .. d /\ loop = b.sequenceItems[d] /\ loop \in LoopType
      /\ b.placed \in Seq(BoxType)
  BY <1>1 DEF BoundsType, Last
<1>3. loop.since \in Nat /\ loop.sections \in Seq(SectionType)
  BY <1>2 DEF LoopType
<1> HIDE DEF loop
<1>4. ASSUME NEW box \in ToSet(SubSeq(b.placed, loop.since + 1, Len(b.placed)))
      PROVE  Within(Spread(box, BoxMargin), loop)
  <2>1. PICK k \in 1 .. Len(b.placed) : loop.since < k /\ box = b.placed[k]
    BY <1>2, <1>3, SubSeqElements
  <2> QED
    BY <1>1, <1>2, <2>1 DEF LoopsHold
<1>5. ASSUME NEW n \in DOMAIN loop.sections,
             NEW box \in ToSet(SubSeq(b.placed, loop.sections[n].since + 1, Len(b.placed)))
      PROVE  loop.sections[n].y <= box.starty
  <2>1. n \in 1 .. Len(loop.sections) /\ loop.sections[n] \in SectionType
    BY <1>3
  <2>2. loop.sections[n].since \in Nat
    BY <2>1 DEF SectionType
  <2>3. PICK k \in 1 .. Len(b.placed) : loop.sections[n].since < k /\ box = b.placed[k]
    BY <1>2, <2>2, SubSeqElements
  <2> QED
    BY <1>1, <1>2, <2>1, <2>3 DEF SectionsHold
<1> QED
  BY <1>4, <1>5 DEF loop

LEMMA RowIsWide == RowWidth \in Int /\ 0 <= RowWidth
<1>1. Actors \in Nat /\ 1 <= Actors
  BY SignalsAssumption
<1> QED
  BY <1>1 DEF RowWidth, ActorX, Width, ActorMargin

\* With the actors drawn again below, the box is around all that is placed.
LEMMA MirroredRight ==
  ASSUME Laid(bounds), bounds.sequenceItems = << >>
  PROVE  /\ Mirrored \in BoundsType /\ Mirrored.data.starty = 0
         /\ \A k \in 1 .. Len(Mirrored.placed) :
              /\ Mirrored.data.startx <= Mirrored.placed[k].startx
              /\ Mirrored.placed[k].stopx <= Mirrored.data.stopx
              /\ 0 <= Mirrored.placed[k].starty
              /\ Mirrored.placed[k].stopy <= Mirrored.data.stopy
         /\ SameStacks(bounds.activations, Mirrored.activations)
<1> DEFINE v == bounds.verticalPos
           b == BumpVerticalPos(bounds, 20)
           row == Box(0, v + 20, RowWidth, 65)
           below == Box(0, v + 20, RowWidth, v + 85)
           e == Insert(b, 0, v + 20, RowWidth, 65)
           f == [e EXCEPT !.placed = Append(@, below)]
           m == BumpVerticalPos(f, 65)
<1>1. /\ bounds \in BoundsType /\ v \in Int /\ 65 <= v /\ Len(bounds.sequenceItems) = 0
      /\ DataHolds(bounds, v + 12)
  BY DEF Laid, BoundsRight
<1>2. /\ b \in BoundsType /\ b.verticalPos = v + 20
      /\ b.sequenceItems = bounds.sequenceItems
      /\ b.placed = bounds.placed /\ b.activations = bounds.activations
      /\ b.data.startx = bounds.data.startx /\ b.data.starty = bounds.data.starty
      /\ b.data.stopx = bounds.data.stopx
  <2>1. bounds.data \in BoxType
    BY <1>1 DEF BoundsType
  <2>2. /\ b \in BoundsType /\ b.verticalPos = bounds.verticalPos + 20
        /\ b.sequenceItems = bounds.sequenceItems
        /\ b.placed = bounds.placed /\ b.activations = bounds.activations
        /\ b.data = [bounds.data EXCEPT !.stopy = bounds.verticalPos + 20]
    <3>1. bounds \in BoundsType /\ 20 \in Int
      BY <1>1
    <3> QED
      BY <3>1, BumpKeeps
  <2> HIDE DEF b
  <2> QED
    BY <2>1, <2>2 DEF BoxType
<1>3. /\ row \in BoxType /\ row.startx = 0 /\ row.stopx = RowWidth
      /\ row.starty = 65 /\ row.stopy = v + 20
      /\ below \in BoxType /\ below.startx = 0 /\ below.stopx = RowWidth
      /\ below.starty = v + 20 /\ below.stopy = v + 85
  <2> HIDE DEF v
  <2> QED
    BY <1>1, RowIsWide DEF Box, BoxType, Lesser, Greater
<1>4. Mirrored = m
  <2>1. (v + 20) + 65 = v + 85 /\ 2 * 10 = 20
    BY <1>1
  <2>2. b.verticalPos = v + 20
    BY <1>2
  <2> HIDE DEF v
  <2> QED
    BY <2>1, <2>2 DEF Mirrored, BoxMargin, Height
<1>5. Inserted(b, row, e)
  <2>1. v + 20 \in Int
    BY <1>1
  <2> HIDE DEF v, b
  <2> QED
    BY <1>2, <2>1, RowIsWide, InsertParts
<1> HIDE DEF b, row, e, below, v
<1>6. /\ e \in BoundsType /\ e.verticalPos = v + 20
      /\ e.placed = Append(b.placed, row) /\ e.sequenceItems = << >>
      /\ e.data = Cover(Cover(b.data, row), Spread(row, 0))
      /\ SameStacks(b.activations, e.activations)
  <2>1. Len(b.sequenceItems) = 0 /\ 0 * 10 = 0
    BY <1>1, <1>2
  <2>2. /\ e \in BoundsType /\ e.verticalPos = v + 20 /\ Len(e.sequenceItems) = 0
        /\ e.data = Cover(Cover(b.data, row), Spread(row, 0))
        /\ e.placed = Append(b.placed, row)
    BY <1>2, <1>5, <2>1 DEF Inserted
  <2>3. e.sequenceItems = << >>
    BY <2>2 DEF BoundsType
  <2> QED
    BY <1>5, <2>2, <2>3 DEF Inserted
<1>7. /\ e.data \in BoxType /\ e.data.startx <= bounds.data.startx /\ e.data.startx <= 0
      /\ bounds.data.stopx <= e.data.stopx /\ RowWidth <= e.data.stopx
      /\ e.data.starty = 0
  <2> DEFINE inner == Cover(b.data, row)
             far == Spread(row, 0)
  <2>1. /\ far \in BoxType /\ far.startx = 0 - 0 /\ far.stopx = RowWidth + 0
        /\ far.starty = 65 - 0
    <3>1. row \in BoxType /\ 0 \in Int
      BY <1>3
    <3>2. /\ far \in BoxType /\ far.startx = row.startx - 0
          /\ far.stopx = row.stopx + 0 /\ far.starty = row.starty - 0
      BY <3>1, SpreadIsABox, Zenon
    <3> HIDE DEF far
    <3> QED
      BY <1>3, <3>2
  <2>2. b.data \in BoxType /\ b.data.starty = 0
    BY <1>1, <1>2 DEF BoundsType, DataHolds
  <2>3. /\ inner \in BoxType
        /\ inner.startx <= b.data.startx /\ inner.startx <= row.startx
        /\ b.data.stopx <= inner.stopx /\ row.stopx <= inner.stopx
        /\ inner.starty = IF b.data.starty <= row.starty THEN b.data.starty ELSE row.starty
    BY <1>3, <2>2, CoverIsAround
  <2> HIDE DEF inner, far
  <2>4. /\ e.data \in BoxType
        /\ e.data.startx <= inner.startx /\ inner.stopx <= e.data.stopx
        /\ e.data.starty = IF inner.starty <= far.starty THEN inner.starty ELSE far.starty
    BY <1>6, <2>1, <2>3, CoverIsAround DEF inner, far
  <2>5. /\ inner.startx \in Int /\ inner.stopx \in Int
        /\ b.data.startx \in Int /\ b.data.stopx \in Int
        /\ e.data.startx \in Int /\ e.data.stopx \in Int
    BY <2>2, <2>3, <2>4 DEF BoxType
  <2>6. bounds.data.startx = b.data.startx /\ bounds.data.stopx = b.data.stopx
    BY <1>2
  <2>7. e.data.startx <= b.data.startx /\ b.data.stopx <= e.data.stopx
    BY <2>3, <2>4, <2>5
  <2>8. e.data.startx <= 0
    BY <1>3, <2>3, <2>4, <2>5
  <2>9. RowWidth <= e.data.stopx
    BY <1>3, <2>3, <2>4, <2>5, RowIsWide
  <2>10. e.data.starty = 0
    BY <1>3, <2>1, <2>2, <2>3, <2>4
  <2> QED
    BY <2>4, <2>6, <2>7, <2>8, <2>9, <2>10
<1>8. /\ f \in BoundsType /\ f.verticalPos = v + 20 /\ f.data = e.data
      /\ f.activations = e.activations /\ f.placed = Append(e.placed, below)
  <2>1. Append(e.placed, below) \in Seq(BoxType)
    <3>1. e.placed \in Seq(BoxType)
      BY <1>6 DEF BoundsType
    <3> QED
      BY <1>3, <3>1
  <2> QED
    BY <1>6, <2>1 DEF BoundsType
<1> HIDE DEF f
<1>9. /\ m \in BoundsType /\ m.data.stopy = v + 85
      /\ m.data.startx = e.data.startx /\ m.data.stopx = e.data.stopx
      /\ m.data.starty = 0 /\ m.placed = f.placed /\ m.activations = e.activations
  <2>1. (v + 20) + 65 = v + 85
    BY <1>1
  <2>2. /\ m \in BoundsType /\ m.placed = f.placed /\ m.activations = f.activations
        /\ m.data = [f.data EXCEPT !.stopy = f.verticalPos + 65]
    <3>1. f \in BoundsType /\ 65 \in Int
      BY <1>8
    <3> QED
      BY <3>1, BumpKeeps
  <2> HIDE DEF m
  <2>3. /\ m.data.stopy = f.verticalPos + 65 /\ m.data.startx = e.data.startx
        /\ m.data.stopx = e.data.stopx /\ m.data.starty = e.data.starty
    BY <1>7, <1>8, <2>2 DEF BoxType
  <2> QED
    BY <1>7, <1>8, <2>1, <2>2, <2>3
<1> HIDE DEF m
<1> DEFINE N == Len(bounds.placed)
<1>10. /\ Len(m.placed) = N + 2 /\ m.placed[N + 1] = row /\ m.placed[N + 2] = below
       /\ N \in Nat /\ \A k \in 1 .. N : m.placed[k] = bounds.placed[k]
  <2>1. bounds.placed \in Seq(BoxType)
    BY <1>1 DEF BoundsType
  <2>2. m.placed = Append(Append(bounds.placed, row), below)
    BY <1>2, <1>6, <1>8, <1>9
  <2> QED
    BY <1>3, <2>1, <2>2
<1>11. ASSUME NEW k \in 1 .. N + 2
       PROVE  /\ m.data.startx <= m.placed[k].startx /\ m.placed[k].stopx <= m.data.stopx
              /\ 0 <= m.placed[k].starty /\ m.placed[k].stopy <= m.data.stopy
  <2>1. CASE k \in 1 .. N
    <3>1. /\ bounds.data.startx <= bounds.placed[k].startx
          /\ bounds.placed[k].stopx <= bounds.data.stopx
          /\ 0 <= bounds.placed[k].starty /\ bounds.placed[k].stopy <= v + 12
      BY <1>1, <2>1 DEF DataHolds
    <3>2. bounds.placed[k] \in BoxType /\ bounds.data \in BoxType
      BY <1>1, <2>1 DEF BoundsType
    <3>3. /\ bounds.placed[k].startx \in Int /\ bounds.placed[k].stopx \in Int
          /\ bounds.placed[k].stopy \in Int
          /\ bounds.data.startx \in Int /\ bounds.data.stopx \in Int
          /\ e.data.startx \in Int /\ e.data.stopx \in Int
      BY <1>7, <3>2 DEF BoxType
    <3>4. m.placed[k] = bounds.placed[k]
      BY <1>10, <2>1
    <3>5. m.data.startx <= bounds.placed[k].startx
      BY <1>7, <1>9, <3>1, <3>3
    <3>6. bounds.placed[k].stopx <= m.data.stopx
      BY <1>7, <1>9, <3>1, <3>3
    <3>7. bounds.placed[k].stopy <= m.data.stopy
      BY <1>1, <1>9, <3>1, <3>3
    <3> QED
      BY <3>1, <3>4, <3>5, <3>6, <3>7
  <2>2. CASE k = N + 1
    BY <1>1, <1>3, <1>7, <1>9, <1>10, <2>2
  <2>3. CASE k = N + 2
    BY <1>1, <1>3, <1>7, <1>9, <1>10, <2>3
  <2> QED
    BY <1>10, <2>1, <2>2, <2>3
<1> QED
  BY <1>2, <1>4, <1>6, <1>9, <1>10, <1>11

-----------------------------------------------------------------------------
(* The activations.  n is how many more signals may come, so that what has *)
(* begun earlier has begun at a greater number.                            *)

\* When those of one actor have begun.
BegunIn(acts, a) == {acts[i].begun : i \in {j \in DOMAIN acts : acts[j].actor = a}}

\* The later of two activations has begun later, and those of one actor are
\* stacked from its line to the right.
Stacked(acts, n) ==
  \A i \in 1 .. Len(acts) : LET act == acts[i] IN
    /\ n < act.begun /\ act.stopx = act.startx + 10
    /\ ActorX(act.actor) + 70 <= act.startx
    /\ act.startx <= ActorX(act.actor) + 65 + 5 * Cardinality(BegunIn(acts, act.actor))
    /\ \A j \in i + 1 .. Len(acts) :
         /\ acts[j].begun < act.begun
         /\ acts[j].actor = act.actor => act.startx + 5 <= acts[j].startx

LEMMA ActivationParts ==
  ASSUME NEW acts \in Seq(ActivationType), NEW i \in 1 .. Len(acts)
  PROVE  /\ acts[i] \in ActivationType /\ acts[i].startx \in Int /\ acts[i].stopx \in Int
         /\ acts[i].starty \in Int /\ acts[i].actor \in Actor /\ acts[i].begun \in Nat
         /\ Len(acts) \in Nat /\ DOMAIN acts = 1 .. Len(acts)
<1>1. acts[i] \in ActivationType /\ Len(acts) \in Nat /\ DOMAIN acts = 1 .. Len(acts)
  OBVIOUS
<1> QED
  BY <1>1 DEF ActivationType

LEMMA ActorXIsInt == ASSUME NEW a \in Actor  PROVE ActorX(a) \in Int
<1>1. a \in Int
  BY DEF Actor
<1> QED
  BY <1>1 DEF ActorX, Width, ActorMargin

\* No two activations have begun at the same time.
LEMMA CountActivations ==
  ASSUME NEW acts \in Seq(ActivationType), NEW n, Stacked(acts, n), NEW a
  PROVE  LET positions == {i \in DOMAIN acts : acts[i].actor = a}
         IN  /\ BegunIn(acts, a) \in SUBSET Nat
             /\ IsFiniteSet(positions) /\ IsFiniteSet(BegunIn(acts, a))
             /\ Cardinality(positions) \in Nat
             /\ Cardinality(BegunIn(acts, a)) = Cardinality(positions)
<1> DEFINE P == {i \in DOMAIN acts : acts[i].actor = a}
           B == BegunIn(acts, a)
           f == [i \in P |-> acts[i].begun]
<1>1. P \in SUBSET (1 .. Len(acts)) /\ Len(acts) \in Nat
  OBVIOUS
<1>2. IsFiniteSet(P) /\ Cardinality(P) \in Nat
  <2>1. 1 \in Int /\ Len(acts) \in Int
    BY <1>1
  <2>2. IsFiniteSet(1 .. Len(acts))
    BY <2>1, FS_Interval, Zenon
  <2> HIDE DEF P
  <2> QED
    BY <1>1, <2>2, FS_Subset, FS_CardinalityType
<1>3. B = {acts[i].begun : i \in P}
  BY DEF BegunIn
<1>4. ASSUME NEW i \in P  PROVE acts[i].begun \in Nat
  BY <1>1, ActivationParts
<1>5. ASSUME NEW i \in P, NEW j \in P, acts[i].begun = acts[j].begun
      PROVE  i = j
  <2>1. i \in 1 .. Len(acts) /\ j \in 1 .. Len(acts)
    BY <1>1
  <2>2. \A k \in i + 1 .. Len(acts) : acts[k].begun < acts[i].begun
    BY <2>1 DEF Stacked
  <2>3. \A k \in j + 1 .. Len(acts) : acts[k].begun < acts[j].begun
    BY <2>1 DEF Stacked
  <2>4. acts[i].begun \in Nat /\ acts[j].begun \in Nat
    BY <1>4
  <2> HIDE DEF P
  <2> QED
    BY <1>5, <2>1, <2>2, <2>3, <2>4
<1> HIDE DEF P, B
<1>6. f \in Bijection(P, B)
  <2>1. f \in [P -> B]
    BY <1>3
  <2>2. \A x, y \in P : f[x] = f[y] => x = y
    BY <1>5
  <2>3. \A y \in B : \E x \in P : f[x] = y
    BY <1>3
  <2> HIDE DEF f
  <2> QED
    BY <2>1, <2>2, <2>3 DEF Bijection, Injection, Surjection, IsInjective
<1>7. IsFiniteSet(B) /\ Cardinality(B) = Cardinality(P)
  BY <1>2, <1>6, FS_Bijection, Zenon DEF ExistsBijection
<1> QED
  BY <1>2, <1>3, <1>4, <1>7 DEF P, B

\* What is put into the bounds only makes activations reach further up.
LEMMA SameStacksRight ==
  ASSUME NEW acts \in Seq(ActivationType), NEW others \in Seq(ActivationType),
         SameStacks(acts, others), NEW n, Stacked(acts, n)
  PROVE  Stacked(others, n) /\ \A a : BegunIn(others, a) = BegunIn(acts, a)
<1> DEFINE D == Len(acts)
<1>1. /\ Len(others) = D /\ DOMAIN acts = 1 .. D /\ DOMAIN others = 1 .. D
      /\ \A i \in 1 .. D :
           /\ others[i].startx = acts[i].startx /\ others[i].stopx = acts[i].stopx
           /\ others[i].actor = acts[i].actor /\ others[i].begun = acts[i].begun
  BY DEF SameStacks
<1>2. ASSUME NEW a  PROVE BegunIn(others, a) = BegunIn(acts, a)
  BY <1>1, Zenon DEF BegunIn
<1>3. Stacked(others, n)
  <2>1. ASSUME NEW i \in 1 .. D, NEW j \in i + 1 .. D  PROVE j \in 1 .. D
    <3>1. D \in Nat
      OBVIOUS
    <3> QED
      BY <3>1
  <2>2. ASSUME NEW i \in 1 .. D
        PROVE  /\ n < others[i].begun /\ others[i].stopx = others[i].startx + 10
               /\ ActorX(others[i].actor) + 70 <= others[i].startx
               /\ others[i].startx <= ActorX(others[i].actor) + 65
                    + 5 * Cardinality(BegunIn(others, others[i].actor))
    <3> HIDE DEF D
    <3> QED
      BY <1>1, <1>2, Zenon DEF Stacked, D
  <2>3. ASSUME NEW i \in 1 .. D, NEW j \in i + 1 .. D
        PROVE  /\ others[j].begun < others[i].begun
               /\ others[j].actor = others[i].actor => others[i].startx + 5 <= others[j].startx
    <3>1. /\ acts[j].begun < acts[i].begun
          /\ acts[j].actor = acts[i].actor => acts[i].startx + 5 <= acts[j].startx
      BY Zenon DEF Stacked
    <3> HIDE DEF D
    <3> QED
      BY <1>1, <2>1, <3>1
  <2> HIDE DEF D
  <2> QED
    BY <1>1, <2>2, <2>3, Zenon DEF Stacked
<1> QED
  BY <1>2, <1>3

\* An activation that begins now, beside the others of its actor.
LEMMA AppendStacked ==
  ASSUME NEW acts \in Seq(ActivationType), NEW n \in Nat \ {0}, Stacked(acts, n),
         NEW act \in ActivationType, act.begun = n, act.stopx = act.startx + 10,
         act.startx = ActorX(act.actor) + 70 + 5 * Cardinality(BegunIn(acts, act.actor))
  PROVE  /\ Append(acts, act) \in Seq(ActivationType)
         /\ Stacked(Append(acts, act), n - 1)
         /\ \A a : BegunIn(Append(acts, act), a) =
              IF a = act.actor THEN BegunIn(acts, a) \cup {n} ELSE BegunIn(acts, a)
<1> DEFINE more == Append(acts, act)
           D == Len(acts)
           a0 == act.actor
<1>1. /\ more \in Seq(ActivationType) /\ Len(more) = D + 1 /\ D \in Nat
      /\ more[D + 1] = act /\ \A i \in 1 .. D : more[i] = acts[i]
      /\ DOMAIN acts = 1 .. D /\ DOMAIN more = 1 .. (D + 1)
  OBVIOUS
<1>2. a0 \in Actor /\ act.startx \in Int /\ act.stopx \in Int
  BY DEF ActivationType
<1> HIDE DEF more, D
<1>3. ASSUME NEW a
      PROVE  BegunIn(more, a) = IF a = a0 THEN BegunIn(acts, a) \cup {n} ELSE BegunIn(acts, a)
  <2>1. 1 .. (D + 1) = (1 .. D) \cup {D + 1}
    BY <1>1
  <2>2. \A x : x \in BegunIn(acts, a) <=> \E i \in 1 .. D : acts[i].actor = a /\ x = acts[i].begun
    BY <1>1, Zenon DEF BegunIn
  <2>3. \A x : x \in BegunIn(more, a)
          <=> \E i \in 1 .. (D + 1) : more[i].actor = a /\ x = more[i].begun
    BY <1>1, Zenon DEF BegunIn
  <2>4. \A x : x \in BegunIn(more, a)
          <=> x \in BegunIn(acts, a) \/ (act.actor = a /\ x = act.begun)
    BY <1>1, <2>1, <2>2, <2>3
  <2>5. CASE a = act.actor
    <3>1. \A x : x \in BegunIn(more, a) <=> x \in BegunIn(acts, a) \cup {n}
      BY <2>4, <2>5
    <3>2. BegunIn(more, a) = BegunIn(acts, a) \cup {n}
      BY <3>1, Zenon
    <3> QED
      BY <2>5, <3>2
  <2>6. CASE a # act.actor
    <3>1. \A x : x \in BegunIn(more, a) <=> x \in BegunIn(acts, a)
      BY <2>4, <2>6
    <3>2. BegunIn(more, a) = BegunIn(acts, a)
      BY <3>1, Zenon
    <3> QED
      BY <2>6, <3>2
  <2> QED
    BY <2>5, <2>6
<1>4. ASSUME NEW a \in Actor
      PROVE  /\ ActorX(a) \in Int /\ Cardinality(BegunIn(acts, a)) \in Nat
             /\ Cardinality(BegunIn(more, a)) =
                  Cardinality(BegunIn(acts, a)) + (IF a = a0 THEN 1 ELSE 0)
  <2>1. /\ IsFiniteSet(BegunIn(acts, a)) /\ Cardinality(BegunIn(acts, a)) \in Nat
        /\ BegunIn(acts, a) \in SUBSET Nat
    BY CountActivations
  <2>2. n \notin BegunIn(acts, a)
    <3> SUFFICES ASSUME NEW i \in 1 .. D, acts[i].begun = n  PROVE FALSE
      BY <1>1, Zenon DEF BegunIn
    <3>1. n < acts[i].begun
      BY DEF Stacked, D
    <3> QED
      BY <3>1
  <2>3. /\ Cardinality(BegunIn(acts, a) \cup {n}) = Cardinality(BegunIn(acts, a)) + 1
    BY <2>1, <2>2, FS_AddElement
  <2>4. ActorX(a) \in Int
    BY ActorXIsInt
  <2>5. CASE a = a0
    <3>1. BegunIn(more, a) = BegunIn(acts, a) \cup {n}
      BY <1>3, <2>5
    <3> QED
      BY <2>1, <2>3, <2>4, <2>5, <3>1
  <2>6. CASE a # a0
    <3>1. BegunIn(more, a) = BegunIn(acts, a)
      BY <1>3, <2>6
    <3> QED
      BY <2>1, <2>4, <2>6, <3>1
  <2> QED
    BY <2>5, <2>6
<1>5. ASSUME NEW i \in 1 .. D + 1
      PROVE  /\ n - 1 < more[i].begun /\ more[i].stopx = more[i].startx + 10
             /\ ActorX(more[i].actor) + 70 <= more[i].startx
             /\ more[i].startx
                  <= ActorX(more[i].actor) + 65 + 5 * Cardinality(BegunIn(more, more[i].actor))
  <2>1. CASE i = D + 1
    <3>1. more[i] = act
      BY <1>1, <2>1
    <3> DEFINE card == Cardinality(BegunIn(acts, a0))
               x == ActorX(a0)
    <3>2. card \in Nat /\ x \in Int /\ Cardinality(BegunIn(more, a0)) = card + 1
      BY <1>2, <1>4
    <3>3. act.startx = x + 70 + 5 * card
      OBVIOUS
    <3>4. n - 1 < act.begun /\ act.stopx = act.startx + 10
      OBVIOUS
    <3> HIDE DEF card, x
    <3>5. x + 70 <= act.startx /\ act.startx <= x + 65 + 5 * (card + 1)
      BY <3>2, <3>3
    <3> QED
      BY <3>1, <3>2, <3>4, <3>5 DEF x
  <2>2. CASE i \in 1 .. D
    <3>1. more[i] = acts[i]
      BY <1>1, <2>2
    <3>2. /\ acts[i].actor \in Actor /\ acts[i].begun \in Nat /\ acts[i].startx \in Int
      BY <2>2, ActivationParts DEF D
    <3> DEFINE a == acts[i].actor
               card == Cardinality(BegunIn(acts, a))
               cards == Cardinality(BegunIn(more, a))
               x == ActorX(a)
    <3>3. card \in Nat /\ cards \in Nat /\ card <= cards /\ x \in Int
      BY <1>4, <3>2
    <3>4. /\ n < acts[i].begun /\ acts[i].stopx = acts[i].startx + 10
          /\ x + 70 <= acts[i].startx /\ acts[i].startx <= x + 65 + 5 * card
      BY <2>2 DEF Stacked, D
    <3> DEFINE sx == acts[i].startx
               begun == acts[i].begun
    <3>5. /\ sx \in Int /\ begun \in Nat /\ n \in Nat
          /\ n < begun /\ sx <= x + 65 + 5 * card
      BY <3>2, <3>4
    <3> HIDE DEF card, cards, x, sx, begun
    <3>6. n - 1 < begun /\ sx <= x + 65 + 5 * cards
      BY <3>3, <3>5
    <3>7. n - 1 < acts[i].begun /\ acts[i].startx <= x + 65 + 5 * cards
      BY <3>6 DEF sx, begun
    <3> QED
      BY <3>1, <3>4, <3>7 DEF x, cards
  <2> QED
    BY <1>1, <2>1, <2>2
<1>6. ASSUME NEW i \in 1 .. D + 1, NEW j \in i + 1 .. D + 1
      PROVE  /\ more[j].begun < more[i].begun
             /\ more[j].actor = more[i].actor => more[i].startx + 5 <= more[j].startx
  <2>1. i \in 1 .. D /\ more[i] = acts[i]
    BY <1>1
  <2>2. /\ n < acts[i].begun
        /\ acts[i].startx
             <= ActorX(acts[i].actor) + 65 + 5 * Cardinality(BegunIn(acts, acts[i].actor))
        /\ \A k \in i + 1 .. D :
             /\ acts[k].begun < acts[i].begun
             /\ acts[k].actor = acts[i].actor => acts[i].startx + 5 <= acts[k].startx
    BY <2>1, Zenon DEF Stacked, D
  <2>3. CASE j = D + 1
    <3>1. more[j] = act
      BY <1>1, <2>3
    <3>2. ASSUME act.actor = acts[i].actor
          PROVE  acts[i].startx + 5 <= act.startx
      <4> DEFINE m == 5 * Cardinality(BegunIn(acts, a0))
                 x == ActorX(a0)
      <4>1. m \in Int /\ x \in Int /\ acts[i].startx \in Int
        <5>1. m \in Int /\ x \in Int
          BY <1>2, <1>4
        <5>2. acts[i].startx \in Int
          BY <2>1, ActivationParts DEF D
        <5> QED
          BY <5>1, <5>2
      <4>2. acts[i].startx <= x + 65 + m /\ act.startx = x + 70 + m
        BY <2>2, <3>2
      <4> HIDE DEF m, x
      <4> QED
        BY <1>2, <4>1, <4>2
    <3> QED
      BY <2>1, <2>2, <3>1, <3>2
  <2>4. CASE j \in i + 1 .. D
    <3>1. more[j] = acts[j]
      BY <1>1, <2>1, <2>4
    <3> QED
      BY <2>1, <2>2, <2>4, <3>1
  <2> QED
    BY <1>1, <2>1, <2>3, <2>4
<1>7. Stacked(more, n - 1)
  BY <1>1, <1>5, <1>6, Zenon DEF Stacked
<1> QED
  BY <1>1, <1>3, <1>7 DEF more

\* The last activation of an actor ends: it has begun last.
LEMMA RemoveStacked ==
  ASSUME NEW acts \in Seq(ActivationType), NEW n, Stacked(acts, n), NEW i \in 1 .. Len(acts),
         \A j \in i + 1 .. Len(acts) : acts[j].actor # acts[i].actor
  PROVE  LET t == RemoveAt(acts, i)
         IN  /\ t \in Seq(ActivationType) /\ Stacked(t, n)
             /\ acts[i].begun \in BegunIn(acts, acts[i].actor)
             /\ \A x \in BegunIn(acts, acts[i].actor) : acts[i].begun <= x
             /\ \A a : BegunIn(t, a) = IF a = acts[i].actor
                                       THEN BegunIn(acts, a) \ {acts[i].begun}
                                       ELSE BegunIn(acts, a)
<1> DEFINE t == RemoveAt(acts, i)
           D == Len(acts)
           a0 == acts[i].actor
           Old(k) == IF k < i THEN k ELSE k + 1
<1>1. /\ t \in Seq(ActivationType) /\ Len(t) = D - 1 /\ D \in Nat /\ i \in Nat
      /\ DOMAIN t = 1 .. (D - 1) /\ DOMAIN acts = 1 .. D
  <2>1. t \in Seq(ActivationType) /\ Len(t) = D - 1
    BY RemoveAtList
  <2> QED
    BY <2>1
<1>2. ASSUME NEW k \in 1 .. D - 1  PROVE Old(k) \in 1 .. D /\ Old(k) # i /\ t[k] = acts[Old(k)]
  <2>1. t[k] = IF k < i THEN acts[k] ELSE acts[k + 1]
    BY RemoveAtList
  <2> HIDE DEF t, D
  <2>2. CASE k < i
    <3>1. Old(k) = k /\ k \in 1 .. D /\ k # i
      BY <1>1, <2>2
    <3> HIDE DEF Old
    <3> QED
      BY <2>1, <2>2, <3>1
  <2>3. CASE ~(k < i)
    <3>1. Old(k) = k + 1
      BY <2>3
    <3>2. k + 1 \in 1 .. D /\ k + 1 # i
      BY <1>1, <2>3
    <3> HIDE DEF Old
    <3>3. t[k] = acts[k + 1]
      BY <2>1, <2>3
    <3> QED
      BY <3>1, <3>2, <3>3
  <2> QED
    BY <2>2, <2>3
<1>3. ASSUME NEW p \in 1 .. D, p # i  PROVE \E k \in 1 .. D - 1 : Old(k) = p
  <2>1. CASE p < i
    <3>1. p \in 1 .. D - 1 /\ Old(p) = p
      BY <1>1, <2>1
    <3> HIDE DEF Old
    <3> QED
      BY <3>1
  <2>2. CASE p > i
    <3>1. p - 1 \in 1 .. D - 1 /\ Old(p - 1) = p
      BY <1>1, <2>2
    <3> HIDE DEF Old
    <3> QED
      BY <3>1
  <2> QED
    BY <1>1, <1>3, <2>1, <2>2
<1>4. ASSUME NEW k \in 1 .. D - 1, NEW m \in k + 1 .. D - 1
      PROVE  Old(m) \in Old(k) + 1 .. D
  BY <1>1
<1> HIDE DEF t, Old, D
<1>5. ASSUME NEW k \in 1 .. D
      PROVE  /\ acts[k].begun \in Nat /\ acts[k].startx \in Int /\ acts[k].actor \in Actor
             /\ n < acts[k].begun /\ acts[k].stopx = acts[k].startx + 10
             /\ ActorX(acts[k].actor) + 70 <= acts[k].startx
             /\ acts[k].startx
                  <= ActorX(acts[k].actor) + 65 + 5 * Cardinality(BegunIn(acts, acts[k].actor))
             /\ \A j \in k + 1 .. D :
                  /\ acts[j].begun < acts[k].begun
                  /\ acts[j].actor = acts[k].actor => acts[k].startx + 5 <= acts[j].startx
  BY ActivationParts, Zenon DEF Stacked, D
<1>6. ASSUME NEW p \in 1 .. D, p # i  PROVE acts[p].begun # acts[i].begun
  <2>1. p \in i + 1 .. D \/ i \in p + 1 .. D
    BY <1>1, <1>6
  <2> QED
    BY <1>1, <1>5, <2>1 DEF D
<1>7. ASSUME NEW p \in 1 .. D, acts[p].actor = a0  PROVE p = i \/ i \in p + 1 .. D
  <2>1. p \notin i + 1 .. D
    BY <1>7 DEF D
  <2> QED
    BY <1>1, <2>1
<1>8. ASSUME NEW a, NEW x
      PROVE  /\ x \in BegunIn(acts, a)
                <=> \E p \in 1 .. D : acts[p].actor = a /\ x = acts[p].begun
             /\ x \in BegunIn(t, a)
                <=> \E k \in 1 .. D - 1 : t[k].actor = a /\ x = t[k].begun
  BY <1>1, Zenon DEF BegunIn
<1>9. ASSUME NEW a, NEW x
      PROVE  x \in BegunIn(t, a)
                <=> \E p \in 1 .. D : p # i /\ acts[p].actor = a /\ x = acts[p].begun
  <2>1. ASSUME NEW k \in 1 .. D - 1, t[k].actor = a, x = t[k].begun
        PROVE  \E p \in 1 .. D : p # i /\ acts[p].actor = a /\ x = acts[p].begun
    BY <1>2, <2>1
  <2>2. ASSUME NEW p \in 1 .. D, p # i, acts[p].actor = a, x = acts[p].begun
        PROVE  \E k \in 1 .. D - 1 : t[k].actor = a /\ x = t[k].begun
    <3>1. PICK k \in 1 .. D - 1 : Old(k) = p
      BY <1>3, <2>2
    <3>2. t[k] = acts[p]
      BY <1>2, <3>1
    <3> QED
      BY <2>2, <3>2
  <2> QED
    BY <1>8, <2>1, <2>2
<1>10. i \in 1 .. D
  BY DEF D
<1>11. ASSUME NEW a
       PROVE  BegunIn(t, a) = IF a = a0 THEN BegunIn(acts, a) \ {acts[i].begun}
                              ELSE BegunIn(acts, a)
  <2>1. CASE a = a0
    <3>1. ASSUME NEW x
          PROVE  x \in BegunIn(t, a) <=> x \in BegunIn(acts, a) /\ x # acts[i].begun
      <4>1. ASSUME NEW p \in 1 .. D  PROVE acts[p].begun # acts[i].begun <=> p # i
        BY <1>6
      <4>2. ASSUME x \in BegunIn(t, a)
            PROVE  x \in BegunIn(acts, a) /\ x # acts[i].begun
        <5>1. PICK p \in 1 .. D : p # i /\ acts[p].actor = a /\ x = acts[p].begun
          BY <1>9, <4>2
        <5> QED
          BY <1>8, <4>1, <5>1
      <4>3. ASSUME x \in BegunIn(acts, a), x # acts[i].begun
            PROVE  x \in BegunIn(t, a)
        <5>1. PICK p \in 1 .. D : acts[p].actor = a /\ x = acts[p].begun
          BY <1>8, <4>3
        <5> QED
          BY <1>9, <4>1, <4>3, <5>1
      <4> QED
        BY <4>2, <4>3
    <3>2. BegunIn(t, a) = BegunIn(acts, a) \ {acts[i].begun}
      BY <3>1
    <3> QED
      BY <2>1, <3>2
  <2>2. CASE a # a0
    <3>1. ASSUME NEW x  PROVE x \in BegunIn(t, a) <=> x \in BegunIn(acts, a)
      <4>1. ASSUME NEW p \in 1 .. D, acts[p].actor = a  PROVE p # i
        BY <2>2, <4>1
      <4> QED
        BY <1>8, <1>9, <4>1
    <3>2. BegunIn(t, a) = BegunIn(acts, a)
      BY <3>1, Zenon
    <3> QED
      BY <2>2, <3>2
  <2> QED
    BY <2>1, <2>2
<1>12. /\ acts[i].begun \in BegunIn(acts, a0)
       /\ \A x \in BegunIn(acts, a0) : acts[i].begun <= x
  <2>1. acts[i].begun \in BegunIn(acts, a0)
    BY <1>8, <1>10
  <2>2. ASSUME NEW x \in BegunIn(acts, a0)  PROVE acts[i].begun <= x
    <3>1. PICK p \in 1 .. D : acts[p].actor = a0 /\ x = acts[p].begun
      BY <1>8
    <3>2. acts[p].begun \in Nat /\ acts[i].begun \in Nat
      BY <1>5, <1>10
    <3>3. CASE p = i
      BY <3>1, <3>2, <3>3
    <3>4. CASE i \in p + 1 .. D
      <4>1. acts[i].begun < acts[p].begun
        BY <1>5, <3>4
      <4> QED
        BY <3>1, <3>2, <4>1
    <3> QED
      BY <1>7, <3>1, <3>3, <3>4
  <2> QED
    BY <2>1, <2>2
<1>13. ASSUME NEW k \in 1 .. D - 1
       PROVE  t[k].startx
                <= ActorX(t[k].actor) + 65 + 5 * Cardinality(BegunIn(t, t[k].actor))
  <2> DEFINE p == Old(k)
             a == acts[p].actor
             card == Cardinality(BegunIn(acts, a))
             x == ActorX(a)
  <2>1. p \in 1 .. D /\ p # i /\ t[k] = acts[p]
    BY <1>2
  <2>2. /\ acts[p].startx \in Int /\ a \in Actor
        /\ acts[p].startx <= x + 65 + 5 * card
    BY <1>5, <2>1
  <2>3. card \in Nat /\ x \in Int /\ IsFiniteSet(BegunIn(acts, a))
    BY <2>2, ActorXIsInt, CountActivations, FS_CardinalityType
  <2>4. CASE a = a0
    <3>1. i \in p + 1 .. D
      BY <1>7, <2>1, <2>4
    <3>2. acts[p].startx + 5 <= acts[i].startx
      BY <1>5, <2>1, <2>4, <3>1
    <3>3. acts[i].startx <= x + 65 + 5 * card /\ acts[i].startx \in Int
      BY <1>5, <1>10, <2>4
    <3>4. Cardinality(BegunIn(t, a)) = card - 1
      <4>1. Cardinality(BegunIn(acts, a) \ {acts[i].begun}) = card - 1
        BY <1>12, <2>3, <2>4, FS_RemoveElement
      <4> QED
        BY <1>11, <2>4, <4>1
    <3> HIDE DEF card, x, p
    <3>5. acts[p].startx <= x + 65 + 5 * (card - 1)
      BY <2>2, <2>3, <3>2, <3>3
    <3> QED
      BY <2>1, <3>4, <3>5 DEF x
  <2>5. CASE a # a0
    <3>1. BegunIn(t, a) = BegunIn(acts, a)
      BY <1>11, <2>5
    <3> QED
      BY <2>1, <2>2, <3>1
  <2> QED
    BY <2>4, <2>5
<1>14. ASSUME NEW k \in 1 .. D - 1
       PROVE  /\ n < t[k].begun /\ t[k].stopx = t[k].startx + 10
              /\ ActorX(t[k].actor) + 70 <= t[k].startx
              /\ \A m \in k + 1 .. D - 1 :
                   /\ t[m].begun < t[k].begun
                   /\ t[m].actor = t[k].actor => t[k].startx + 5 <= t[m].startx
  <2>1. Old(k) \in 1 .. D /\ t[k] = acts[Old(k)]
    BY <1>2
  <2>2. ASSUME NEW m \in k + 1 .. D - 1
        PROVE  /\ t[m].begun < t[k].begun
               /\ t[m].actor = t[k].actor => t[k].startx + 5 <= t[m].startx
    <3>1. m \in 1 .. D - 1
      BY <1>1
    <3>2. t[m] = acts[Old(m)] /\ Old(m) \in Old(k) + 1 .. D
      BY <1>2, <1>4, <3>1
    <3> QED
      BY <1>5, <2>1, <3>2, Zenon
  <2>3. /\ n < t[k].begun /\ t[k].stopx = t[k].startx + 10
        /\ ActorX(t[k].actor) + 70 <= t[k].startx
    BY <1>5, <2>1, Zenon
  <2> QED
    BY <2>2, <2>3
<1>15. Stacked(t, n)
  BY <1>1, <1>13, <1>14, Zenon DEF Stacked
<1> QED
  BY <1>1, <1>11, <1>12, <1>15 DEF t

-----------------------------------------------------------------------------
(* Messages.                                                               *)

\* Where an actor ends on either side, its activations included.
LEMMA FlowIsBetween ==
  ASSUME NEW n, bounds \in BoundsType, Stacked(bounds.activations, n), NEW a \in Actor
  PROVE  LET f == FlowBounds(a)
             x == ActorX(a)
         IN  /\ f.left \in Int /\ f.right \in Int
             /\ x + 70 <= f.left /\ f.left <= x + 75 /\ x + 75 <= f.right
             /\ f.right <= x + 75 + 5 * Cardinality(ActorActivations(a))
<1> DEFINE acts == bounds.activations
           P == ActorActivations(a)
           x == ActorX(a)
           card == Cardinality(P)
           line == ActorX(a) + Width \div 2
           mine == {acts[i] : i \in P}
           L == {line} \cup {act.startx : act \in mine}
           R == {line} \cup {act.stopx : act \in mine}
<1>1. acts \in Seq(ActivationType)
  BY DEF BoundsType
<1>2. P = {i \in DOMAIN acts : acts[i].actor = a}
  BY DEF ActorActivations
<1>3. card \in Nat /\ Cardinality(BegunIn(acts, a)) = card
  BY <1>1, <1>2, CountActivations
<1>4. x \in Int /\ 0 <= x /\ line = x + 75
  BY DEF Actor, ActorX, Width, ActorMargin
<1>5. ASSUME NEW act \in mine
      PROVE  /\ act.startx \in Int /\ act.stopx = act.startx + 10
             /\ x + 70 <= act.startx /\ act.startx <= x + 65 + 5 * card
  <2>1. PICK i \in P : act = acts[i]
    OBVIOUS
  <2>2. i \in 1 .. Len(acts) /\ acts[i].actor = a
    BY <1>1, <1>2
  <2>3. acts[i].startx \in Int
    BY <1>1, <2>2, ActivationParts
  <2> HIDE DEF acts, mine, P
  <2> QED
    BY <1>3, <2>1, <2>2, <2>3 DEF Stacked, acts
<1> HIDE DEF acts, P, mine, card, x
<1>6. \A y \in L : y \in Nat /\ x + 70 <= y
  BY <1>4, <1>5
<1>7. \A y \in R : y \in Nat /\ y <= x + 75 + 5 * card
  BY <1>3, <1>4, <1>5
<1>8. line \in L /\ line \in R
  OBVIOUS
<1> HIDE DEF L, R, line
<1>9. Min(L) \in L /\ Min(L) <= line
  <2>1. L \in SUBSET Nat /\ L # {}
    BY <1>6, <1>8
  <2> QED
    BY <1>8, <2>1, LeastElement
<1>10. Max(R) \in R /\ line <= Max(R)
  <2>1. R \in SUBSET Nat /\ R # {}
    BY <1>7, <1>8
  <2>2. x + 75 + 5 * card \in Nat
    BY <1>3, <1>4
  <2> QED
    BY <1>7, <1>8, <2>1, <2>2, GreatestElement
<1>11. FlowBounds(a).left = Min(L) /\ FlowBounds(a).right = Max(R)
  BY DEF FlowBounds, L, R, line, mine, P, acts
<1> QED
  BY <1>4, <1>6, <1>7, <1>9, <1>10, <1>11 DEF x, card, P

\* The first actor is to the left of the second.
LEMMA ActorsApart ==
  ASSUME NEW a \in Actor, NEW c \in Actor, a < c
  PROVE  ActorX(a) + 200 <= ActorX(c)
BY DEF Actor, ActorX, Width, ActorMargin

\* Where a message begins and where it ends.
MessageStart(f, t) == IF f.left <= t.left THEN f.right ELSE f.left
MessageStop(f, t) == IF f.left < t.left THEN t.left ELSE t.right

LEMMA MessageMeets ==
  ASSUME NEW n, bounds \in BoundsType, Stacked(bounds.activations, n),
         NEW from \in Actor, NEW to \in Actor,
         \A a \in Actor : Cardinality(ActorActivations(a)) <= MaxStacked
  PROVE  LET startx == MessageStart(FlowBounds(from), FlowBounds(to))
             stopx == MessageStop(FlowBounds(from), FlowBounds(to))
         IN  IF from = to THEN startx = stopx ELSE startx < stopx <=> from < to
<1> DEFINE f == FlowBounds(from)
           t == FlowBounds(to)
<1>1. from \in Int /\ to \in Int
  BY DEF Actor
<1>2. ASSUME NEW a \in Actor
      PROVE  /\ ActorX(a) \in Int
             /\ FlowBounds(a).left \in Int /\ FlowBounds(a).right \in Int
             /\ ActorX(a) + 70 <= FlowBounds(a).left
             /\ FlowBounds(a).left <= ActorX(a) + 75
             /\ FlowBounds(a).right <= ActorX(a) + 265
  <2> DEFINE card == Cardinality(ActorActivations(a))
  <2>1. card \in Nat /\ card <= 38
    <3>1. bounds.activations \in Seq(ActivationType)
      BY DEF BoundsType
    <3> QED
      BY <3>1, CountActivations DEF ActorActivations, MaxStacked
  <2>2. /\ FlowBounds(a).left \in Int /\ FlowBounds(a).right \in Int
        /\ ActorX(a) + 70 <= FlowBounds(a).left
        /\ FlowBounds(a).left <= ActorX(a) + 75
        /\ FlowBounds(a).right <= ActorX(a) + 75 + 5 * card
    BY FlowIsBetween
  <2> HIDE DEF card
  <2> QED
    BY <2>1, <2>2, ActorXIsInt
<1> HIDE DEF f, t
<1>3. CASE from = to
  BY <1>2, <1>3 DEF MessageStart, MessageStop
<1>4. CASE from < to
  <2>1. ActorX(from) + 200 <= ActorX(to)
    BY <1>4, ActorsApart
  <2>2. f.left < t.left /\ f.right < t.left
    BY <1>2, <2>1 DEF f, t
  <2>3. f.left \in Int /\ t.left \in Int
    BY <1>2 DEF f, t
  <2>4. MessageStart(f, t) = f.right /\ MessageStop(f, t) = t.left
    BY <2>2, <2>3 DEF MessageStart, MessageStop
  <2> QED
    BY <1>1, <1>4, <2>2, <2>4 DEF f, t
<1>5. CASE to < from
  <2>1. ActorX(to) + 200 <= ActorX(from)
    BY <1>5, ActorsApart
  <2>2. t.left < f.left /\ t.right < f.left
    BY <1>2, <2>1 DEF f, t
  <2>3. f.left \in Int /\ t.left \in Int /\ t.right \in Int
    BY <1>2 DEF f, t
  <2>4. MessageStart(f, t) = f.left /\ MessageStop(f, t) = t.right
    BY <2>2, <2>3 DEF MessageStart, MessageStop
  <2>5. ~(f.left < t.right)
    BY <2>2, <2>3
  <2> QED
    BY <1>1, <1>5, <2>4, <2>5 DEF f, t
<1> QED
  BY <1>1, <1>3, <1>4, <1>5

-----------------------------------------------------------------------------
(* What the signals make of the bounds: how far down they have come, v, and*)
(* that no activation has begun or ended.                                  *)

Grown(b, w, c, v, acts) ==
  /\ BoundsRight(b, w, c) /\ v \in Int /\ b.verticalPos = v
  /\ SameStacks(acts, b.activations)

LEMMA GrownLaid ==
  ASSUME NEW b, NEW v, NEW w, NEW c, NEW acts, Grown(b, w, c, v, acts), w <= v, c <= v + 12
  PROVE  Laid(b)
<1>1. w \in Int /\ c \in Int /\ v \in Int /\ v + 12 \in Int
  BY DEF Grown, BoundsRight
<1>2. BoundsRight(b, v, v + 12)
  BY <1>1, RaiseRight DEF Grown
<1> QED
  BY <1>2 DEF Laid, Grown

LEMMA LaidGrown ==
  ASSUME NEW b, Laid(b)
  PROVE  /\ b \in BoundsType /\ b.verticalPos \in Int /\ b.activations \in Seq(ActivationType)
         /\ Grown(b, b.verticalPos, b.verticalPos + 12, b.verticalPos, b.activations)
<1>1. b \in BoundsType
  BY DEF Laid, BoundsRight
<1>2. b.verticalPos \in Int /\ b.activations \in Seq(ActivationType)
  BY <1>1 DEF BoundsType
<1> QED
  BY <1>1, <1>2 DEF Laid, Grown, SameStacks

LEMMA RaiseGrows ==
  ASSUME NEW b, NEW w, NEW c, NEW v, NEW acts, Grown(b, w, c, v, acts),
         NEW y \in Int, NEW h \in Int, w <= y, c <= h
  PROVE  Grown(b, y, h, v, acts)
BY RaiseRight DEF Grown

LEMMA BumpGrows ==
  ASSUME NEW b, NEW w, NEW c, NEW v, NEW acts, Grown(b, w, c, v, acts), NEW n \in Int
  PROVE  /\ Grown(BumpVerticalPos(b, n), w, c, v + n, acts)
         /\ BumpVerticalPos(b, n).sequenceItems = b.sequenceItems
         /\ BumpVerticalPos(b, n).placed = b.placed
<1> DEFINE e == BumpVerticalPos(b, n)
<1>1. b \in BoundsType /\ v \in Int
  BY DEF Grown, BoundsRight
<1>2. /\ e.verticalPos = b.verticalPos + n /\ e.sequenceItems = b.sequenceItems
      /\ e.placed = b.placed /\ e.activations = b.activations
  BY <1>1, BumpKeeps
<1>3. BoundsRight(e, w, c)
  BY BumpRight DEF Grown
<1> HIDE DEF e
<1> QED
  BY <1>1, <1>2, <1>3 DEF Grown, e

LEMMA InsertGrows ==
  ASSUME NEW b, NEW w, NEW c, NEW v, NEW acts, Grown(b, w, c, v, acts),
         NEW startx \in Int, NEW starty \in Int, NEW stopx \in Int, NEW stopy \in Int,
         w - 10 <= starty, w - 10 <= stopy, starty <= c, stopy <= c
  PROVE  Grown(Insert(b, startx, starty, stopx, stopy), w, c, v, acts)
<1> DEFINE e == Insert(b, startx, starty, stopx, stopy)
<1>1. b \in BoundsType
  BY DEF Grown, BoundsRight
<1>2. BoundsRight(e, w, c)
  BY InsertRight DEF Grown
<1>3. e.verticalPos = b.verticalPos /\ SameStacks(b.activations, e.activations)
  BY <1>1, InsertParts DEF Inserted
<1> HIDE DEF e
<1>4. SameStacks(acts, e.activations)
  BY <1>3 DEF Grown, SameStacks
<1> QED
  BY <1>2, <1>3, <1>4 DEF Grown, e

LEMMA InitialLaid == Laid(InitialBounds) /\ InitialBounds.activations = << >>
<1> DEFINE b == InitialBounds
<1>1. /\ b.data \in BoxType /\ b.data.starty = 0 /\ b.verticalPos = 65
      /\ b.sequenceItems = << >> /\ b.activations = << >> /\ b.placed = << >>
      /\ b \in BoundsType
  BY RowIsWide DEF InitialBounds, BoundsType, BoxType, Height
<1> HIDE DEF b
<1>2. Len(b.sequenceItems) = 0 /\ Len(b.placed) = 0
  BY <1>1
<1>3. BoundsRight(b, 65, 77)
  BY <1>1, <1>2 DEF BoundsRight, DataHolds, LoopsNest, LoopsHold, SectionsHold
<1> QED
  BY <1>1, <1>3 DEF Laid, b

\* A message, drawn as an arc of height 30 or as a line.
LEMMA MessageLaid ==
  ASSUME NEW from \in Actor, NEW to \in Actor, NEW n,
         Laid(bounds), Stacked(bounds.activations, n), Message(from, to)
  PROVE  Laid(bounds') /\ SameStacks(bounds.activations, bounds.activations')
<1> DEFINE f == FlowBounds(from)
           t == FlowBounds(to)
           startx == MessageStart(f, t)
           stopx == MessageStop(f, t)
           left == Lesser(f.left, t.left)
           right == Greater(f.right, t.right)
           v == bounds.verticalPos
           acts == bounds.activations
           b == BumpVerticalPos(bounds, 35)
           arc == BumpVerticalPos(b, 30)
           curve == Insert(arc, startx - 100, arc.verticalPos - 10, stopx + 100, arc.verticalPos)
           line == Insert(b, startx, b.verticalPos - 10, stopx, b.verticalPos)
           drawn == IF startx = stopx THEN curve ELSE line
           e == Insert(drawn, left, b.verticalPos, right, b.verticalPos)
<1>1. bounds' = e
  BY Zenon DEF Message, MessageMargin, MessageStart, MessageStop
<1>2. /\ v \in Int /\ Grown(bounds, v, v + 12, v, acts) /\ bounds \in BoundsType
  BY LaidGrown
<1>3. f.left \in Int /\ f.right \in Int /\ t.left \in Int /\ t.right \in Int
  BY <1>2, FlowIsBetween
<1>4. startx \in Int /\ stopx \in Int /\ left \in Int /\ right \in Int
  BY <1>3 DEF MessageStart, MessageStop, Lesser, Greater
<1>5. startx - 100 \in Int /\ stopx + 100 \in Int
  BY <1>4
<1> HIDE DEF f, t, startx, stopx, left, right, v, acts
<1>6. Grown(b, v, v + 12, v + 35, acts)
  BY <1>2, BumpGrows
<1> HIDE DEF b
<1>7. b.verticalPos = v + 35
  BY <1>6 DEF Grown
<1>8. CASE startx = stopx
  <2>1. Grown(arc, v, v + 12, v + 65, acts)
    <3>1. Grown(arc, v, v + 12, v + 35 + 30, acts)
      BY <1>6, BumpGrows
    <3>2. v + 35 + 30 = v + 65
      BY <1>2
    <3> QED
      BY <3>1, <3>2
  <2> HIDE DEF arc
  <2>2. arc.verticalPos = v + 65
    BY <2>1 DEF Grown
  <2>3. Grown(arc, v + 35, v + 65, v + 65, acts)
    BY <1>2, <2>1, RaiseGrows
  <2>4. Grown(curve, v + 35, v + 65, v + 65, acts)
    <3> DEFINE w == v + 35
               c == v + 65
               x == startx - 100
               u == stopx + 100
               z == arc.verticalPos - 10
               y == arc.verticalPos
    <3>1. Grown(arc, w, c, c, acts)
      BY <2>3
    <3>2. x \in Int /\ u \in Int /\ y \in Int /\ z \in Int
      BY <1>2, <1>5, <2>2
    <3>3. w - 10 <= z /\ w - 10 <= y /\ z <= c /\ y <= c
      BY <1>2, <2>2
    <3> HIDE DEF w, c, x, u, z, y
    <3>4. Grown(Insert(arc, x, z, u, y), w, c, c, acts)
      BY <3>1, <3>2, <3>3, InsertGrows
    <3> QED
      BY <3>4 DEF w, c, x, u, z, y
  <2>5. drawn = curve
    BY <1>8
  <2> HIDE DEF drawn, curve
  <2>6. Grown(e, v + 35, v + 65, v + 65, acts)
    <3>1. v + 35 \in Int /\ v + 35 - 10 <= v + 35 /\ v + 35 <= v + 65
      BY <1>2
    <3> QED
      BY <1>4, <1>7, <2>4, <2>5, <3>1, InsertGrows
  <2> HIDE DEF e
  <2>7. Laid(e)
    <3>1. v + 35 <= v + 65 /\ v + 65 <= v + 65 + 12
      BY <1>2
    <3> QED
      BY <2>6, <3>1, GrownLaid, Zenon
  <2> QED
    BY <1>1, <2>6, <2>7 DEF Grown, acts
<1>9. CASE startx # stopx
  <2>1. Grown(b, v + 35, v + 35, v + 35, acts)
    BY <1>2, <1>6, RaiseGrows
  <2>2. Grown(line, v + 35, v + 35, v + 35, acts)
    <3>1. /\ v + 35 \in Int /\ v + 35 - 10 \in Int
          /\ v + 35 - 10 <= v + 35 - 10 /\ v + 35 - 10 <= v + 35 /\ v + 35 <= v + 35
      BY <1>2
    <3> QED
      BY <1>4, <1>7, <2>1, <3>1, InsertGrows
  <2>3. drawn = line
    BY <1>9
  <2> HIDE DEF drawn, line
  <2>4. Grown(e, v + 35, v + 35, v + 35, acts)
    <3>1. v + 35 \in Int /\ v + 35 - 10 <= v + 35 /\ v + 35 <= v + 35
      BY <1>2
    <3> QED
      BY <1>4, <1>7, <2>2, <2>3, <3>1, InsertGrows
  <2> HIDE DEF e
  <2>5. Laid(e)
    <3>1. v + 35 <= v + 35 /\ v + 35 <= v + 35 + 12
      BY <1>2
    <3> QED
      BY <2>4, <3>1, GrownLaid, Zenon
  <2> QED
    BY <1>1, <2>4, <2>5 DEF Grown, acts
<1> QED
  BY <1>8, <1>9

LEMMA NoteLaid ==
  ASSUME NEW x \in Int, NEW width \in Int, Laid(bounds), DrawNote(x, width)
  PROVE  Laid(bounds') /\ SameStacks(bounds.activations, bounds.activations')
<1> DEFINE v == bounds.verticalPos
           acts == bounds.activations
           b == BumpVerticalPos(bounds, 10)
           put == Insert(b, x, b.verticalPos, x + width, b.verticalPos + 35)
           e == BumpVerticalPos(put, 35)
<1>1. bounds' = e
  <2>1. 2 * 10 + 15 = 35
    OBVIOUS
  <2> QED
    BY <2>1 DEF DrawNote, BoxMargin, NoteMargin, TextHeight
<1>2. v \in Int /\ Grown(bounds, v, v + 12, v, acts)
  BY LaidGrown
<1> HIDE DEF v, acts
<1>3. Grown(b, v, v + 12, v + 10, acts)
  BY <1>2, BumpGrows
<1> HIDE DEF b
<1>4. b.verticalPos = v + 10
  BY <1>3 DEF Grown
<1>5. Grown(b, v + 10, v + 45, v + 10, acts)
  BY <1>2, <1>3, RaiseGrows
<1>6. Grown(put, v + 10, v + 45, v + 10, acts)
  <2>1. /\ v + 10 \in Int /\ v + 10 + 35 \in Int /\ x + width \in Int
        /\ v + 10 - 10 <= v + 10 /\ v + 10 - 10 <= v + 10 + 35
        /\ v + 10 <= v + 45 /\ v + 10 + 35 <= v + 45
    BY <1>2
  <2> QED
    BY <1>4, <1>5, <2>1, InsertGrows
<1> HIDE DEF put
<1>7. Grown(e, v + 10, v + 45, v + 10 + 35, acts)
  BY <1>6, BumpGrows
<1> HIDE DEF e
<1>8. Laid(e)
  <2>1. v + 10 <= v + 10 + 35 /\ v + 45 <= v + 10 + 35 + 12
    BY <1>2
  <2> QED
    BY <1>7, <2>1, GrownLaid, Zenon
<1> QED
  BY <1>1, <1>7, <1>8 DEF Grown, acts

LEMMA AnyNoteLaid ==
  ASSUME Laid(bounds), Note
  PROVE  Laid(bounds') /\ SameStacks(bounds.activations, bounds.activations')
<1>1. \A a \in Actor : ActorX(a) \in Int
  BY ActorXIsInt
<1>2. CASE \E a \in Actor, times \in {1, 2}, beside \in {-1, 0, 1} :
             DrawNote(ActorX(a) + beside * ((Width + ActorMargin) \div 2), times * Width)
  <2>1. PICK a \in Actor, times \in {1, 2}, beside \in {-1, 0, 1} :
               DrawNote(ActorX(a) + beside * ((Width + ActorMargin) \div 2), times * Width)
    BY <1>2
  <2> DEFINE x == ActorX(a) + beside * ((Width + ActorMargin) \div 2)
             width == times * Width
  <2>2. x \in Int /\ width \in Int
    BY <1>1 DEF Width, ActorMargin
  <2> HIDE DEF x, width
  <2> QED
    BY <2>1, <2>2, NoteLaid DEF x, width
<1>3. CASE \E a, c \in Actor :
             LET distance == Greater(ActorX(c) - ActorX(a), ActorX(a) - ActorX(c))
                 forceWidth == distance + ActorMargin
             IN  DrawNote((ActorX(a) + ActorX(c) + Width - forceWidth) \div 2, forceWidth)
  <2>1. PICK a \in Actor, c \in Actor :
             LET distance == Greater(ActorX(c) - ActorX(a), ActorX(a) - ActorX(c))
                 forceWidth == distance + ActorMargin
             IN  DrawNote((ActorX(a) + ActorX(c) + Width - forceWidth) \div 2, forceWidth)
    BY <1>3
  <2> DEFINE forceWidth == Greater(ActorX(c) - ActorX(a), ActorX(a) - ActorX(c)) + ActorMargin
             x == (ActorX(a) + ActorX(c) + Width - forceWidth) \div 2
  <2>2. forceWidth \in Int
    BY <1>1 DEF Greater, ActorMargin
  <2>3. x \in Int
    <3> DEFINE s == ActorX(a) + ActorX(c) + Width - forceWidth
    <3>1. s \in Int
      <4> HIDE DEF forceWidth
      <4> QED
        BY <1>1, <2>2 DEF Width
    <3> HIDE DEF s
    <3>2. s \div 2 \in Int
      BY <3>1
    <3> QED
      BY <3>2 DEF s
  <2> HIDE DEF forceWidth, x
  <2>4. DrawNote(x, forceWidth)
    BY <2>1 DEF x, forceWidth
  <2> QED
    BY <2>2, <2>3, <2>4, NoteLaid
<1> QED
  BY <1>2, <1>3, Zenon DEF Note

LEMMA LoopLaid ==
  ASSUME Laid(bounds), NewLoop
  PROVE  Laid(bounds') /\ SameStacks(bounds.activations, bounds.activations')
<1> DEFINE v == bounds.verticalPos
           acts == bounds.activations
           b == BumpVerticalPos(bounds, 10)
           y == b.verticalPos
           loop == [startx |-> 0, starty |-> y, stopx |-> 0, stopy |-> 0,
                    empty |-> TRUE, sections |-> << >>, since |-> Len(b.placed)]
           more == [b EXCEPT !.sequenceItems = Append(@, loop)]
           e == BumpVerticalPos(more, 15)
<1>1. bounds' = e
  <2>1. 10 + 5 = 15
    OBVIOUS
  <2> QED
    BY <2>1 DEF NewLoop, BoxMargin, BoxTextMargin
<1>2. v \in Int /\ Grown(bounds, v, v + 12, v, acts)
  BY LaidGrown
<1> HIDE DEF v, acts
<1>3. Grown(b, v, v + 12, v + 10, acts)
  BY <1>2, BumpGrows
<1> HIDE DEF b
<1>4. y = v + 10 /\ y \in Int /\ BoundsRight(b, v, v + 12) /\ SameStacks(acts, b.activations)
  BY <1>2, <1>3 DEF Grown
<1> HIDE DEF y
<1>5. /\ BoundsRight(more, y + 15, v + 12)
      /\ more.verticalPos = b.verticalPos /\ more.activations = b.activations
  BY <1>2, <1>4, NewLoopRight
<1> HIDE DEF more
<1>6. Grown(more, y + 15, v + 12, y, acts)
  BY <1>4, <1>5 DEF Grown, y
<1>7. Grown(e, y + 15, v + 12, y + 15, acts)
  BY <1>6, BumpGrows
<1> HIDE DEF e
<1>8. Laid(e)
  <2>1. y + 15 <= y + 15 /\ v + 12 <= y + 15 + 12
    BY <1>2, <1>4
  <2> QED
    BY <1>7, <2>1, GrownLaid
<1> QED
  BY <1>1, <1>7, <1>8 DEF Grown, acts

LEMMA SectionLaid ==
  ASSUME Laid(bounds), AddSection
  PROVE  Laid(bounds') /\ SameStacks(bounds.activations, bounds.activations')
<1> DEFINE v == bounds.verticalPos
           acts == bounds.activations
           b == BumpVerticalPos(bounds, 10)
           y == b.verticalPos
           section == [y |-> y, since |-> Len(b.placed)]
           more == [b EXCEPT
                      !.sequenceItems[Len(b.sequenceItems)].sections = Append(@, section)]
           e == BumpVerticalPos(more, 10)
<1>1. v \in Int /\ Grown(bounds, v, v + 12, v, acts)
  BY LaidGrown
<1>2. Grown(b, v, v + 12, v + 10, acts) /\ b.sequenceItems = bounds.sequenceItems
  <2>1. 10 \in Int
    OBVIOUS
  <2> QED
    BY <1>1, <2>1, BumpGrows, Zenon
<1>3. bounds' = e /\ b.sequenceItems # << >>
  <2>1. bounds' = e
    BY Zenon DEF AddSection, BoxMargin
  <2> HIDE DEF b, e
  <2> QED
    BY <1>2, <2>1 DEF AddSection
<1> HIDE DEF v, acts, b
<1>4. y = v + 10 /\ y \in Int /\ BoundsRight(b, v, v + 12) /\ SameStacks(acts, b.activations)
  BY <1>1, <1>2 DEF Grown
<1> HIDE DEF y
<1>5. v <= y
  BY <1>1, <1>4
<1>6. /\ BoundsRight(more, y + 10, v + 12)
      /\ more.verticalPos = b.verticalPos /\ more.activations = b.activations
  BY <1>3, <1>4, <1>5, AddSectionRight
<1> HIDE DEF more
<1>7. Grown(more, y + 10, v + 12, y, acts)
  BY <1>4, <1>6 DEF Grown, y
<1>8. Grown(e, y + 10, v + 12, y + 10, acts)
  BY <1>7, BumpGrows
<1> HIDE DEF e
<1>9. Laid(e)
  <2>1. y + 10 <= y + 10 /\ v + 12 <= y + 10 + 12
    BY <1>1, <1>4
  <2> QED
    BY <1>8, <2>1, GrownLaid
<1> QED
  BY <1>3, <1>8, <1>9 DEF Grown, acts

LEMMA EndLaid ==
  ASSUME Laid(bounds), EndLoop
  PROVE  Laid(bounds') /\ SameStacks(bounds.activations, bounds.activations')
<1> DEFINE v == bounds.verticalPos
           acts == bounds.activations
           loop == Last(bounds.sequenceItems)
           outer == [bounds EXCEPT !.sequenceItems = Front(@),
                       !.placed = IF loop.empty THEN @ ELSE Append(@, Sides(loop))]
           e == BumpVerticalPos(outer, 10)
<1>1. bounds' = e /\ bounds.sequenceItems # << >>
  BY DEF EndLoop, BoxMargin
<1>2. v \in Int /\ Grown(bounds, v, v + 12, v, acts) /\ BoundsRight(bounds, v, v + 12)
  BY LaidGrown DEF Laid
<1>3. /\ BoundsRight(outer, v, v + 12 + 10)
      /\ outer.verticalPos = bounds.verticalPos /\ outer.activations = bounds.activations
  BY <1>1, <1>2, EndLoopRight
<1> HIDE DEF outer
<1>4. Grown(outer, v, v + 12 + 10, v, acts)
  BY <1>2, <1>3 DEF Grown
<1> HIDE DEF v, acts
<1>5. Grown(e, v, v + 12 + 10, v + 10, acts)
  BY <1>4, BumpGrows
<1> HIDE DEF e
<1>6. Laid(e)
  <2>1. v <= v + 10 /\ v + 12 + 10 <= v + 10 + 12
    BY <1>2
  <2> QED
    BY <1>5, <2>1, GrownLaid
<1> QED
  BY <1>1, <1>5, <1>6 DEF Grown, acts

\* A loop that ends is around what is in it.
LEMMA EndedLoopHolds ==
  ASSUME Laid(bounds), EndLoop
  PROVE  LoopsContain'
<1> DEFINE loop == Last(bounds.sequenceItems)
           placed == bounds.placed
           Since(k) == SubSeq(placed, k + 1, Len(placed))
<1>1. /\ \A box \in ToSet(Since(loop.since)) : Within(Spread(box, BoxMargin), loop)
      /\ \A n \in DOMAIN loop.sections : \A box \in ToSet(Since(loop.sections[n].since)) :
           loop.sections[n].y <= box.starty
  <2>1. BoundsRight(bounds, bounds.verticalPos, bounds.verticalPos + 12)
    BY DEF Laid
  <2>2. bounds.sequenceItems # << >>
    BY DEF EndLoop
  <2> QED
    BY <2>1, <2>2, InnermostHolds
<1>2. last' = [op |-> "end", loop |-> loop, inside |-> Since(loop.since),
               sinceSection |-> [i \in DOMAIN loop.sections |-> Since(loop.sections[i].since)]]
  BY DEF EndLoop
<1> HIDE DEF loop, Since
<1>3. /\ last'.loop = loop /\ last'.inside = Since(loop.since)
      /\ DOMAIN last'.sinceSection = DOMAIN loop.sections
      /\ \A i \in DOMAIN loop.sections :
           last'.sinceSection[i] = Since(loop.sections[i].since)
  BY <1>2
<1> QED
  BY <1>1, <1>3 DEF LoopsContain

-----------------------------------------------------------------------------
(* The invariant.                                                          *)

\* Those that have to be ended are the open ones, and none has begun later
\* than now.
DueRight ==
  /\ due \in [Actor -> SUBSET Nat]
  /\ \A a \in Actor : IsFiniteSet(due[a]) /\ \A x \in due[a] : budget < x
  /\ Stacked(bounds.activations, budget)
  /\ stray \/ \A a \in Actor : Begun(a) = due[a]
  /\ \A a \in Actor : Cardinality(Begun(a)) <= Cardinality(due[a])

SequenceInv ==
  /\ bounds \in BoundsType /\ budget \in Nat /\ stray \in BOOLEAN
  /\ Drawing => Laid(bounds)
  /\ DueRight /\ SequenceRight

LEMMA BegunIsIn ==
  /\ \A a : Begun(a) = BegunIn(bounds.activations, a)
  /\ \A a : Begun(a)' = BegunIn(bounds.activations', a)
BY DEF Begun, BegunIn, ActorActivations

LEMMA StackedFewer ==
  ASSUME NEW acts \in Seq(ActivationType), NEW n \in Int, NEW m \in Int, m <= n,
         Stacked(acts, n)
  PROVE  Stacked(acts, m)
<1>1. ASSUME NEW i \in 1 .. Len(acts)  PROVE m < acts[i].begun
  <2>1. n < acts[i].begun /\ acts[i].begun \in Nat
    BY ActivationParts DEF Stacked
  <2> QED
    BY <2>1
<1> QED
  BY <1>1, Zenon DEF Stacked

\* When no activation begins or ends.
LEMMA DueKept ==
  ASSUME SequenceInv, bounds' \in BoundsType, budget' \in Nat, budget' <= budget,
         SameStacks(bounds.activations, bounds.activations'), UNCHANGED <<due, stray>>
  PROVE  /\ DueRight'
         /\ \A a \in Actor : Cardinality(ActorActivations(a))' = Cardinality(ActorActivations(a))
<1> DEFINE acts == bounds.activations
           next == bounds.activations'
<1>1. /\ acts \in Seq(ActivationType) /\ next \in Seq(ActivationType)
      /\ Stacked(acts, budget) /\ budget \in Nat
  BY DEF SequenceInv, DueRight, BoundsType
<1>2. Stacked(next, budget) /\ \A a : BegunIn(next, a) = BegunIn(acts, a)
  BY <1>1, SameStacksRight
<1>3. Stacked(next, budget')
  BY <1>1, <1>2, StackedFewer
<1>4. \A a : Begun(a)' = Begun(a)
  BY <1>2, BegunIsIn
<1>5. \A a \in Actor : due[a] \in SUBSET Nat
  BY DEF SequenceInv, DueRight
<1>6. \A a \in Actor : \A x \in due[a] : budget' < x
  BY <1>1, <1>5 DEF SequenceInv, DueRight
<1>7. DueRight'
  BY <1>3, <1>4, <1>6 DEF SequenceInv, DueRight
<1>8. ASSUME NEW a \in Actor
      PROVE  Cardinality(ActorActivations(a))' = Cardinality(ActorActivations(a))
  <2>1. Cardinality(BegunIn(acts, a)) = Cardinality({i \in DOMAIN acts : acts[i].actor = a})
    BY <1>1, CountActivations
  <2>2. Cardinality(BegunIn(next, a)) = Cardinality({i \in DOMAIN next : next[i].actor = a})
    BY <1>1, <1>3, CountActivations
  <2> QED
    BY <1>2, <2>1, <2>2 DEF ActorActivations
<1> QED
  BY <1>7, <1>8

\* A signal that only draws.
LEMMA DrawnRight ==
  ASSUME SequenceInv, Laid(bounds'), budget' \in Nat, budget' <= budget,
         SameStacks(bounds.activations, bounds.activations'), UNCHANGED <<due, stray>>,
         LoopsContain', MessagesMeetSides', last'.op \notin {"threw", "deactivate", "picture"}
  PROVE  SequenceInv'
<1>1. bounds' \in BoundsType
  BY DEF Laid, BoundsRight
<1>2. DueRight'
  BY <1>1, DueKept
<1>3. EveryEndHasItsBegin'
  BY <1>2 DEF DueRight, EveryEndHasItsBegin
<1>4. PictureHoldsAll'
  BY DEF PictureHoldsAll
<1>5. SequenceRight'
  BY <1>3, <1>4 DEF SequenceRight
<1> QED
  BY <1>1, <1>2, <1>5 DEF SequenceInv

\* Every signal but the end of a loop is spent.
LEMMA SpendLeaves ==
  ASSUME SequenceInv, Spend
  PROVE  budget \in Nat \ {0} /\ budget' \in Nat /\ budget' = budget - 1 /\ budget' <= budget
BY DEF SequenceInv, Spend

LEMMA InitRight == SeqInit => SequenceInv
<1> SUFFICES ASSUME SeqInit  PROVE SequenceInv
  OBVIOUS
<1>1. /\ bounds = InitialBounds /\ budget = MaxSignals /\ stray = FALSE
      /\ due = [a \in Actor |-> {}] /\ last.op = "none"
  BY DEF SeqInit
<1>2. /\ Laid(bounds) /\ bounds \in BoundsType /\ bounds.activations = << >>
      /\ Len(bounds.activations) = 0
  BY <1>1, InitialLaid DEF Laid, BoundsRight
<1>3. \A a : Begun(a) = {}
  BY <1>2 DEF Begun, ActorActivations
<1>4. IsFiniteSet({}) /\ Cardinality({}) = 0
  BY FS_EmptySet
<1>5. DueRight
  <2>1. due \in [Actor -> SUBSET Nat] /\ \A a \in Actor : due[a] = {}
    BY <1>1
  <2>2. Stacked(bounds.activations, budget)
    BY <1>2 DEF Stacked
  <2>3. 0 <= 0
    OBVIOUS
  <2> QED
    BY <1>3, <1>4, <2>1, <2>2, <2>3 DEF DueRight
<1>6. SequenceRight
  BY <1>1, <1>5 DEF DueRight, SequenceRight, LoopsContain, EveryEndHasItsBegin,
       MessagesMeetSides, PictureHoldsAll
<1> QED
  BY <1>1, <1>2, <1>5, <1>6, SignalsAssumption DEF SequenceInv

LEMMA NextDiagramRight == ASSUME NextDiagram  PROVE SequenceInv'
<1>1. SeqInit'
  BY DEF NextDiagram, SeqInit
<1> QED
  BY <1>1, InitRight, PTL

LEMMA MessageRight ==
  ASSUME SequenceInv, NEW from \in Actor, NEW to \in Actor, Message(from, to)
  PROVE  SequenceInv'
<1>1. Laid(bounds) /\ Stacked(bounds.activations, budget) /\ bounds \in BoundsType
  BY DEF SequenceInv, DueRight, Message
<1>2. Laid(bounds') /\ SameStacks(bounds.activations, bounds.activations')
  BY <1>1, MessageLaid
<1>3. budget' \in Nat /\ budget' <= budget /\ UNCHANGED <<due, stray>>
  BY SpendLeaves DEF Message
<1>4. last' = [op |-> "message", from |-> from, to |-> to,
               startx |-> MessageStart(FlowBounds(from), FlowBounds(to)),
               stopx |-> MessageStop(FlowBounds(from), FlowBounds(to))]
  BY Zenon DEF Message, MessageStart, MessageStop
<1>5. MessagesMeetSides'
  <2> SUFFICES ASSUME \A a \in Actor : Cardinality(ActorActivations(a))' <= MaxStacked
               PROVE  IF last'.from = last'.to THEN last'.startx = last'.stopx
                      ELSE last'.startx < last'.stopx <=> last'.from < last'.to
    BY DEF MessagesMeetSides
  <2>1. bounds' \in BoundsType
    BY <1>2 DEF Laid, BoundsRight
  <2>2. \A a \in Actor : Cardinality(ActorActivations(a)) <= MaxStacked
    BY <1>2, <1>3, <2>1, DueKept
  <2> DEFINE startx == MessageStart(FlowBounds(from), FlowBounds(to))
             stopx == MessageStop(FlowBounds(from), FlowBounds(to))
  <2>3. IF from = to THEN startx = stopx ELSE startx < stopx <=> from < to
    BY <1>1, <2>2, MessageMeets
  <2> HIDE DEF startx, stopx
  <2>4. /\ last'.from = from /\ last'.to = to
        /\ last'.startx = startx /\ last'.stopx = stopx
    BY <1>4 DEF startx, stopx
  <2> QED
    BY <2>3, <2>4
<1>6. last'.op = "message"
  BY <1>4
<1>7. LoopsContain' /\ last'.op \notin {"threw", "deactivate", "picture"}
  BY <1>6 DEF LoopsContain
<1> QED
  BY <1>2, <1>3, <1>5, <1>7, DrawnRight

\* What the operations that draw no message leave in last.
LEMMA OpDrawn ==
  ASSUME Note \/ NewLoop \/ AddSection \/ EndLoop
  PROVE  last'.op \in {"note", "loop", "section", "end"}
<1>1. Note => last' = [op |-> "note"]
  BY DEF Note, DrawNote
<1>2. NewLoop => last' = [op |-> "loop"]
  BY DEF NewLoop
<1>3. AddSection => last' = [op |-> "section"]
  BY DEF AddSection
<1>4. EndLoop => last'.op = "end"
  BY DEF EndLoop
<1> QED
  BY <1>1, <1>2, <1>3, <1>4

LEMMA DrawRight ==
  ASSUME SequenceInv, Note \/ NewLoop \/ AddSection \/ EndLoop
  PROVE  SequenceInv'
<1>1. Laid(bounds) /\ budget \in Nat
  BY DEF SequenceInv, Note, DrawNote, NewLoop, AddSection, EndLoop
<1>2. Laid(bounds') /\ SameStacks(bounds.activations, bounds.activations')
  BY <1>1, AnyNoteLaid, LoopLaid, SectionLaid, EndLaid
<1>3. budget' \in Nat /\ budget' <= budget /\ UNCHANGED <<due, stray>>
  <2>1. CASE Spend
    BY <2>1, SpendLeaves DEF Note, DrawNote, NewLoop, AddSection, EndLoop
  <2>2. CASE EndLoop
    BY <1>1, <2>2 DEF EndLoop
  <2>3. Spend \/ EndLoop
    BY DEF Note, DrawNote, NewLoop, AddSection
  <2> QED
    BY <2>1, <2>2, <2>3
<1>4. last'.op \in {"note", "loop", "section", "end"}
  BY OpDrawn
<1>5. LoopsContain'
  <2>1. CASE EndLoop
    BY <1>1, <2>1, EndedLoopHolds
  <2>2. CASE last'.op # "end"
    BY <2>2 DEF LoopsContain
  <2> QED
    BY <2>1, <2>2 DEF Note, DrawNote, NewLoop, AddSection
<1>6. MessagesMeetSides' /\ last'.op \notin {"threw", "deactivate", "picture"}
  BY <1>4 DEF MessagesMeetSides
<1> QED
  BY <1>2, <1>3, <1>5, <1>6, DrawnRight

LEMMA ActivationRight ==
  ASSUME SequenceInv, NEW a \in Actor, NewActivation(a)
  PROVE  SequenceInv'
<1> DEFINE acts == bounds.activations
           card == Cardinality(ActorActivations(a))
           x == ActorX(a) + Width \div 2 + ((card - 1) * ActivationWidth) \div 2
           act == [startx |-> x, starty |-> bounds.verticalPos + 2,
                   stopx |-> x + ActivationWidth, actor |-> a, begun |-> budget]
           more == Append(acts, act)
<1>1. /\ Laid(bounds) /\ acts \in Seq(ActivationType) /\ bounds.verticalPos \in Int
      /\ Stacked(acts, budget) /\ due \in [Actor -> SUBSET Nat]
  BY DEF SequenceInv, DueRight, NewActivation, BoundsType
<1>2. budget \in Nat \ {0} /\ budget' \in Nat /\ budget' = budget - 1
  BY SpendLeaves DEF NewActivation
<1>3. /\ bounds' = [bounds EXCEPT !.activations = more]
      /\ due' = [due EXCEPT ![a] = @ \cup {budget}] /\ stray' = stray
      /\ last'.op = "activate"
  BY DEF NewActivation
<1>4. card \in Nat /\ card = Cardinality(BegunIn(acts, a))
  BY <1>1, CountActivations DEF ActorActivations
<1>5. x \in Int /\ x = ActorX(a) + 70 + 5 * card
  <2> HIDE DEF card
  <2>1. ActorX(a) \in Int
    BY ActorXIsInt
  <2>2. 150 \div 2 = 75 /\ ((card - 1) * 10) \div 2 = 5 * (card - 1)
    BY <1>4
  <2> QED
    BY <1>4, <2>1, <2>2 DEF Width, ActivationWidth
<1> HIDE DEF x, card
<1>6. /\ act \in ActivationType /\ act.begun = budget /\ act.stopx = act.startx + 10
      /\ act.startx = ActorX(act.actor) + 70 + 5 * Cardinality(BegunIn(acts, act.actor))
      /\ act.actor = a
  <2>1. bounds.verticalPos + 2 \in Int /\ x + ActivationWidth \in Int
    BY <1>1, <1>5 DEF ActivationWidth
  <2>2. act \in ActivationType
    BY <1>2, <1>5, <2>1 DEF ActivationType
  <2> QED
    BY <1>4, <1>5, <2>2 DEF ActivationWidth
<1> HIDE DEF act
<1>7. /\ more \in Seq(ActivationType) /\ Stacked(more, budget - 1)
      /\ \A c : BegunIn(more, c) =
                  IF c = a THEN BegunIn(acts, c) \cup {budget} ELSE BegunIn(acts, c)
  <2>1. /\ more \in Seq(ActivationType) /\ Stacked(more, budget - 1)
        /\ \A c : BegunIn(more, c) =
              IF c = act.actor THEN BegunIn(acts, c) \cup {budget} ELSE BegunIn(acts, c)
    <3> HIDE DEF acts
    <3> QED
      BY <1>1, <1>2, <1>6, AppendStacked
  <2> HIDE DEF more
  <2> QED
    BY <1>6, <2>1
<1> HIDE DEF more
<1>8. Laid(bounds') /\ bounds'.activations = more /\ bounds' \in BoundsType
  BY <1>1, <1>3, <1>7, ActivationsRight DEF Laid, BoundsRight
<1>9. /\ Begun(a)' = Begun(a) \cup {budget} /\ due'[a] = due[a] \cup {budget}
      /\ \A c \in Actor : c # a => Begun(c)' = Begun(c) /\ due'[c] = due[c]
      /\ due' \in [Actor -> SUBSET Nat]
  <2>1. /\ Begun(a)' = Begun(a) \cup {budget}
        /\ \A c \in Actor : c # a => Begun(c)' = Begun(c)
    BY <1>7, <1>8, BegunIsIn
  <2>2. /\ due'[a] = due[a] \cup {budget} /\ due' \in [Actor -> SUBSET Nat]
        /\ \A c \in Actor : c # a => due'[c] = due[c]
    BY <1>1, <1>2, <1>3
  <2> QED
    BY <2>1, <2>2
<1>10. \A c \in Actor : /\ IsFiniteSet(due[c]) /\ due[c] \in SUBSET Nat
                        /\ \A y \in due[c] : budget < y
                        /\ Cardinality(Begun(c)) <= Cardinality(due[c])
  BY <1>1 DEF SequenceInv, DueRight
<1>11. ASSUME NEW c \in Actor
       PROVE  /\ IsFiniteSet(due'[c]) /\ \A y \in due'[c] : budget' < y
              /\ Cardinality(Begun(c)') <= Cardinality(due'[c])
  <2>1. ASSUME NEW y \in due[c]  PROVE budget' < y
    BY <1>2, <1>10
  <2>2. CASE c # a
    BY <1>9, <1>10, <2>1, <2>2
  <2>3. CASE c = a
    <3>1. IsFiniteSet(Begun(a)) /\ Begun(a) \in SUBSET Nat
      BY <1>1, BegunIsIn, CountActivations
    <3>2. budget \notin due[a]
      BY <1>2, <1>10
    <3>3. /\ Cardinality(due[a] \cup {budget}) = Cardinality(due[a]) + 1
          /\ IsFiniteSet(due[a] \cup {budget}) /\ Cardinality(due[a]) \in Nat
      BY <1>10, <3>2, FS_AddElement, FS_CardinalityType
    <3>4. /\ Cardinality(Begun(a) \cup {budget}) <= Cardinality(Begun(a)) + 1
          /\ Cardinality(Begun(a) \cup {budget}) \in Nat /\ Cardinality(Begun(a)) \in Nat
      <4>1. Cardinality(Begun(a)) \in Nat
        BY <3>1, FS_CardinalityType
      <4>2. Cardinality(Begun(a) \cup {budget})
              = IF budget \in Begun(a) THEN Cardinality(Begun(a)) ELSE Cardinality(Begun(a)) + 1
        BY <3>1, FS_AddElement
      <4> QED
        BY <4>1, <4>2
    <3>5. Cardinality(Begun(a)') <= Cardinality(due'[a])
      BY <1>9, <1>10, <3>3, <3>4
    <3>6. \A y \in due[a] \cup {budget} : budget' < y
      BY <1>2, <2>1, <2>3
    <3> QED
      BY <1>9, <2>3, <3>3, <3>5, <3>6
  <2> QED
    BY <2>2, <2>3
<1>12. DueRight'
  <2>1. Stacked(bounds'.activations, budget')
    BY <1>2, <1>7, <1>8
  <2>2. stray' \/ \A c \in Actor : Begun(c)' = due'[c]
    <3>1. stray \/ \A c \in Actor : Begun(c) = due[c]
      BY DEF SequenceInv, DueRight
    <3> QED
      BY <1>3, <1>9, <3>1
  <2> QED
    BY <1>9, <1>11, <2>1, <2>2 DEF DueRight
<1>13. SequenceRight'
  BY <1>3, <1>12 DEF DueRight, SequenceRight, LoopsContain, EveryEndHasItsBegin,
       MessagesMeetSides, PictureHoldsAll
<1> QED
  BY <1>2, <1>3, <1>8, <1>12, <1>13 DEF SequenceInv

\* The picture, as far down as what is drawn last.
LEMMA PictureRight ==
  ASSUME SequenceInv, Picture
  PROVE  SequenceInv'
<1> DEFINE m == Mirrored
           data == Mirrored.data
           height == data.stopy - data.starty + 20 - 10 + 1
           view == Box(data.startx - 50, -10, data.stopx + 50, height - 10)
<1>1. Laid(bounds) /\ bounds.sequenceItems = << >> /\ bounds' = m
  BY DEF SequenceInv, Picture
<1>2. /\ m \in BoundsType /\ m.data.starty = 0
      /\ SameStacks(bounds.activations, m.activations)
      /\ \A k \in 1 .. Len(m.placed) :
           /\ m.data.startx <= m.placed[k].startx /\ m.placed[k].stopx <= m.data.stopx
           /\ 0 <= m.placed[k].starty /\ m.placed[k].stopy <= m.data.stopy
  BY <1>1, MirroredRight
<1>3. last' = [op |-> "picture", viewBox |-> view]
  <2>1. 2 * 10 = 20
    OBVIOUS
  <2> QED
    BY <2>1 DEF Picture, DiagramMarginX, DiagramMarginY, BoxMargin, BottomMarginAdj
<1>4. budget' \in Nat /\ budget' <= budget /\ UNCHANGED <<due, stray>>
  BY DEF SequenceInv, Picture
<1>5. DueRight'
  BY <1>1, <1>2, <1>4, DueKept
<1> HIDE DEF m
<1>6. data \in BoxType
  BY <1>2 DEF BoundsType, m
<1> HIDE DEF data
<1>7. /\ view.startx <= data.startx /\ view.starty <= 0
      /\ data.stopx <= view.stopx /\ data.stopy <= view.stopy
  <2>1. /\ data.startx \in Int /\ data.starty = 0 /\ data.stopx \in Int /\ data.stopy \in Int
    BY <1>2, <1>6 DEF BoxType, data, m
  <2>2. height - 10 = data.stopy + 1
    BY <2>1
  <2> DEFINE y == height - 10
             left == data.startx - 50
             right == data.stopx + 50
  <2>3. /\ left \in Int /\ right \in Int /\ y \in Int /\ -10 \in Int /\ -10 <= 0
        /\ left <= data.startx /\ data.stopx <= right /\ data.stopy <= y
    BY <2>1, <2>2
  <2> HIDE DEF y, left, right
  <2>4. view = Box(left, -10, right, y)
    BY DEF y, left, right
  <2> HIDE DEF view
  <2>5. view.startx <= left /\ view.starty <= -10 /\ right <= view.stopx /\ y <= view.stopy
    BY <2>3, <2>4 DEF Box, Lesser, Greater
  <2>6. view.startx \in Int /\ view.starty \in Int /\ view.stopx \in Int /\ view.stopy \in Int
    BY <2>3, <2>4, BoxIsABox DEF BoxType
  <2> QED
    BY <2>1, <2>3, <2>5, <2>6
<1>8. view \in BoxType
  <2>1. data.startx \in Int /\ data.starty \in Int /\ data.stopx \in Int /\ data.stopy \in Int
    BY <1>6 DEF BoxType
  <2>2. data.startx - 50 \in Int /\ data.stopx + 50 \in Int /\ height - 10 \in Int /\ -10 \in Int
    BY <2>1
  <2> QED
    BY <2>2, BoxIsABox
<1> HIDE DEF view
<1>9. ASSUME NEW box \in ToSet(m.placed)  PROVE Within(box, view)
  <2>1. m.placed \in Seq(BoxType)
    BY <1>2 DEF BoundsType
  <2>2. PICK k \in 1 .. Len(m.placed) : box = m.placed[k]
    BY <2>1 DEF ToSet
  <2>3. /\ data.startx <= box.startx /\ box.stopx <= data.stopx
        /\ 0 <= box.starty /\ box.stopy <= data.stopy
    BY <1>2, <2>2 DEF data, m
  <2>4. m.placed[k] \in BoxType
    BY <2>1
  <2>5. /\ box.startx \in Int /\ box.starty \in Int /\ box.stopx \in Int /\ box.stopy \in Int
        /\ data.startx \in Int /\ data.stopx \in Int /\ data.stopy \in Int
        /\ view.startx \in Int /\ view.starty \in Int /\ view.stopx \in Int /\ view.stopy \in Int
    BY <1>6, <1>8, <2>2, <2>4 DEF BoxType
  <2>6. view.startx <= box.startx
    BY <1>7, <2>3, <2>5
  <2>7. view.starty <= box.starty
    BY <1>7, <2>3, <2>5
  <2>8. box.stopx <= view.stopx
    BY <1>7, <2>3, <2>5
  <2>9. box.stopy <= view.stopy
    BY <1>7, <2>3, <2>5
  <2> QED
    BY <2>6, <2>7, <2>8, <2>9 DEF Within
<1>10. PictureHoldsAll'
  BY <1>1, <1>3, <1>9 DEF PictureHoldsAll
<1>11. SequenceRight'
  BY <1>3, <1>5, <1>10 DEF DueRight, SequenceRight, LoopsContain, EveryEndHasItsBegin,
       MessagesMeetSides
<1>12. ~Drawing'
  BY <1>3 DEF Drawing
<1> QED
  BY <1>1, <1>2, <1>4, <1>5, <1>11, <1>12 DEF SequenceInv

\* The end of an activation takes the last one of its actor, if it has one.
LEMMA EndIsLast ==
  ASSUME bounds \in BoundsType, NEW a \in Actor
  PROVE  LET acts == bounds.activations
             i == EndActivation(a)
         IN  /\ i = 0 => Len(acts) = 0 /\ ActorActivations(a) = {}
             /\ i # 0 => /\ i \in 1 .. Len(acts)
                         /\ \A j \in i + 1 .. Len(acts) : acts[j].actor # acts[i].actor
             /\ ActorActivations(a) # {} => acts[i].actor = a
<1> DEFINE acts == bounds.activations
           P == ActorActivations(a)
           i == EndActivation(a)
           D == Len(acts)
<1>1. D \in Nat /\ DOMAIN acts = 1 .. D
  BY DEF BoundsType
<1>2. P = {j \in 1 .. D : acts[j].actor = a}
  BY <1>1 DEF ActorActivations
<1>3. CASE P = {}
  <2>1. i = D
    BY <1>3 DEF EndActivation
  <2> HIDE DEF P, i
  <2> QED
    BY <1>1, <1>3, <2>1 DEF P, i
<1>4. CASE P # {}
  <2>1. i = Max(P)
    BY <1>4 DEF EndActivation
  <2>2. P \in SUBSET Nat /\ \A j \in P : j <= D
    BY <1>1, <1>2
  <2> HIDE DEF P, i
  <2>3. i \in P /\ \A j \in P : j <= i
    BY <1>1, <1>4, <2>1, <2>2, GreatestElement
  <2>4. i \in 1 .. D /\ acts[i].actor = a
    BY <1>2, <2>3
  <2>5. ASSUME NEW j \in i + 1 .. D  PROVE acts[j].actor # a
    <3>1. j \in 1 .. D /\ ~(j <= i)
      BY <1>1, <2>4
    <3> QED
      BY <1>2, <2>3, <3>1
  <2>6. i # 0
    BY <2>4
  <2> QED
    BY <1>4, <2>4, <2>5, <2>6 DEF P, i
<1> QED
  BY <1>3, <1>4

\* What that makes of the bounds.
LEMMA EndsOne ==
  ASSUME SequenceInv, NEW a \in Actor, ActiveEnd(a)
  PROVE  /\ bounds' \in BoundsType /\ Laid(bounds')
         /\ Stacked(bounds'.activations, budget)
         /\ ActorActivations(a) = {} => \A c \in Actor : Begun(c)' \subseteq Begun(c)
         /\ ActorActivations(a) # {} =>
              \E x \in Begun(a) :
                /\ \A y \in Begun(a) : x <= y
                /\ Begun(a)' = Begun(a) \ {x}
                /\ \A c \in Actor : c # a => Begun(c)' = Begun(c)
<1> DEFINE acts == bounds.activations
           i == EndActivation(a)
           t == RemoveAt(acts, i)
           v == bounds.verticalPos
           short == acts[i].starty + 18 > v
           pos == IF short THEN v + 12 ELSE v
           less == [bounds EXCEPT !.activations = t]
           e == Insert(less, acts[i].startx, pos - 10, acts[i].stopx, pos)
<1>1. /\ Laid(bounds) /\ bounds \in BoundsType /\ v \in Int
      /\ acts \in Seq(ActivationType) /\ Stacked(acts, budget)
  BY DEF SequenceInv, DueRight, ActiveEnd, BoundsType
<1>2. CASE i = 0
  <2>1. UNCHANGED bounds /\ ActorActivations(a) = {}
    BY <1>1, <1>2, EndIsLast DEF ActiveEnd
  <2>2. \A c : Begun(c)' = Begun(c)
    BY <2>1, BegunIsIn
  <2> HIDE DEF i, acts
  <2> QED
    BY <1>1, <2>1, <2>2 DEF acts
<1>3. CASE i # 0
  <2>1. /\ i \in 1 .. Len(acts)
        /\ \A j \in i + 1 .. Len(acts) : acts[j].actor # acts[i].actor
        /\ ActorActivations(a) # {} => acts[i].actor = a
    BY <1>1, <1>3, EndIsLast
  <2>2. bounds' = e
    BY <1>3, Zenon DEF ActiveEnd
  <2> HIDE DEF i, acts, v
  <2>3. /\ acts[i].startx \in Int /\ acts[i].stopx \in Int /\ acts[i].starty \in Int
        /\ acts[i].actor \in Actor
    BY <1>1, <2>1, ActivationParts
  <2>4. /\ t \in Seq(ActivationType) /\ Stacked(t, budget)
        /\ acts[i].begun \in BegunIn(acts, acts[i].actor)
        /\ \A x \in BegunIn(acts, acts[i].actor) : acts[i].begun <= x
        /\ \A c : BegunIn(t, c) = IF c = acts[i].actor
                                  THEN BegunIn(acts, c) \ {acts[i].begun}
                                  ELSE BegunIn(acts, c)
    BY <1>1, <2>1, RemoveStacked
  <2> HIDE DEF t
  <2>5. Laid(less) /\ less.verticalPos = v /\ less.activations = t
    BY <1>1, <2>4, ActivationsRight DEF Laid, v
  <2> HIDE DEF less
  <2>6. Grown(less, v, v + 12, v, t)
    BY <2>5, LaidGrown
  <2>7. /\ pos \in Int /\ pos - 10 \in Int /\ v - 10 <= pos - 10 /\ v - 10 <= pos
        /\ pos - 10 <= v + 12 /\ pos <= v + 12
    BY <1>1
  <2> HIDE DEF short, pos
  <2>8. Grown(e, v, v + 12, v, t)
    <3> DEFINE z == pos - 10
               c == v + 12
               startx == acts[i].startx
               stopx == acts[i].stopx
    <3>1. /\ startx \in Int /\ stopx \in Int /\ z \in Int /\ v - 10 <= z /\ z <= c
          /\ pos \in Int /\ v - 10 <= pos /\ pos <= c /\ Grown(less, v, c, v, t)
      BY <2>3, <2>6, <2>7
    <3> HIDE DEF z, c, startx, stopx
    <3>2. Grown(Insert(less, startx, z, stopx, pos), v, c, v, t)
      BY <3>1, InsertGrows
    <3> QED
      BY <3>2 DEF z, c, startx, stopx
  <2> HIDE DEF e
  <2>9. Laid(e) /\ e \in BoundsType /\ SameStacks(t, e.activations)
    <3>1. v <= v /\ v + 12 <= v + 12
      BY <1>1
    <3> QED
      BY <2>8, <3>1, GrownLaid DEF Grown, BoundsRight
  <2>10. Stacked(e.activations, budget) /\ \A c : BegunIn(e.activations, c) = BegunIn(t, c)
    <3>1. e.activations \in Seq(ActivationType)
      BY <2>9 DEF BoundsType
    <3> QED
      BY <2>4, <2>9, <3>1, SameStacksRight
  <2>11. \A c : Begun(c)' = IF c = acts[i].actor THEN Begun(c) \ {acts[i].begun} ELSE Begun(c)
    BY <2>2, <2>4, <2>10, BegunIsIn DEF acts
  <2>12. \A c \in Actor : Begun(c)' \subseteq Begun(c)
    BY <2>11
  <2>13. ASSUME ActorActivations(a) # {}
         PROVE  \E x \in Begun(a) :
                  /\ \A y \in Begun(a) : x <= y
                  /\ Begun(a)' = Begun(a) \ {x}
                  /\ \A c \in Actor : c # a => Begun(c)' = Begun(c)
    <3> DEFINE x == acts[i].begun
    <3>1. x \in Begun(a) /\ \A y \in Begun(a) : x <= y
      BY <2>1, <2>4, <2>13, BegunIsIn DEF acts
    <3>2. Begun(a)' = Begun(a) \ {x} /\ \A c \in Actor : c # a => Begun(c)' = Begun(c)
      BY <2>1, <2>11, <2>13
    <3> QED
      BY <3>1, <3>2
  <2> QED
    BY <2>2, <2>9, <2>10, <2>12, <2>13
<1> QED
  BY <1>2, <1>3

LEMMA EndRight ==
  ASSUME SequenceInv, NEW a \in Actor, ActiveEnd(a)
  PROVE  SequenceInv'
<1>1. /\ bounds' \in BoundsType /\ Laid(bounds') /\ Stacked(bounds'.activations, budget)
      /\ ActorActivations(a) = {} => \A c \in Actor : Begun(c)' \subseteq Begun(c)
      /\ ActorActivations(a) # {} =>
           \E x \in Begun(a) :
             /\ \A y \in Begun(a) : x <= y
             /\ Begun(a)' = Begun(a) \ {x}
             /\ \A c \in Actor : c # a => Begun(c)' = Begun(c)
  BY EndsOne
<1>2. budget \in Nat /\ budget' \in Nat /\ budget' <= budget
  BY SpendLeaves DEF ActiveEnd
<1>3. /\ due[a] = {} => stray' = TRUE /\ due' = due
      /\ due[a] # {} => stray' = stray /\ due' = [due EXCEPT ![a] = @ \ {Min(@)}]
  BY DEF ActiveEnd
<1>4. /\ due \in [Actor -> SUBSET Nat] /\ stray \in BOOLEAN
      /\ stray \/ \A c \in Actor : Begun(c) = due[c]
  BY DEF SequenceInv, DueRight
<1>5. ASSUME NEW c \in Actor
      PROVE  /\ due[c] \in SUBSET Nat /\ IsFiniteSet(due[c]) /\ Cardinality(due[c]) \in Nat
             /\ \A y \in due[c] : budget < y
             /\ Begun(c) \in SUBSET Nat /\ IsFiniteSet(Begun(c))
             /\ Cardinality(Begun(c)) \in Nat
             /\ Cardinality(Begun(c)) <= Cardinality(due[c])
  <2>1. bounds.activations \in Seq(ActivationType) /\ Stacked(bounds.activations, budget)
    BY DEF SequenceInv, DueRight, BoundsType
  <2>2. Begun(c) \in SUBSET Nat /\ IsFiniteSet(Begun(c))
    BY <2>1, BegunIsIn, CountActivations
  <2>3. /\ due[c] \in SUBSET Nat /\ IsFiniteSet(due[c]) /\ \A y \in due[c] : budget < y
        /\ Cardinality(Begun(c)) <= Cardinality(due[c])
    BY DEF SequenceInv, DueRight
  <2> QED
    BY <2>2, <2>3, FS_CardinalityType
<1>6. ASSUME due[a] # {}
      PROVE  /\ Min(due[a]) \in due[a] /\ \A y \in due[a] : Min(due[a]) <= y
             /\ due'[a] = due[a] \ {Min(due[a])}
  BY <1>3, <1>4, <1>5, <1>6, LeastElement
<1>7. /\ due' \in [Actor -> SUBSET Nat] /\ due'[a] \subseteq due[a]
      /\ \A c \in Actor : c # a => due'[c] = due[c]
  <2>1. CASE due[a] = {}
    BY <1>3, <1>4, <2>1
  <2>2. CASE due[a] # {}
    BY <1>3, <1>4, <2>2
  <2> QED
    BY <2>1, <2>2
<1>8. ASSUME NEW c \in Actor
      PROVE  /\ IsFiniteSet(due'[c]) /\ \A y \in due'[c] : budget' < y
             /\ Cardinality(due'[c]) \in Nat
  <2>1. due'[c] \in SUBSET due[c]
    BY <1>7
  <2>2. IsFiniteSet(due'[c])
    BY <1>5, <2>1, FS_Subset
  <2>3. ASSUME NEW y \in due'[c]  PROVE budget' < y
    <3>1. y \in Nat /\ budget < y
      BY <1>5, <2>1
    <3> QED
      BY <1>2, <3>1
  <2> QED
    BY <2>2, <2>3, FS_CardinalityType
<1>9. ASSUME ActorActivations(a) = {}
      PROVE  /\ stray' \/ \A c \in Actor : Begun(c)' = due'[c]
             /\ \A c \in Actor : Cardinality(Begun(c)') <= Cardinality(due'[c])
  <2>1. Begun(a) = {}
    BY <1>9 DEF Begun
  <2>2. stray' = TRUE
    BY <1>3, <1>4, <2>1
  <2>3. ASSUME NEW c \in Actor  PROVE Cardinality(Begun(c)') <= Cardinality(due'[c])
    <3>1. Begun(c)' \in SUBSET Begun(c)
      BY <1>1, <1>9
    <3>2. CASE c = a
      <4>1. Begun(c)' = {}
        BY <2>1, <3>1, <3>2
      <4>2. Cardinality(Begun(c)') = 0
        BY <4>1, FS_EmptySet
      <4> QED
        BY <1>8, <4>2
    <3>3. CASE c # a
      <4>1. Cardinality(Begun(c)') <= Cardinality(Begun(c)) /\ IsFiniteSet(Begun(c)')
        BY <1>5, <3>1, FS_Subset
      <4>2. Cardinality(Begun(c)') \in Nat
        BY <4>1, FS_CardinalityType
      <4> QED
        BY <1>5, <1>7, <3>3, <4>1, <4>2
    <3> QED
      BY <3>2, <3>3
  <2> QED
    BY <2>2, <2>3
<1>10. ASSUME ActorActivations(a) # {}
      PROVE  /\ stray' \/ \A c \in Actor : Begun(c)' = due'[c]
             /\ \A c \in Actor : Cardinality(Begun(c)') <= Cardinality(due'[c])
  <2>1. PICK x \in Begun(a) : /\ \A y \in Begun(a) : x <= y
                              /\ Begun(a)' = Begun(a) \ {x}
                              /\ \A c \in Actor : c # a => Begun(c)' = Begun(c)
    BY <1>1, <1>10
  <2>2. Cardinality(Begun(a)') = Cardinality(Begun(a)) - 1
    BY <1>5, <2>1, FS_RemoveElement
  <2>3. due[a] # {}
    <3>1. Cardinality(Begun(a)) # 0
      BY <1>5, FS_EmptySet
    <3>2. Cardinality(due[a]) # 0
      BY <1>5, <3>1
    <3> QED
      BY <3>2, FS_EmptySet
  <2> DEFINE m == Min(due[a])
  <2>4. m \in due[a] /\ (\A y \in due[a] : m <= y) /\ due'[a] = due[a] \ {m}
    BY <1>6, <2>3
  <2> HIDE DEF m
  <2>5. Cardinality(due'[a]) = Cardinality(due[a]) - 1
    <3>1. IsFiniteSet(due[a])
      BY <1>5
    <3>2. Cardinality(due[a] \ {m}) = Cardinality(due[a]) - 1
      BY <2>4, <3>1, FS_RemoveElement
    <3> QED
      BY <2>4, <3>2
  <2>6. ASSUME NEW c \in Actor  PROVE Cardinality(Begun(c)') <= Cardinality(due'[c])
    <3>1. CASE c = a
      BY <1>5, <2>2, <2>5, <3>1
    <3>2. CASE c # a
      BY <1>5, <1>7, <2>1, <3>2
    <3> QED
      BY <3>1, <3>2
  <2>7. stray' \/ \A c \in Actor : Begun(c)' = due'[c]
    <3>1. CASE stray
      BY <1>3, <2>3, <3>1
    <3>2. CASE ~stray
      <4>1. \A c \in Actor : Begun(c) = due[c]
        BY <1>4, <3>2
      <4>2. x = m
        <5>1. x <= m /\ m <= x
          BY <2>1, <2>4, <4>1
        <5>2. x \in Nat /\ m \in Nat
          BY <1>5, <2>4
        <5> QED
          BY <5>1, <5>2
      <4> QED
        BY <1>7, <2>1, <2>4, <4>1, <4>2
    <3> QED
      BY <3>1, <3>2
  <2> QED
    BY <2>6, <2>7
<1>11. DueRight'
  <2>1. Stacked(bounds'.activations, budget')
    <3>1. bounds'.activations \in Seq(ActivationType)
      BY <1>1 DEF BoundsType
    <3> QED
      BY <1>1, <1>2, <3>1, StackedFewer
  <2> QED
    BY <1>7, <1>8, <1>9, <1>10, <2>1 DEF DueRight
<1>12. EveryEndHasItsBegin'
  <2> DEFINE i == EndActivation(a)
             ended == bounds.activations[i]
             v == bounds.verticalPos
             short == ended.starty + 18 > v
             pos == IF short THEN v + 12 ELSE v
             starty == IF short THEN v - 6 ELSE ended.starty
             box == Box(ended.startx, starty, ended.stopx, pos)
  <2>1. last'.op = "threw" => stray'
    <3> SUFFICES ASSUME last'.op = "threw"  PROVE stray'
      OBVIOUS
    <3>1. i = 0
      BY DEF ActiveEnd
    <3>2. ActorActivations(a) = {}
      BY <3>1, EndIsLast DEF SequenceInv
    <3> QED
      BY <1>3, <1>4, <3>2 DEF Begun
  <2>2. last'.op = "deactivate" => last'.box.stopy - last'.box.starty >= 18
    <3> SUFFICES ASSUME last'.op = "deactivate"
                 PROVE  last'.box.stopy - last'.box.starty >= 18
      OBVIOUS
    <3>1. i # 0 /\ last'.box = box
      BY DEF ActiveEnd
    <3>2. /\ ended.startx \in Int /\ ended.starty \in Int /\ ended.stopx \in Int
          /\ v \in Int
      <4>1. i \in 1 .. Len(bounds.activations) /\ bounds.activations \in Seq(ActivationType)
        BY <3>1, EndIsLast DEF SequenceInv, BoundsType
      <4>2. v \in Int
        BY DEF SequenceInv, BoundsType
      <4> QED
        BY <4>1, <4>2, ActivationParts
    <3> HIDE DEF i, ended, v
    <3>3. starty \in Int /\ pos \in Int /\ starty + 18 <= pos
      BY <3>2
    <3> HIDE DEF starty, pos
    <3>4. box.starty = Lesser(starty, pos) /\ box.stopy = Greater(starty, pos)
      BY DEF Box
    <3> HIDE DEF box
    <3> QED
      BY <3>1, <3>3, <3>4 DEF Lesser, Greater
  <2> QED
    BY <1>11, <2>1, <2>2 DEF DueRight, EveryEndHasItsBegin
<1>13. last'.op \in {"threw", "deactivate"}
  BY DEF ActiveEnd
<1>14. SequenceRight'
  BY <1>12, <1>13 DEF SequenceRight, LoopsContain, MessagesMeetSides, PictureHoldsAll
<1>15. stray' \in BOOLEAN
  BY <1>3, <1>4
<1> QED
  BY <1>1, <1>2, <1>11, <1>14, <1>15 DEF SequenceInv

-----------------------------------------------------------------------------
LEMMA SequenceInvHolds == SeqSpec => []SequenceInv
<1>1. SequenceInv /\ [SeqNext]_seqVars => SequenceInv'
  <2> SUFFICES ASSUME SequenceInv, [SeqNext]_seqVars  PROVE SequenceInv'
    OBVIOUS
  <2>1. CASE NewLoop \/ AddSection \/ EndLoop \/ Note
    BY <2>1, DrawRight
  <2>2. CASE Picture
    BY <2>2, PictureRight
  <2>3. CASE NextDiagram
    BY <2>3, NextDiagramRight
  <2>4. ASSUME NEW a \in Actor, NewActivation(a)  PROVE SequenceInv'
    BY <2>4, ActivationRight
  <2>5. ASSUME NEW a \in Actor, ActiveEnd(a)  PROVE SequenceInv'
    BY <2>5, EndRight
  <2>6. ASSUME NEW from \in Actor, NEW to \in Actor, Message(from, to)  PROVE SequenceInv'
    BY <2>6, MessageRight
  <2>7. CASE UNCHANGED seqVars
    <3>1. /\ bounds' = bounds /\ budget' = budget /\ due' = due /\ stray' = stray
          /\ last' = last
      BY <2>7 DEF seqVars
    <3>2. /\ \A a : Begun(a)' = Begun(a)
          /\ \A a : Cardinality(ActorActivations(a))' = Cardinality(ActorActivations(a))
      BY <3>1 DEF Begun, ActorActivations
    <3> QED
      BY <3>1, <3>2 DEF SequenceInv, DueRight, Drawing, SequenceRight, LoopsContain,
           EveryEndHasItsBegin, MessagesMeetSides, PictureHoldsAll
  <2> QED
    BY <2>1, <2>2, <2>3, <2>4, <2>5, <2>6, <2>7 DEF SeqNext
<1> QED
  BY <1>1, InitRight, PTL DEF SeqSpec

\* However many actors there are and whatever a diagram says: a loop is drawn
\* around all that is in it, each end of an activation takes the latest of its
\* actor, a message runs between the sides that face each other, and nothing
\* lies outside the picture.
THEOREM SequenceIsRight == SeqSpec => []SequenceRight
<1>1. SequenceInv => SequenceRight
  BY DEF SequenceInv
<1> QED
  BY <1>1, SequenceInvHolds, PTL

=============================================================================
