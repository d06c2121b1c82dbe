-------------------------- MODULE SequenceDiagram ---------------------------
(***************************************************************************)
(* js/mermaid.core.js 9795-9911 and 9920-10253: how a sequence diagram is  *)
(* laid out.  draw() goes through the signals of the diagram and keeps, in *)
(* bounds, the height it has come to, the loops and activations that are   *)
(* open, and the box around all that has been drawn.                       *)
(*                                                                         *)
(* opt, alt and par are loops with another label.  The configuration is    *)
(* that of mermaidAPI, 8814-8877.                                          *)
(***************************************************************************)
EXTENDS Integers, Sequences, FiniteSets, FiniteSetsExt, SequencesExt

CONSTANTS
  Actors,     \* how many actors there are; an actor is a number 1 .. Actors
  MaxSignals  \* bound on the signals of a diagram

ASSUME SignalsAssumption == Actors \in Nat \ {0} /\ MaxSignals \in Nat

VARIABLES
  bounds,  \* the bounds object, and placed: history, the boxes put into it
  budget,  \* how many more signals may come
  due,     \* history: of each actor, when those activations have begun that have
           \* to be ended; budget is the time, so that the latest is the least
  stray,   \* history: the end of an activation has come without its beginning
  last     \* what the last signal has drawn

seqVars == <<bounds, budget, due, stray, last>>

Actor == 1 .. Actors

\* conf, and the height of a line of text.
Width == 150
Height == 65
ActorMargin == 50
DiagramMarginX == 50
DiagramMarginY == 10
BoxMargin == 10
BoxTextMargin == 5
NoteMargin == 10
MessageMargin == 35
ActivationWidth == 10
BottomMarginAdj == 1
TextHeight == 15

Lesser(a, b) == IF a <= b THEN a ELSE b
Greater(a, b) == IF a >= b THEN a ELSE b

Box(startx, starty, stopx, stopy) ==
  [startx |-> Lesser(startx, stopx), starty |-> Lesser(starty, stopy),
   stopx |-> Greater(startx, stopx), stopy |-> Greater(starty, stopy)]

Spread(box, n) ==
  [startx |-> box.startx - n, starty |-> box.starty - n,
   stopx |-> box.stopx + n, stopy |-> box.stopy + n]

\* updateVal() of all four sides.
Cover(item, box) ==
  [item EXCEPT !.startx = Lesser(@, box.startx), !.starty = Lesser(@, box.starty),
               !.stopx = Greater(@, box.stopx), !.stopy = Greater(@, box.stopy)]

\* Likewise of a loop, which has no sides before something is put into it.
Enclose(loop, box) ==
  IF loop.empty
  THEN [loop EXCEPT !.startx = box.startx, !.starty = Lesser(@, box.starty),
                    !.stopx = box.stopx, !.stopy = box.stopy, !.empty = FALSE]
  ELSE Cover(loop, box)

\* drawActors(): the boxes of the actors are side by side, and make one row.
ActorX(a) == (a - 1) * (Width + ActorMargin)
RowWidth == ActorX(Actors) + Width

InitialBounds ==
  [data |-> [startx |-> 0, starty |-> 0, stopx |-> RowWidth, stopy |-> Height],
   verticalPos |-> Height, sequenceItems |-> << >>, activations |-> << >>,
   placed |-> << >>]

BumpVerticalPos(b, bump) ==
  [b EXCEPT !.verticalPos = @ + bump, !.data.stopy = b.verticalPos + bump]

\* Fault: every loop gets the same margin, however deep it is.
UpdateBoundsFlat(b, box) ==
  [b EXCEPT
     !.data = Cover(@, Spread(box, IF b.sequenceItems = << >> THEN 0 ELSE BoxMargin)),
     !.sequenceItems = [i \in DOMAIN b.sequenceItems |->
                          Enclose(b.sequenceItems[i], Spread(box, BoxMargin))]]

\* updateBounds(): an outer loop is wider than an inner one by a margin.  The
\* count goes on into the activations, the further ones start lower; their
\* other sides are not used.
UpdateBounds(b, box) ==
  LET depth == Len(b.sequenceItems)
      Margin(n) == Spread(box, n * BoxMargin)
  IN  [b EXCEPT
         !.data = Cover(@, Margin(depth)),
         !.sequenceItems = [i \in 1 .. depth |->
                              Enclose(b.sequenceItems[i], Margin(depth - i + 1))],
         !.activations = [i \in DOMAIN b.activations |->
                            [b.activations[i] EXCEPT
                               !.starty = Lesser(@, Margin(1 - i).starty)]]]

Insert(b, startx, starty, stopx, stopy) ==
  LET box == Box(startx, starty, stopx, stopy)
      inserted == [b EXCEPT !.data = Cover(@, box), !.placed = Append(@, box)]
  IN  UpdateBounds(inserted, box)

SeqInit ==
  /\ bounds = InitialBounds
  /\ budget = MaxSignals
  /\ due = [a \in Actor |-> {}] /\ stray = FALSE
  /\ last = [op |-> "none"]

-----------------------------------------------------------------------------
Spend == budget > 0 /\ budget' = budget - 1

Drawing == last.op \notin {"picture", "threw"}

\* actorActivations(), as positions in the list.
ActorActivations(a) == {i \in DOMAIN bounds.activations : bounds.activations[i].actor = a}

\* newActivation(): activations of one actor are stacked.
NewActivation(a) ==
  LET x == ActorX(a) + Width \div 2 + ((Cardinality(ActorActivations(a)) - 1) * ActivationWidth) \div 2
      activation == [startx |-> x, starty |-> bounds.verticalPos + 2,
                     stopx |-> x + ActivationWidth, actor |-> a, begun |-> budget]
  IN  /\ Drawing /\ Spend
      /\ bounds' = [bounds EXCEPT !.activations = Append(@, activation)]
      /\ due' = [due EXCEPT ![a] = @ \cup {budget}]
      /\ last' = [op |-> "activate"]
      /\ UNCHANGED stray

\* endActivation(): the index of the last activation of the actor.  Without one
\* lastIndexOf() is -1, and splice(-1, 1) takes the last one of all.
EndActivation(a) ==
  IF ActorActivations(a) = {} THEN Len(bounds.activations) ELSE Max(ActorActivations(a))

\* activeEnd(): the activation is drawn, and is at least 18 high.  It throws if
\* there is none at all.
ActiveEnd(a) ==
  LET i == EndActivation(a)
      ended == bounds.activations[i]
      short == ended.starty + 18 > bounds.verticalPos
      pos == IF short THEN bounds.verticalPos + 12 ELSE bounds.verticalPos
      starty == IF short THEN bounds.verticalPos - 6 ELSE ended.starty
  IN  /\ Drawing /\ Spend
      /\ IF i = 0 THEN last' = [op |-> "threw"] /\ UNCHANGED bounds
         ELSE /\ bounds' = Insert([bounds EXCEPT !.activations = RemoveAt(@, i)],
                                  ended.startx, pos - 10, ended.stopx, pos)
              /\ last' = [op |-> "deactivate", actor |-> a, ended |-> ended,
                          box |-> Box(ended.startx, starty, ended.stopx, pos)]
      /\ IF due[a] = {} THEN stray' = TRUE /\ UNCHANGED due
         ELSE due' = [due EXCEPT ![a] = @ \ {Min(@)}] /\ UNCHANGED stray

\* LOOP_START and the like.
NewLoop ==
  LET b == BumpVerticalPos(bounds, BoxMargin)
      loop == [startx |-> 0, starty |-> b.verticalPos, stopx |-> 0, stopy |-> 0,
               empty |-> TRUE, sections |-> << >>, since |-> Len(b.placed)]
  IN  /\ Drawing /\ Spend
      /\ bounds' = BumpVerticalPos([b EXCEPT !.sequenceItems = Append(@, loop)],
                                   BoxMargin + BoxTextMargin)
      /\ last' = [op |-> "loop"]
      /\ UNCHANGED <<due, stray>>

\* ALT_ELSE and PAR_AND: addSectionToLoop().
AddSection ==
  LET b == BumpVerticalPos(bounds, BoxMargin)
      section == [y |-> b.verticalPos, since |-> Len(b.placed)]
  IN  /\ Drawing /\ bounds.sequenceItems # << >> /\ Spend
      /\ bounds' = BumpVerticalPos(
           [b EXCEPT !.sequenceItems[Len(b.sequenceItems)].sections = Append(@, section)],
           BoxMargin)
      /\ last' = [op |-> "section"]
      /\ UNCHANGED <<due, stray>>

Sides(item) == [startx |-> item.startx, starty |-> item.starty,
                stopx |-> item.stopx, stopy |-> item.stopy]

\* LOOP_END and the like; the parser sees to it that a loop is open.
EndLoop ==
  LET loop == Last(bounds.sequenceItems)
      outer == [bounds EXCEPT !.sequenceItems = Front(@),
                  !.placed = IF loop.empty THEN @ ELSE Append(@, Sides(loop))]
  IN  /\ Drawing /\ bounds.sequenceItems # << >>
      /\ bounds' = BumpVerticalPos(outer, BoxMargin)
      /\ last' = [op |-> "end", loop |-> loop, inside |->
                    SubSeq(bounds.placed, loop.since + 1, Len(bounds.placed)),
                  sinceSection |-> [i \in DOMAIN loop.sections |->
                    SubSeq(bounds.placed, loop.sections[i].since + 1, Len(bounds.placed))]]
      /\ UNCHANGED <<budget, due, stray>>

\* actorFlowVerticaBounds(): an actor with its activations.
FlowBounds(a) ==
  LET line == ActorX(a) + Width \div 2
      acts == {bounds.activations[i] : i \in ActorActivations(a)}
  IN  [left |-> Min({line} \cup {act.startx : act \in acts}),
       right |-> Max({line} \cup {act.stopx : act \in acts})]

\* A message.  drawMessage() draws one from an actor to itself, which ends where
\* it begins, as an arc.
Message(from, to) ==
  LET f == FlowBounds(from)
      t == FlowBounds(to)
      startx == IF f.left <= t.left THEN f.right ELSE f.left
      stopx == IF f.left < t.left THEN t.left ELSE t.right
      b == BumpVerticalPos(bounds, MessageMargin)
      arc == BumpVerticalPos(b, 30)
      drawn == IF startx = stopx
               THEN Insert(arc, startx - 100, arc.verticalPos - 10, stopx + 100, arc.verticalPos)
               ELSE Insert(b, startx, b.verticalPos - 10, stopx, b.verticalPos)
  IN  /\ Drawing /\ Spend
      /\ bounds' = Insert(drawn, Lesser(f.left, t.left), b.verticalPos,
                          Greater(f.right, t.right), b.verticalPos)
      /\ last' = [op |-> "message", from |-> from, to |-> to,
                  startx |-> startx, stopx |-> stopx]
      /\ UNCHANGED <<due, stray>>

\* drawNote(): a note that is not forced to a width and whose text is too high
\* gets twice the width.
DrawNote(x, width) ==
  LET b == BumpVerticalPos(bounds, BoxMargin)
      height == 2 * NoteMargin + TextHeight
  IN  /\ Drawing /\ Spend
      /\ bounds' = BumpVerticalPos(
           Insert(b, x, b.verticalPos, x + width, b.verticalPos + height), height)
      /\ last' = [op |-> "note"]
      /\ UNCHANGED <<due, stray>>

\* A note beside or over one actor, or over two.
Note ==
  \/ \E a \in Actor, times \in {1, 2}, beside \in {-1, 0, 1} :
       DrawNote(ActorX(a) + beside * ((Width + ActorMargin) \div 2), times * Width)
  \/ \E a, c \in Actor :
       LET distance == Greater(ActorX(c) - ActorX(a), ActorX(a) - ActorX(c))
           forceWidth == distance + ActorMargin
       IN  a # c /\ DrawNote((ActorX(a) + ActorX(c) + Width - forceWidth) \div 2, forceWidth)

\* mirrorActors: drawActors() again, below the diagram.  The row it puts into the
\* bounds ends where the one above does.
Mirrored ==
  LET b == BumpVerticalPos(bounds, 2 * BoxMargin)
      below == Box(0, b.verticalPos, RowWidth, b.verticalPos + Height)
      inserted == Insert(b, 0, b.verticalPos, RowWidth, Height)
  IN  BumpVerticalPos([inserted EXCEPT !.placed = Append(@, below)], Height)

\* The picture is made as large as the bounds, with margins.
Picture ==
  LET data == Mirrored.data
      height == data.stopy - data.starty + 2 * DiagramMarginY - BoxMargin + BottomMarginAdj
  IN  /\ Drawing /\ bounds.sequenceItems = << >>
      /\ bounds' = Mirrored
      /\ last' = [op |-> "picture",
                  viewBox |-> Box(data.startx - DiagramMarginX, -DiagramMarginY,
                                  data.stopx + DiagramMarginX, height - DiagramMarginY)]
      /\ UNCHANGED <<budget, due, stray>>

\* draw() of the next diagram begins with init(), however this one has ended.
NextDiagram ==
  /\ ~Drawing
  /\ bounds' = InitialBounds
  /\ budget' = MaxSignals
  /\ due' = [a \in Actor |-> {}] /\ stray' = FALSE
  /\ last' = [op |-> "none"]

SeqNext ==
  \/ NewLoop \/ AddSection \/ EndLoop \/ Note \/ Picture \/ NextDiagram
  \/ \E a \in Actor : NewActivation(a) \/ ActiveEnd(a)
  \/ \E from, to \in Actor : Message(from, to)

SeqSpec == SeqInit /\ [][SeqNext]_seqVars

-----------------------------------------------------------------------------
Within(inner, outer) ==
  /\ outer.startx <= inner.startx /\ outer.starty <= inner.starty
  /\ inner.stopx <= outer.stopx /\ inner.stopy <= outer.stopy

\* A loop is drawn around all that lies between its beginning and its end,
\* loops inside it included, with a margin on every side; and what follows a
\* section lies below its line.
LoopsContain ==
  last.op = "end" =>
    /\ \A box \in ToSet(last.inside) : Within(Spread(box, BoxMargin), last.loop)
    /\ \A i \in DOMAIN last.sinceSection : \A box \in ToSet(last.sinceSection[i]) :
         last.loop.sections[i].y <= box.starty

\* When the activations of the actor that are open have begun.
Begun(a) == {bounds.activations[i].begun : i \in ActorActivations(a)}

\* As long as every end of an activation has had its beginning, each ends the
\* latest of its own actor, so that the open ones are those that have to be
\* ended, and draw() does not throw.  A stray end takes another actor's: there
\* are never more open than that.  What is drawn is high enough to be seen.
EveryEndHasItsBegin ==
  /\ stray \/ \A a \in Actor : Begun(a) = due[a]
  /\ \A a \in Actor : Cardinality(Begun(a)) <= Cardinality(due[a])
  /\ last.op = "threw" => stray
  /\ last.op = "deactivate" => last.box.stopy - last.box.starty >= 18

\* Whatever has been drawn can be seen: the picture is large enough.
PictureHoldsAll ==
  last.op = "picture" => \A box \in ToSet(bounds.placed) : Within(box, last.viewBox)

\* How many activations of one actor fit between it and the next.
MaxStacked == 38

\* A message to another actor runs between their facing sides, as long as the
\* activations of one actor do not reach as far as the next.
MessagesMeetSides ==
  /\ last.op = "message"
  /\ \A a \in Actor : Cardinality(ActorActivations(a)) <= MaxStacked
  => IF last.from = last.to THEN last.startx = last.stopx
     ELSE last.startx < last.stopx <=> last.from < last.to

\* What the layout promises of loops, activations, messages and the picture.
SequenceRight ==
  LoopsContain /\ EveryEndHasItsBegin /\ MessagesMeetSides /\ PictureHoldsAll
=============================================================================
