---------------------------- MODULE BoundedDeque ----------------------------
(***************************************************************************)
(* What BlockQueue promises: a list of at most Capacity items, to whose    *)
(* end add() appends and from either end of which an item is handed to     *)
(* exactly one caller.  Blocking, waking and interrupts do not show.       *)
(***************************************************************************)
EXTENDS Integers, Sequences, SequencesExt

CONSTANTS Item, Thread, Capacity

VARIABLES
  contents,  \* the items in the queue, oldest first
  handed     \* the last removal: the thread that made it and the item it got

vars == <<contents, handed>>

Add(x) ==
  /\ Len(contents) < Capacity
  /\ contents' = Append(contents, x)
  /\ UNCHANGED handed

TakeFirst(t) ==
  /\ contents # << >>
  /\ contents' = Tail(contents)
  /\ handed' = <<t, Head(contents)>>

TakeLast(t) ==
  /\ contents # << >>
  /\ contents' = Front(contents)
  /\ handed' = <<t, Last(contents)>>

Next ==
  \/ \E x \in Item : Add(x)
  \/ \E t \in Thread : TakeFirst(t) \/ TakeLast(t)

Spec == contents = << >> /\ [][Next]_vars
=============================================================================
