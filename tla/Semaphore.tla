----------------------------- MODULE Semaphore ------------------------------
(***************************************************************************)
(* What TwinsLock promises: at most Permits threads hold it at a time.     *)
(* A permit may get lost: tryLock() takes one and does not hand it out.    *)
(***************************************************************************)
EXTENDS Integers, FiniteSets

CONSTANTS Thread, Permits

VARIABLES
  held,  \* the threads that hold a permit
  lost   \* the permits nobody holds and nobody can return

vars == <<held, lost>>

Free == Permits - Cardinality(held) - lost

Take(t) ==
  /\ t \notin held /\ Free > 0
  /\ held' = held \cup {t}
  /\ UNCHANGED lost

Give(t) ==
  /\ t \in held
  /\ held' = held \ {t}
  /\ UNCHANGED lost

Lose ==
  /\ Free > 0
  /\ lost' = lost + 1
  /\ UNCHANGED held

Next == Lose \/ \E t \in Thread : Take(t) \/ Give(t)

Spec == held = {} /\ lost = 0 /\ [][Next]_vars
=============================================================================
