----------------------------- MODULE SyncQueue ------------------------------
(***************************************************************************)
(* External: what the synchronizers of fifth_chapter rely on in            *)
(* AbstractQueuedSynchronizer.  Threads that could not acquire wait in a   *)
(* first in first out queue; only the first one tries again.  unpark()     *)
(* leaves a permit, so a thread that is woken before it parks does not     *)
(* park, and a new thread in the queue tries once before it parks.         *)
(***************************************************************************)
EXTENDS Integers, Sequences, FiniteSets, SequencesExt

CONSTANT Thread  \* the threads that use the synchronizer

ASSUME ThreadAssumption == IsFiniteSet(Thread)

VARIABLES
  queue,  \* the threads that wait, the first one to come first
  woken   \* the threads that will look at the synchronizer before they park

First(t) == queue # << >> /\ t = Head(queue)

Queued(t) == t \in ToSet(queue)

\* The first thread of q is unparked.
Wake(q, w) == IF q = << >> THEN w ELSE w \cup {Head(q)}

Enqueue(t) ==
  /\ queue' = Append(queue, t)
  /\ woken' = woken \cup {t}

\* The first thread leaves, and unparks the next one if it is told to.
Dequeue(t, propagate) ==
  /\ First(t)
  /\ queue' = Tail(queue)
  /\ woken' = IF propagate THEN Wake(Tail(queue), woken \ {t}) ELSE woken \ {t}

\* A thread that gives up leaves.  It unparks the next one if it was first: a
\* wake-up it may have had is not lost.
Cancel(t) ==
  \E i \in 1 .. Len(queue) :
    /\ queue[i] = t
    /\ queue' = RemoveAt(queue, i)
    /\ woken' = IF i = 1 THEN Wake(Tail(queue), woken \ {t}) ELSE woken \ {t}

\* Nobody waits twice, and only threads that wait are woken.
QueueOK ==
  /\ queue \in Seq(Thread) /\ woken \subseteq ToSet(queue)
  /\ \A i, k \in 1 .. Len(queue) : queue[i] = queue[k] => i = k
=============================================================================
