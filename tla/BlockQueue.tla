----------------------------- MODULE BlockQueue -----------------------------
(***************************************************************************)
(* fifth_chapter/BlockQueue.java: a bounded queue with one ReentrantLock   *)
(* and two conditions.                                                     *)
(*                                                                         *)
(* A method body runs under the lock from lock() or from the return of     *)
(* await() to the next await() or to unlock(), so each such stretch is one *)
(* step.  The lock is not fair: a thread that calls lock() competes with   *)
(* the threads that have been signalled.  The condition queues are those   *)
(* of AbstractQueuedSynchronizer: first in first out, no spurious wake-up, *)
(* and an interrupted waiter leaves its queue before it can be signalled.  *)
(***************************************************************************)
EXTENDS Integers, Sequences, FiniteSets, SequencesExt

CONSTANTS
  Item,      \* what the queue holds
  Null,      \* the content of an array slot nothing was stored in
  Thread,    \* the threads that use the queue
  Capacity   \* arr.length

\* The constructor throws unless the capacity is positive.
ASSUME CapacityAssumption == Capacity \in Nat \ {0}
ASSUME ThreadAssumption == IsFiniteSet(Thread)

VARIABLES
  arr,          \* the array
  count,        \* the number of items in it
  notFull,      \* the queue of the condition add() waits for
  notEmpty,     \* the queue of the condition both removals wait for
  pc,           \* where each thread is in its call
  op,           \* the method it has called
  item,         \* the argument of add()
  interrupted,  \* its interrupt status
  handed        \* history: the last removal, its thread and what it returned

vars == <<arr, count, notFull, notEmpty, pc, op, item, interrupted, handed>>

Slot    == 0 .. Capacity - 1
Removal == {"remove", "removeFromEnd"}

Init ==
  /\ arr = [i \in Slot |-> Null] /\ count = 0
  /\ notFull = << >> /\ notEmpty = << >>
  /\ pc = [t \in Thread |-> "idle"]
  /\ op = [t \in Thread |-> "none"]
  /\ item = [t \in Thread |-> Null]
  /\ interrupted = [t \in Thread |-> FALSE]
  /\ handed = << >>

\* A thread calls a method and asks for the lock.
Call(t, o, x) ==
  /\ pc[t] = "idle"
  /\ pc' = [pc EXCEPT ![t] = "locking"]
  /\ op' = [op EXCEPT ![t] = o]
  /\ item' = [item EXCEPT ![t] = x]
  /\ UNCHANGED <<arr, count, notFull, notEmpty, interrupted, handed>>

\* A thread that can get the lock: the lock is free between two steps.
HasLock(t, ops) == pc[t] \in {"locking", "signalled"} /\ op[t] \in ops

\* signal() moves the first waiter of a queue, if any, to the lock's queue.
\* Then the caller unlocks and its call is over, as it is after an exception.
Return(t, queue) ==
  /\ op' = [op EXCEPT ![t] = "none"]
  /\ item' = [item EXCEPT ![t] = Null]
  /\ pc' = [u \in Thread |-> IF u = t THEN "idle"
                             ELSE IF queue # << >> /\ u = Head(queue)
                               THEN "signalled" ELSE pc[u]]

Rest(queue) == IF queue = << >> THEN queue ELSE Tail(queue)

\* Fault: add() tests its condition once, before it waits.
AddAfterIf(t) ==
  /\ HasLock(t, {"add"}) /\ (count < Capacity \/ pc[t] = "signalled")
  /\ arr' = [i \in Slot \cup {count} |-> IF i = count THEN item[t] ELSE arr[i]]
  /\ count' = count + 1
  /\ Return(t, notEmpty) /\ notEmpty' = Rest(notEmpty)
  /\ UNCHANGED <<notFull, interrupted, handed>>

\* Fault: add() signals only when the queue was empty.
AddSignalsOnce(t) ==
  /\ HasLock(t, {"add"}) /\ count < Capacity
  /\ arr' = [arr EXCEPT ![count] = item[t]]
  /\ count' = count + 1
  /\ LET queue == IF count = 0 THEN notEmpty ELSE << >>
     IN  /\ Return(t, queue)
         /\ notEmpty' = IF queue = << >> THEN notEmpty ELSE Tail(notEmpty)
  /\ UNCHANGED <<notFull, interrupted, handed>>

AddItem(t) ==
  /\ HasLock(t, {"add"}) /\ count < Capacity
  /\ arr' = [arr EXCEPT ![count] = item[t]]
  /\ count' = count + 1
  /\ Return(t, notEmpty) /\ notEmpty' = Rest(notEmpty)
  /\ UNCHANGED <<notFull, interrupted, handed>>

\* Fault: the last slot is left as it was.
RemoveKeepsLast(t) ==
  /\ HasLock(t, {"remove"}) /\ count > 0
  /\ handed' = <<t, arr[0]>>
  /\ arr' = [i \in Slot |-> IF i + 1 \in Slot THEN arr[i + 1] ELSE arr[i]]
  /\ count' = count - 1
  /\ Return(t, notFull) /\ notFull' = Rest(notFull)
  /\ UNCHANGED <<notEmpty, interrupted>>

\* remove(): arraycopy() moves the rest one slot forward, into a fresh array.
RemoveHead(t) ==
  /\ HasLock(t, {"remove"}) /\ count > 0
  /\ handed' = <<t, arr[0]>>
  /\ arr' = [i \in Slot |-> IF i + 1 \in Slot THEN arr[i + 1] ELSE Null]
  /\ count' = count - 1
  /\ Return(t, notFull) /\ notFull' = Rest(notFull)
  /\ UNCHANGED <<notEmpty, interrupted>>

\* Fault: the slot is cleared before it is read.
RemoveReadsLate(t) ==
  /\ HasLock(t, {"removeFromEnd"}) /\ count > 0
  /\ arr' = [arr EXCEPT ![count - 1] = Null]
  /\ handed' = <<t, arr'[count - 1]>>
  /\ count' = count - 1
  /\ Return(t, notFull) /\ notFull' = Rest(notFull)
  /\ UNCHANGED <<notEmpty, interrupted>>

RemoveFromEnd(t) ==
  /\ HasLock(t, {"removeFromEnd"}) /\ count > 0
  /\ handed' = <<t, arr[count - 1]>>
  /\ arr' = [arr EXCEPT ![count - 1] = Null]
  /\ count' = count - 1
  /\ Return(t, notFull) /\ notFull' = Rest(notFull)
  /\ UNCHANGED <<notEmpty, interrupted>>

\* The loop condition of the method holds: its caller has to wait.
MustWait(t) ==
  \/ HasLock(t, {"add"}) /\ count = Capacity
  \/ HasLock(t, Removal) /\ count = 0

\* Fault: both kinds of caller wait for one condition.
AwaitOneCondition(t) ==
  /\ MustWait(t) /\ ~interrupted[t]
  /\ pc' = [pc EXCEPT ![t] = "waiting"]
  /\ notFull' = Append(notFull, t)
  /\ UNCHANGED <<arr, count, notEmpty, op, item, interrupted, handed>>

\* await() enters the queue of its condition and gives the lock back.
Await(t) ==
  /\ MustWait(t) /\ ~interrupted[t]
  /\ pc' = [pc EXCEPT ![t] = "waiting"]
  /\ IF op[t] = "add"
     THEN notFull' = Append(notFull, t) /\ UNCHANGED notEmpty
     ELSE notEmpty' = Append(notEmpty, t) /\ UNCHANGED notFull
  /\ UNCHANGED <<arr, count, op, item, interrupted, handed>>

\* await() in a thread that is interrupted already throws before it waits.
AwaitThrows(t) ==
  /\ MustWait(t) /\ interrupted[t]
  /\ Return(t, << >>)
  /\ interrupted' = [interrupted EXCEPT ![t] = FALSE]
  /\ UNCHANGED <<arr, count, notFull, notEmpty, handed>>

\* A thread interrupted in await() has the lock again and throws.
Throw(t) ==
  /\ pc[t] = "cancelled"
  /\ Return(t, << >>)
  /\ UNCHANGED <<arr, count, notFull, notEmpty, interrupted, handed>>

\* A thread leaves the condition queue it is in.
Leave(t, queue) ==
  \E i \in 1 .. Len(queue) : queue[i] = t /\ queue' = RemoveAt(queue, i)

\* Fault: a signal that meets an interrupt is lost: the thread throws.
InterruptSignalled(t) ==
  /\ pc[t] = "signalled"
  /\ pc' = [pc EXCEPT ![t] = "cancelled"]
  /\ UNCHANGED <<arr, count, notFull, notEmpty, op, item, interrupted, handed>>

\* Thread.interrupt(): a waiter leaves its queue and will throw; any other
\* thread, one that has been signalled included, only has its status set.
\* A second interrupt of a thread that is about to throw adds nothing.
Interrupt(t) ==
  \/ /\ pc[t] = "waiting"
     /\ pc' = [pc EXCEPT ![t] = "cancelled"]
     /\ \/ Leave(t, notFull) /\ UNCHANGED notEmpty
        \/ Leave(t, notEmpty) /\ UNCHANGED notFull
     /\ UNCHANGED <<arr, count, op, item, interrupted, handed>>
  \/ /\ pc[t] \in {"idle", "locking", "signalled"}
     /\ interrupted' = [interrupted EXCEPT ![t] = TRUE]
     /\ UNCHANGED <<arr, count, notFull, notEmpty, pc, op, item, handed>>

-----------------------------------------------------------------------------
StartCall(t) ==
  \/ \E x \in Item : Call(t, "add", x)
  \/ \E o \in Removal : Call(t, o, Null)

Proceed(t) ==
  \/ AddItem(t) \/ RemoveHead(t) \/ RemoveFromEnd(t)
  \/ Await(t) \/ AwaitThrows(t) \/ Throw(t)

Next == \E t \in Thread : StartCall(t) \/ Proceed(t) \/ Interrupt(t)

Spec == Init /\ [][Next]_vars

\* A thread that asks for the lock gets it in the end.  Nothing makes a thread
\* call a method, and nothing interrupts one.
Fairness == \A t \in Thread : WF_vars(Proceed(t))

FairSpec == Spec /\ Fairness

-----------------------------------------------------------------------------
(* Properties.                                                             *)

Handover == {<< >>} \cup (Thread \X (Item \cup {Null}))

\* Every variable keeps its type, and count never leaves the array.
TypeOK ==
  /\ arr \in [Slot -> Item \cup {Null}] /\ count \in 0 .. Capacity
  /\ notFull \in Seq(Thread) /\ notEmpty \in Seq(Thread)
  /\ pc \in [Thread -> {"idle", "locking", "waiting", "signalled", "cancelled"}]
  /\ op \in [Thread -> {"none", "add"} \cup Removal]
  /\ item \in [Thread -> Item \cup {Null}]
  /\ \A t \in Thread : /\ op[t] = "none" <=> pc[t] = "idle"
                       /\ op[t] = "add" => item[t] \in Item
  /\ interrupted \in [Thread -> BOOLEAN]
  /\ handed \in Handover

\* A thread waits in exactly the queue its method waits in, once.
Waiters(queue, ops) ==
  /\ \A i, k \in 1 .. Len(queue) : queue[i] = queue[k] => i = k
  /\ ToSet(queue) = {t \in Thread : pc[t] = "waiting" /\ op[t] \in ops}

\* The condition queues hold exactly the waiting threads, each in the queue of
\* the condition its own method awaits: no signal or interrupt mixes them up.
QueuesExact == Waiters(notFull, {"add"}) /\ Waiters(notEmpty, Removal)

Signalled(ops) == {t \in Thread : pc[t] = "signalled" /\ op[t] \in ops}

\* signal() instead of signalAll() is enough: while adders wait, every free
\* slot is meant for an adder that has been signalled, and while removers
\* wait, every item for a remover that has been signalled, whatever threads
\* get the lock first and whoever is interrupted.
NoLostSignal ==
  /\ notFull # << >> => Capacity - count <= Cardinality(Signalled({"add"}))
  /\ notEmpty # << >> => count <= Cardinality(Signalled(Removal))

\* The queue does not keep what it has handed out: the slots from count on are
\* empty after a removal at either end, which toString() shows and the garbage
\* collector needs.
NoGhosts == \A i \in Slot : i >= count => arr[i] = Null

\* Adders and removers never wait for each other with nobody to wake them.
NoStandoff ==
  notFull # << >> /\ notEmpty # << >> => \E t \in Thread : pc[t] = "signalled"

\* The array with its count is the abstract bounded deque: every item that is
\* added is handed to one caller, from the end the caller asked for.
Deque == INSTANCE BoundedDeque
           WITH contents <- [i \in 1 .. count |-> arr[i - 1]]

DequeSpec == Deque!Spec

\* While an adder waits, free slots are filled or the waiters get their turn;
\* while a remover waits, items are handed out or the waiters get theirs.
RoomIsUsed ==
  /\ (notFull # << >> /\ count < Capacity) ~> (notFull = << >> \/ count = Capacity)
  /\ (notEmpty # << >> /\ count > 0) ~> (notEmpty = << >> \/ count = 0)
=============================================================================
