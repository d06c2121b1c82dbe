----------------------------- MODULE TwinsLock ------------------------------
(***************************************************************************)
(* fifth_chapter/TwinsLock.java: a lock that up to two threads hold, built *)
(* on the shared mode of AbstractQueuedSynchronizer.                       *)
(*                                                                         *)
(* state is read in one step and compared-and-set in a later one, so every *)
(* other thread may come in between.  A caller unlocks only a lock it has  *)
(* been told it holds, as TwinsLockTest does.                              *)
(***************************************************************************)
EXTENDS SyncQueue

CONSTANTS
  Permits,  \* the state TwinsLock gives its Sync: 2
  Method    \* the methods that are called

\* The constructor of Sync throws unless the count is positive.
ASSUME PermitsAssumption == Permits \in Nat \ {0}
ASSUME MethodAssumption ==
  Method \subseteq {"lock", "lockInterruptibly", "tryLock", "tryLockTimed"}

VARIABLES
  state,  \* the state of the synchronizer: the permits that are free
  pc,     \* where each thread is
  method, \* the method it has called
  seen,   \* "current", a local variable of both loops; later "newCount"
  lost    \* history: the permits taken by a call that reported failure

vars == <<queue, woken, state, pc, method, seen, lost>>

Init ==
  /\ queue = << >> /\ woken = {}
  /\ state = Permits
  /\ pc = [t \in Thread |-> "idle"]
  /\ method = [t \in Thread |-> "none"]
  /\ seen = [t \in Thread |-> 0]
  /\ lost = 0

Goto(t, label) == pc' = [pc EXCEPT ![t] = label]

\* Every method begins with tryAcquireShared(1).
Call(t, m) ==
  /\ pc[t] = "idle"
  /\ Goto(t, "reading")
  /\ method' = [method EXCEPT ![t] = m]
  /\ UNCHANGED <<queue, woken, state, seen, lost>>

\* A call of tryLock() that could not acquire is over.
Fail(t) ==
  IF Queued(t) THEN Goto(t, "parked") /\ UNCHANGED method
  ELSE IF method[t] = "tryLock"
    THEN Goto(t, "idle") /\ method' = [method EXCEPT ![t] = "none"]
    ELSE Goto(t, "entering") /\ UNCHANGED method

\* tryAcquireShared() reads the state, and returns if no permit is free.
ReadState(t) ==
  /\ pc[t] = "reading"
  /\ seen' = [seen EXCEPT ![t] = state]
  /\ IF state - 1 < 0 THEN Fail(t) ELSE Goto(t, "taking") /\ UNCHANGED method
  /\ UNCHANGED <<queue, woken, state, lost>>

\* What a caller makes of the permits that are left after it took one: a
\* waiter still has to leave the queue, and tryLock() asks for more than 0.
Acquired(t, left) ==
  IF Queued(t) THEN Goto(t, "heading") /\ UNCHANGED <<method, lost>>
  ELSE IF method[t] = "tryLock" /\ ~(left > 0)
    THEN /\ Goto(t, "idle") /\ method' = [method EXCEPT ![t] = "none"]
         /\ lost' = lost + 1
    ELSE Goto(t, "holding") /\ UNCHANGED <<method, lost>>

\* Fault: the state is set without a comparison.
TakeByWrite(t) ==
  /\ pc[t] = "taking"
  /\ state' = seen[t] - 1
  /\ seen' = [seen EXCEPT ![t] = @ - 1]
  /\ Acquired(t, seen[t] - 1)
  /\ UNCHANGED <<queue, woken>>

\* Fault: no loop, the count is returned whether or not it has been set.
TakeOnce(t) ==
  /\ pc[t] = "taking"
  /\ state' = IF state = seen[t] THEN seen[t] - 1 ELSE state
  /\ seen' = [seen EXCEPT ![t] = @ - 1]
  /\ Acquired(t, seen[t] - 1)
  /\ UNCHANGED <<queue, woken>>

\* Fault: success is reported as 0, "no permit is left".
TakeReturnsZero(t) ==
  /\ pc[t] = "taking"
  /\ IF state = seen[t]
     THEN /\ state' = seen[t] - 1
          /\ seen' = [seen EXCEPT ![t] = 0]
          /\ Acquired(t, 0)
     ELSE Goto(t, "reading") /\ UNCHANGED <<state, seen, method, lost>>
  /\ UNCHANGED <<queue, woken>>

\* compareAndSetState(current, newCount): if it fails the loop starts again,
\* else newCount is returned.
CompareAndTake(t) ==
  /\ pc[t] = "taking"
  /\ IF state = seen[t]
     THEN /\ state' = seen[t] - 1
          /\ seen' = [seen EXCEPT ![t] = @ - 1]
          /\ Acquired(t, seen[t] - 1)
     ELSE Goto(t, "reading") /\ UNCHANGED <<state, seen, method, lost>>
  /\ UNCHANGED <<queue, woken>>

\* External: the thread enters the queue.
Enter(t) ==
  /\ pc[t] = "entering"
  /\ Enqueue(t)
  /\ Goto(t, "parked")
  /\ UNCHANGED <<state, method, seen, lost>>

\* External: a woken thread tries again if it is the first one, or parks.
Retry(t) ==
  /\ pc[t] = "parked" /\ t \in woken
  /\ woken' = woken \ {t}
  /\ IF First(t) THEN Goto(t, "reading") ELSE UNCHANGED pc
  /\ UNCHANGED <<queue, state, method, seen, lost>>

\* External: a waiter that has acquired leaves the queue.  The next one is
\* unparked if permits were left or one has been released since.
LeaveQueue(t) ==
  /\ pc[t] = "heading"
  /\ Dequeue(t, seen[t] > 0 \/ t \in woken)
  /\ Goto(t, "holding")
  /\ UNCHANGED <<state, method, seen, lost>>

\* External: an interrupt or a timeout ends the call of a thread that waits.
GiveUp(t) ==
  /\ pc[t] = "parked" /\ method[t] \in {"lockInterruptibly", "tryLockTimed"}
  /\ Cancel(t)
  /\ Goto(t, "idle")
  /\ method' = [method EXCEPT ![t] = "none"]
  /\ UNCHANGED <<state, seen, lost>>

\* unlock(): tryReleaseShared() reads the state ...
Unlock(t) ==
  /\ pc[t] \in {"holding", "again"}
  /\ seen' = [seen EXCEPT ![t] = state]
  /\ Goto(t, "giving")
  /\ UNCHANGED <<queue, woken, state, method, lost>>

\* Fault: the state is set without a comparison.
GiveByWrite(t) ==
  /\ pc[t] = "giving"
  /\ state' = seen[t] + 1
  /\ Goto(t, "signalling")
  /\ UNCHANGED <<queue, woken, method, seen, lost>>

\* Fault: tryReleaseShared() returns false, so nobody is signalled.
GiveSilently(t) ==
  /\ pc[t] = "giving"
  /\ IF state = seen[t]
     THEN /\ state' = seen[t] + 1
          /\ Goto(t, "idle") /\ method' = [method EXCEPT ![t] = "none"]
     ELSE Goto(t, "again") /\ UNCHANGED <<state, method>>
  /\ UNCHANGED <<queue, woken, seen, lost>>

\* ... compares and sets it, or starts again, ...
CompareAndGive(t) ==
  /\ pc[t] = "giving"
  /\ IF state = seen[t]
     THEN state' = seen[t] + 1 /\ Goto(t, "signalling")
     ELSE UNCHANGED state /\ Goto(t, "again")
  /\ UNCHANGED <<queue, woken, method, seen, lost>>

\* ... and, as it returns true, the first waiter is unparked.
Signal(t) ==
  /\ pc[t] = "signalling"
  /\ woken' = Wake(queue, woken)
  /\ Goto(t, "idle")
  /\ method' = [method EXCEPT ![t] = "none"]
  /\ UNCHANGED <<queue, state, seen, lost>>

-----------------------------------------------------------------------------
Proceed(t) ==
  \/ ReadState(t) \/ CompareAndTake(t) \/ Enter(t) \/ Retry(t) \/ LeaveQueue(t)
  \/ Unlock(t) \/ CompareAndGive(t) \/ Signal(t)

Next ==
  \E t \in Thread : Proceed(t) \/ GiveUp(t) \/ \E m \in Method : Call(t, m)

Spec == Init /\ [][Next]_vars

\* Threads run on, and TwinsLockTest unlocks in a finally block.  Nothing makes
\* a thread call, and no interrupt or timeout has to come.
Fairness == \A t \in Thread : WF_vars(Proceed(t))

FairSpec == Spec /\ Fairness

-----------------------------------------------------------------------------
(* Properties.                                                             *)

\* The threads a permit belongs to, from the step that took it to the step
\* that gives it back.
Holders == {t \in Thread : pc[t] \in {"heading", "holding", "again", "giving"}}

\* The state stays within 0 and Permits; the queue holds exactly the threads
\* whose call waits.
TypeOK ==
  /\ QueueOK
  /\ state \in 0 .. Permits /\ lost \in 0 .. Permits
  /\ pc \in [Thread -> {"idle", "reading", "taking", "entering", "parked",
                        "heading", "holding", "again", "giving", "signalling"}]
  /\ method \in [Thread -> Method \cup {"none"}]
  /\ seen \in [Thread -> 0 .. Permits]
  /\ \A t \in Thread :
       /\ pc[t] = "idle" <=> method[t] = "none"
       /\ pc[t] \in {"parked", "heading"} => Queued(t)
       /\ Queued(t) /\ pc[t] \notin {"parked", "heading"} =>
            First(t) /\ pc[t] \in {"reading", "taking"}
       /\ pc[t] = "heading" => First(t)

\* The two loops lose no permit and make none up, whoever else changes the
\* state between their reading it and setting it.
PermitsConserved == state + Cardinality(Holders) + lost = Permits

\* The comment of the class: at most two threads have access at a time.
AtMostTwo == Cardinality({t \in Thread : pc[t] = "holding"}) <= Permits

\* While a permit is free and threads wait, one is on its way to it: a release
\* that meets a waiter on its way in or out of the queue is not lost.
NoLostRelease ==
  state > 0 /\ queue # << >> =>
    \/ \E t \in Thread : pc[t] = "signalling"
    \/ Head(queue) \in woken
    \/ pc[Head(queue)] \in {"reading", "taking"}
    \/ pc[Head(queue)] = "heading" /\ seen[Head(queue)] > 0

\* The lock is the abstract semaphore, with the permits tryLock() loses.
Promise == INSTANCE Semaphore WITH held <- Holders

SemaphoreSpec == Promise!Spec

\* If nobody holds a permit while threads wait, one is taken: the loops of two
\* threads may make each other start again, but not all of them forever.
FreePermitIsTaken ==
  Holders = {} /\ state > 0 /\ queue # << >> ~> Holders # {} \/ state = 0 \/ queue = << >>

\* 第5章_Java中的锁.md, line 18: tryLock() "returns at once, true if the lock can
\* be acquired and false otherwise": a call that says false has taken no permit.
TryLockTakesNothing == lost = 0
=============================================================================
