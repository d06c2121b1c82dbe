------------------------------- MODULE Mutex --------------------------------
(***************************************************************************)
(* fifth_chapter/Mutex.java: an exclusive lock with conditions, built on   *)
(* the exclusive mode of AbstractQueuedSynchronizer.  tryRelease() and     *)
(* isHeldExclusively() do not look at the owner, so a thread may unlock a  *)
(* mutex another one holds, wait for its condition or signal it; from then *)
(* on the lock is "abused" and promises less.                              *)
(*                                                                         *)
(* Of the methods lock() stands for itself, tryLockTimed for all calls     *)
(* that may end while they wait: lockInterruptibly() and tryLock(time).    *)
(***************************************************************************)
EXTENDS SyncQueue

CONSTANTS
  Method,   \* the methods that are called: lock, tryLock, tryLockTimed
  NoThread  \* the owner when there is none

VARIABLES
  state,   \* the state of the synchronizer: 0 is free, 1 is held
  owner,   \* its exclusive owner thread
  pc,      \* where each thread is
  method,  \* the method a thread waits in
  conds,   \* the queue of the one condition
  abused   \* history: unlock, signal, if called by a thread that did not hold it

mutexVars == <<queue, woken, state, owner, pc, method, conds, abused>>

MutexInit ==
  /\ queue = << >> /\ woken = {}
  /\ state = 0 /\ owner = NoThread
  /\ pc = [t \in Thread |-> "idle"]
  /\ method = [t \in Thread |-> "none"]
  /\ conds = << >>
  /\ abused = {}

Goto(t, label) == pc' = [pc EXCEPT ![t] = label]

Forget(t) == method' = [method EXCEPT ![t] = "none"]

Record(t, call) == abused' = IF pc[t] = "idle" THEN abused \cup {call} ELSE abused

\* Every method begins with tryAcquire(1).
Call(t, m) ==
  /\ pc[t] = "idle"
  /\ Goto(t, "trying")
  /\ method' = [method EXCEPT ![t] = m]
  /\ UNCHANGED <<queue, woken, state, owner, conds, abused>>

\* Fault: the state is set whatever it is.
TakeByWrite(t) ==
  /\ pc[t] = "trying"
  /\ state' = 1 /\ Goto(t, "owning") /\ UNCHANGED method
  /\ UNCHANGED <<queue, woken, owner, conds, abused>>

\* compareAndSetState(0, 1).  A call that could not acquire waits; tryLock()
\* is over.
TryAcquire(t) ==
  /\ pc[t] = "trying"
  /\ IF state = 0
     THEN state' = 1 /\ Goto(t, "owning") /\ UNCHANGED method
     ELSE /\ UNCHANGED state
          /\ IF Queued(t) THEN Goto(t, "parked") /\ UNCHANGED method
             ELSE IF method[t] = "tryLock" THEN Goto(t, "idle") /\ Forget(t)
             ELSE Goto(t, "entering") /\ UNCHANGED method
  /\ UNCHANGED <<queue, woken, owner, conds, abused>>

\* setExclusiveOwnerThread(); a waiter still has to leave the queue.
SetOwner(t) ==
  /\ pc[t] = "owning"
  /\ owner' = t
  /\ Goto(t, IF Queued(t) THEN "heading" ELSE "holding")
  /\ Forget(t)
  /\ UNCHANGED <<queue, woken, state, conds, abused>>

\* External: the thread enters the queue.
Enter(t) ==
  /\ pc[t] = "entering"
  /\ Enqueue(t)
  /\ Goto(t, "parked")
  /\ UNCHANGED <<state, owner, method, conds, abused>>

\* External: a woken thread tries again if it is the first one, or parks.
Retry(t) ==
  /\ pc[t] = "parked" /\ t \in woken
  /\ woken' = woken \ {t}
  /\ IF First(t) THEN Goto(t, "trying") ELSE UNCHANGED pc
  /\ UNCHANGED <<queue, state, owner, method, conds, abused>>

\* External: a waiter that has acquired leaves the queue and wakes nobody.
LeaveQueue(t) ==
  /\ pc[t] = "heading"
  /\ Dequeue(t, FALSE)
  /\ Goto(t, "holding")
  /\ UNCHANGED <<state, owner, method, conds, abused>>

\* External: an interrupt or a timeout ends the call of a thread that waits.
GiveUp(t) ==
  /\ pc[t] = "parked" /\ method[t] = "tryLockTimed"
  /\ Cancel(t)
  /\ Goto(t, "idle") /\ Forget(t)
  /\ UNCHANGED <<state, owner, conds, abused>>

\* unlock() by the thread that holds the lock, or by one that does not:
\* tryRelease() throws if the lock is free and asks no more.
Unlock(t) ==
  /\ pc[t] \in {"idle", "holding"}
  /\ Goto(t, IF state = 0 THEN "idle" ELSE "clearing")
  /\ IF state = 0 THEN UNCHANGED abused ELSE Record(t, "unlock")
  /\ UNCHANGED <<queue, woken, state, owner, method, conds>>

\* External: await() joins the queue of the condition, and gives the lock back
\* with the same tryRelease(), whoever holds it.  If the lock is free it throws.
Await(t) ==
  /\ pc[t] \in {"idle", "holding"} /\ state = 1
  /\ conds' = Append(conds, t)
  /\ method' = [method EXCEPT ![t] = "await"]
  /\ Goto(t, "clearing")
  /\ Record(t, "unlock")
  /\ UNCHANGED <<queue, woken, state, owner>>

ClearOwner(t) ==
  /\ pc[t] = "clearing"
  /\ owner' = NoThread
  /\ Goto(t, "freeing")
  /\ UNCHANGED <<queue, woken, state, method, conds, abused>>

\* Fault: the state is set first, the owner is cleared when it is free.
FreeBeforeOwner(t) ==
  /\ pc[t] = "clearing"
  /\ state' = 0
  /\ Goto(t, "freeing")
  /\ UNCHANGED <<queue, woken, owner, method, conds, abused>>

\* setState(0): nothing is compared.
FreeState(t) ==
  /\ pc[t] = "freeing"
  /\ state' = 0
  /\ Goto(t, "signalling")
  /\ UNCHANGED <<queue, woken, owner, method, conds, abused>>

\* Fault: only a call of unlock() unparks the first waiter, not await().
SignalUnlessAwait(t) ==
  /\ pc[t] = "signalling"
  /\ woken' = IF method[t] = "await" THEN woken ELSE Wake(queue, woken)
  /\ Goto(t, IF method[t] # "await" THEN "idle"
             ELSE IF Queued(t) THEN "parked" ELSE "waiting")
  /\ UNCHANGED <<queue, state, owner, method, conds, abused>>

\* As tryRelease() returns true the first waiter is unparked.  Then unlock()
\* returns, and await() parks, unless the thread has been moved to the queue of
\* the lock meanwhile: then it tries for the lock first.
Signal(t) ==
  /\ pc[t] = "signalling"
  /\ IF method[t] = "await" /\ Queued(t)
     THEN woken' = Wake(queue, woken) \cup {t} /\ Goto(t, "parked")
     ELSE /\ woken' = Wake(queue, woken)
          /\ Goto(t, IF method[t] = "await" THEN "waiting" ELSE "idle")
  /\ UNCHANGED <<queue, state, owner, method, conds, abused>>

\* signal() by a thread that does not hold the lock: isHeldExclusively() allows it
\* as the state is 1, but it may be 0 before the thread goes on.
SignalCondition(t) ==
  /\ pc[t] = "idle" /\ state = 1
  /\ Goto(t, "notifying")
  /\ Record(t, "signal")
  /\ UNCHANGED <<queue, woken, state, owner, method, conds>>

\* External: the rest of signal(), or all of it by the holder, whose state does not
\* change meanwhile.  The first thread of the condition goes to the queue of the
\* lock; it is unparked when its turn comes.
DoSignal(t) ==
  /\ pc[t] = "notifying" \/ (pc[t] = "holding" /\ state = 1)
  /\ IF conds = << >> THEN UNCHANGED <<conds, queue>>
     ELSE conds' = Tail(conds) /\ queue' = Append(queue, Head(conds))
  /\ pc' = [u \in Thread |->
              IF u = t /\ pc[u] = "notifying" THEN "idle"
              ELSE IF conds # << >> /\ u = Head(conds) /\ pc[u] = "waiting" THEN "parked"
              ELSE pc[u]]
  /\ UNCHANGED <<woken, state, owner, method, abused>>

\* External: an interrupt or a timeout ends the wait for the condition; the
\* thread has to acquire the lock again all the same.
AwaitEnds(t) ==
  /\ pc[t] = "waiting"
  /\ conds' = SelectSeq(conds, LAMBDA u : u # t)
  /\ Enqueue(t)
  /\ Goto(t, "parked")
  /\ UNCHANGED <<state, owner, method, abused>>

-----------------------------------------------------------------------------
Proceed(t) ==
  \/ TryAcquire(t) \/ SetOwner(t) \/ Enter(t) \/ Retry(t) \/ LeaveQueue(t)
  \/ ClearOwner(t) \/ FreeState(t) \/ Signal(t)

MayDo(t) ==
  \/ Unlock(t) \/ GiveUp(t) \/ Await(t) \/ SignalCondition(t) \/ AwaitEnds(t)
  \/ DoSignal(t) \/ \E m \in Method : Call(t, m)

MutexNext == \E t \in Thread : Proceed(t) \/ MayDo(t)

\* Threads run on; nobody has to call, to unlock or to signal.
MutexSpec ==
  MutexInit /\ [][MutexNext]_mutexVars /\ \A t \in Thread : WF_mutexVars(Proceed(t))

-----------------------------------------------------------------------------
\* The threads the state belongs to, from the step that set it to the step that
\* resets it.
Holders ==
  {t \in Thread : pc[t] \in {"owning", "heading", "holding", "clearing", "freeing"}}

\* Every variable keeps its type.
MutexTypes ==
  /\ state \in {0, 1}
  /\ pc \in [Thread -> {"idle", "trying", "owning", "entering", "parked", "heading",
                        "holding", "clearing", "freeing", "signalling", "waiting",
                        "notifying"}]
  /\ abused \in SUBSET {"unlock", "signal"}

\* One thread at most holds the lock, it is the owner, and its own unlock() will
\* not throw; unless somebody has unlocked, or waited for the condition of, what it
\* did not hold.  A signal by such a thread changes nothing of that.
MutualExclusion ==
  "unlock" \notin abused =>
    /\ state = 1 <=> Holders # {}
    /\ \A t, u \in Holders : t = u
    /\ \A t \in Thread : pc[t] \in {"heading", "holding"} => owner = t

\* A lock that is free while threads wait for it is taken: a release that meets
\* a waiter on its way in, or one that comes from a condition, is not lost.  A thread
\* that signals without holding the lock may move a waiter to the queue after the
\* release that would have woken it.
Progress ==
  state = 0 /\ queue # << >> /\ abused = {} ~> state = 1 \/ queue = << >> \/ abused # {}
=============================================================================
