----------------------------- MODULE LatchWalk ------------------------------
(***************************************************************************)
(* ConcurrentTotalFileSizeLatch: a task for each entry, a counter of tasks *)
(* that have not ended, and a latch for the one that counts it down to     *)
(* zero.  Main runs the task of the root itself.                           *)
(***************************************************************************)
EXTENDS FileWalk

VARIABLE latch  \* CountDownLatch(1) has been counted down

vars == <<walkVars, latch>>

Init == WalkInit /\ latch = FALSE

\* The tasks that hold a thread of the pool.
Busy == In({"visiting", "listing", "leaving", "opening"}) \ {Root}

Begin ==
  /\ main = "start"
  /\ main' = "walking"
  /\ outstanding' = outstanding + 1
  /\ pc' = [pc EXCEPT ![Root] = "visiting"]
  /\ UNCHANGED <<tree, todo, size, total, accepting, answer, timedOut, latch>>

Visit(n) ==
  /\ pc[n] = "visiting" /\ n \notin tree.unreadable
  /\ pc' = [pc EXCEPT ![n] = "listing"]
  /\ todo' = [todo EXCEPT ![n] = Listing(tree, n)]
  /\ size' = [size EXCEPT ![n] = SizeOf({n} \cap tree.files)]
  /\ UNCHANGED <<tree, main, outstanding, total, accepting, answer, timedOut, latch>>

\* listFiles() returned null: NullPointerException.  In the pool nobody sees
\* it; main catches it.
VisitFails(n) ==
  /\ pc[n] = "visiting" /\ n \in tree.unreadable
  /\ pc' = [pc EXCEPT ![n] = "failed"]
  /\ main' = IF n = Root THEN "closing" ELSE main
  /\ UNCHANGED <<tree, todo, size, outstanding, total, accepting, answer, timedOut,
                 latch>>

\* Fault: the entry is submitted and not counted.
SubmitUncounted(n) ==
  \E f \in todo[n] : SubmitEntry(n, f, 0) /\ UNCHANGED latch

Submit(n) == \E f \in todo[n] : SubmitEntry(n, f, 1) /\ UNCHANGED latch

SubmitFails(n) == Rejected(n, 1) /\ UNCHANGED latch

\* Fault: a directory adds the sizes of its files, which add themselves.
AddFilesToo(n) ==
  /\ pc[n] = "listing" /\ todo[n] = {}
  /\ total' = Plus(Plus(total, size[n]), SizeOf(FilesIn(tree, n)))
  /\ pc' = [pc EXCEPT ![n] = "leaving"]
  /\ UNCHANGED <<tree, main, todo, size, outstanding, accepting, answer, timedOut,
                 latch>>

Add(n) ==
  /\ pc[n] = "listing" /\ todo[n] = {}
  /\ total' = Plus(total, size[n])
  /\ pc' = [pc EXCEPT ![n] = "leaving"]
  /\ UNCHANGED <<tree, main, todo, size, outstanding, accepting, answer, timedOut,
                 latch>>

\* files.decrementAndGet(): the task has ended unless that was the last one.
Leave(n) ==
  /\ pc[n] = "leaving"
  /\ outstanding' = outstanding - 1
  /\ pc' = [pc EXCEPT ![n] = IF outstanding' = 0 THEN "opening" ELSE "ended"]
  /\ main' = IF n = Root /\ outstanding' # 0 THEN "awaiting" ELSE main
  /\ UNCHANGED <<tree, todo, size, total, accepting, answer, timedOut, latch>>

\* latch.countDown().
CountDown(n) ==
  /\ pc[n] = "opening"
  /\ latch' = TRUE
  /\ pc' = [pc EXCEPT ![n] = "ended"]
  /\ main' = IF n = Root THEN "awaiting" ELSE main
  /\ UNCHANGED <<tree, todo, size, outstanding, total, accepting, answer, timedOut>>

AwaitOpens ==
  /\ main = "awaiting" /\ latch
  /\ main' = "closing"
  /\ UNCHANGED <<tree, pc, todo, size, outstanding, total, accepting, answer,
                 timedOut, latch>>

\* latch.await(10, SECONDS) returns false, and nobody asks.
AwaitTimesOut == ~latch /\ GiveUp("awaiting") /\ UNCHANGED latch

Step ==
  \/ Begin \/ AwaitOpens
  \/ (Shutdown \/ Return(total)) /\ UNCHANGED latch
  \/ \E n \in Node : \/ Take(n, Busy) /\ UNCHANGED latch
                     \/ Visit(n) \/ VisitFails(n) \/ Submit(n) \/ SubmitFails(n)
                     \/ Add(n) \/ Leave(n) \/ CountDown(n)

Next == Step \/ AwaitTimesOut

Spec == Init /\ [][Next]_vars

-----------------------------------------------------------------------------
\* The latch opens when everything has been added, and not while a task is
\* queued or running: the counter is never at zero too early.
LatchOpensLast ==
  latch => /\ total = Full(tree)
           /\ In({"queued", "visiting", "listing", "leaving", "opening"}) = {}

\* Only main's await() can last, and only if a directory could not be listed.
NeedsTimeout ==
  main = "awaiting" /\ Visible(tree) \cap tree.unreadable # {}
=============================================================================
