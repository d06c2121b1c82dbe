----------------------------- MODULE FutureWalk -----------------------------
(***************************************************************************)
(* NaivlyConcurrentTotalFileSize: a task for each entry, which keeps its   *)
(* thread while it waits for the tasks of its own entries.  Main runs      *)
(* getFileSize() for the root.                                             *)
(***************************************************************************)
EXTENDS FileWalk, Sequences

VARIABLE futures  \* the entries of each node it has still to get, in order

vars == <<walkVars, futures>>

Init == WalkInit /\ futures = [n \in Node |-> << >>]

\* Fault: the root is submitted as well, and main waits for it.
BusyWithRoot == In({"visiting", "listing"})

\* The tasks that hold a thread of the pool: the root runs in main.
Busy == In({"visiting", "listing"}) \ {Root}

Begin ==
  /\ main = "start"
  /\ main' = "walking"
  /\ pc' = [pc EXCEPT ![Root] = "visiting"]
  /\ UNCHANGED <<tree, todo, size, outstanding, total, accepting, answer, timedOut,
                 futures>>

Visit(n) ==
  /\ pc[n] = "visiting"
  /\ pc' = [pc EXCEPT ![n] = "listing"]
  /\ todo' = [todo EXCEPT ![n] = Listing(tree, n)]
  /\ size' = [size EXCEPT ![n] = SizeOf({n} \cap tree.files)]
  /\ UNCHANGED <<tree, main, outstanding, total, accepting, answer, timedOut, futures>>

Submit(n) ==
  \E f \in todo[n] :
    /\ SubmitEntry(n, f, 0)
    /\ futures' = [futures EXCEPT ![n] = Append(@, f)]

SubmitFails(n) == Rejected(n, 0) /\ UNCHANGED futures

Waits(n) == pc[n] = "listing" /\ todo[n] = {} /\ futures[n] # << >>

\* Fault: the sum of an entry is read whether or not its task has ended.
GetEarly(n) ==
  /\ Waits(n)
  /\ size' = [size EXCEPT ![n] = Plus(@, size[Head(futures[n])])]
  /\ futures' = [futures EXCEPT ![n] = Tail(@)]
  /\ UNCHANGED <<tree, main, pc, todo, outstanding, total, accepting, answer, timedOut>>

Get(n) ==
  /\ Waits(n) /\ pc[Head(futures[n])] = "done"
  /\ size' = [size EXCEPT ![n] = Plus(@, size[Head(futures[n])])]
  /\ futures' = [futures EXCEPT ![n] = Tail(@)]
  /\ UNCHANGED <<tree, main, pc, todo, outstanding, total, accepting, answer, timedOut>>

\* The task of n ends, and for the root so does getFileSize() in main.
End(n, label) ==
  /\ pc' = [pc EXCEPT ![n] = label]
  /\ main' = IF n = Root THEN "closing" ELSE main
  /\ UNCHANGED <<tree, todo, size, outstanding, total, accepting, answer, futures>>

\* ExecutionException out of get().
GetFails(n) ==
  /\ Waits(n) /\ pc[Head(futures[n])] = "failed"
  /\ End(n, "failed") /\ UNCHANGED timedOut

\* TimeoutException out of get(100, SECONDS).
GetTimesOut(n) ==
  /\ Waits(n) /\ pc[Head(futures[n])] \notin {"done", "failed"}
  /\ End(n, "failed") /\ timedOut' = TRUE

Finish(n) ==
  /\ pc[n] = "listing" /\ todo[n] = {} /\ futures[n] = << >>
  /\ End(n, "done") /\ UNCHANGED timedOut

\* A failure of the root is caught, and the answer is 0.
Answer == IF pc[Root] = "done" THEN size[Root] ELSE Nothing

Step ==
  \/ Begin
  \/ (Shutdown \/ Return(Answer)) /\ UNCHANGED futures
  \/ \E n \in Node : \/ Take(n, Busy) /\ UNCHANGED futures
                     \/ Visit(n) \/ Submit(n) \/ SubmitFails(n)
                     \/ Get(n) \/ GetFails(n) \/ Finish(n)

Next == Step \/ \E n \in Node : GetTimesOut(n)

Spec == Init /\ [][Next]_vars

-----------------------------------------------------------------------------
\* The comment on the class: every thread waits for an entry, and no thread is
\* left to run the ones that are queued.
Deadlock ==
  /\ Cardinality(Busy) = PoolSize
  /\ \A n \in Busy : Waits(n) /\ pc[Head(futures[n])] \notin {"done", "failed"}

Directories == {n \in Visible(tree) : Listing(tree, n) # {}}

\* It takes, with the root, more directories than threads.
DeadlockNeedsDirectories == Deadlock => Cardinality(Directories) > PoolSize

\* The sizes are added up in full or the answer is 0, never in part.
AllOrNothing == main = "returned" => answer \in {Full(tree), Nothing}

NeedsTimeout == Deadlock
=============================================================================
