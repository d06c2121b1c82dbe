----------------------------- MODULE QueueWalk ------------------------------
(***************************************************************************)
(* ContFileQueue: a task for each directory, which puts the size of its    *)
(* files into a bounded queue; main takes sizes from it as long as a       *)
(* directory is being visited or the queue is not empty.                   *)
(***************************************************************************)
EXTENDS FileWalk, Sequences

CONSTANT Capacity   \* ArrayBlockingQueue(500)

VARIABLE queue  \* sizes that have been put and not been taken

vars == <<walkVars, queue>>

Init == WalkInit /\ queue = << >>

Busy == In({"visiting", "listing", "leaving"})

\* startExploreDir(directory), in the main thread.
Begin ==
  /\ main = "start"
  /\ main' = "reading"
  /\ outstanding' = outstanding + 1
  /\ pc' = [pc EXCEPT ![Root] = "queued"]
  /\ UNCHANGED <<tree, todo, size, total, accepting, answer, timedOut, queue>>

\* exporeDir() adds up the files; what is not a file is a directory to it.
Visit(n) ==
  /\ pc[n] = "visiting"
  /\ pc' = [pc EXCEPT ![n] = "listing"]
  /\ todo' = [todo EXCEPT ![n] = DirsIn(tree, n)]
  /\ size' = [size EXCEPT ![n] = SizeOf(IF n \in tree.files THEN {n}
                                        ELSE FilesIn(tree, n))]
  /\ UNCHANGED <<tree, main, outstanding, total, accepting, answer, timedOut, queue>>

\* Fault: the visit is counted by the task itself, or not at all.
SubmitUncounted(n) == \E f \in todo[n] : SubmitEntry(n, f, 0) /\ UNCHANGED queue

Submit(n) == \E f \in todo[n] : SubmitEntry(n, f, 1) /\ UNCHANGED queue

SubmitFails(n) == Rejected(n, 1) /\ UNCHANGED queue

\* queue.put() blocks while the queue is full.
Put(n) ==
  /\ pc[n] = "listing" /\ todo[n] = {} /\ Len(queue) < Capacity
  /\ queue' = Append(queue, size[n])
  /\ pc' = [pc EXCEPT ![n] = "leaving"]
  /\ UNCHANGED <<tree, main, todo, size, outstanding, total, accepting, answer,
                 timedOut>>

Leave(n) ==
  /\ pc[n] = "leaving"
  /\ outstanding' = outstanding - 1
  /\ pc' = [pc EXCEPT ![n] = "ended"]
  /\ UNCHANGED <<tree, main, todo, size, total, accepting, answer, timedOut, queue>>

Goto(from, to) ==
  /\ main = from /\ main' = to
  /\ UNCHANGED <<tree, pc, todo, size, outstanding, total, accepting, answer,
                 timedOut, queue>>

\* Fault: the loop ends with the last visit, whatever is in the queue.
ReadVisitsOnly == Goto("reading", IF outstanding > 0 THEN "polling" ELSE "closing")

\* The condition of the loop, read in two steps.
ReadVisits == Goto("reading", IF outstanding > 0 THEN "polling" ELSE "looking")

ReadQueue == Goto("looking", IF queue # << >> THEN "polling" ELSE "closing")

Poll ==
  /\ main = "polling" /\ queue # << >>
  /\ main' = "reading"
  /\ total' = Plus(total, Head(queue))
  /\ queue' = Tail(queue)
  /\ UNCHANGED <<tree, pc, todo, size, outstanding, accepting, answer, timedOut>>

\* poll(10, SECONDS) returns null: NullPointerException, caught behind the loop.
PollTimesOut == queue = << >> /\ GiveUp("polling") /\ UNCHANGED queue

Step ==
  \/ Begin \/ ReadVisits \/ ReadQueue \/ Poll
  \/ (Shutdown \/ Return(total)) /\ UNCHANGED queue
  \/ \E n \in Node : \/ Take(n, Busy) /\ UNCHANGED queue
                     \/ Visit(n) \/ Submit(n) \/ SubmitFails(n) \/ Put(n) \/ Leave(n)

Next == Step \/ PollTimesOut

Spec == Init /\ [][Next]_vars

-----------------------------------------------------------------------------
\* Main saw a visit that had already put its size: it polls an empty queue
\* until the timeout, and the exception then costs nothing, for the total is
\* complete.
LateNull == main = "polling" /\ queue = << >> /\ outstanding = 0

LateNullCostsNothing == LateNull => total = Full(tree)

\* Main waits for a size that never comes, or tasks wait in put() and main,
\* which has given up, takes nothing any more.
NeedsTimeout == LateNull \/ (timedOut /\ Len(queue) = Capacity)
=============================================================================
