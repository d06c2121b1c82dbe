---------------------------- MODULE ForkJoinWalk ----------------------------
(***************************************************************************)
(* CountByRecursiveTask: FileSizeFinder tasks in a ForkJoinPool.  A worker *)
(* that has to join a task nobody has begun runs it itself (external:      *)
(* ForkJoinTask.invokeAll and join), so it keeps a stack of tasks.         *)
(***************************************************************************)
EXTENDS FileWalk, SequencesExt

VARIABLE stack  \* the tasks each worker is in, the innermost one last

vars == <<walkVars, stack>>

Worker == 1 .. PoolSize

Init == WalkInit /\ stack = [w \in Worker |-> << >>]

\* pool.invoke(): main waits for the task of the root.
Begin ==
  /\ main = "start"
  /\ main' = "returning"
  /\ pc' = [pc EXCEPT ![Root] = "queued"]
  /\ UNCHANGED <<tree, todo, size, outstanding, total, accepting, answer, timedOut,
                 stack>>

\* Fault: a worker waits for every task it has forked, as in a plain pool.
ComputeIdle(w, n) ==
  /\ pc[n] = "queued" /\ stack[w] = << >>
  /\ stack' = [stack EXCEPT ![w] = Append(@, n)]
  /\ pc' = [m \in Node |-> IF m = n THEN "visiting"
                           ELSE IF m \in DirsIn(tree, n) THEN "queued" ELSE pc[m]]
  /\ size' = [size EXCEPT ![n] = SizeOf(IF n \in tree.files THEN {n}
                                        ELSE FilesIn(tree, n))]
  /\ todo' = [todo EXCEPT ![n] = DirsIn(tree, n)]
  /\ UNCHANGED <<tree, main, outstanding, total, accepting, answer, timedOut>>

\* compute() up to invokeAll(): the files are added, the directories forked.
Compute(w, n) ==
  /\ pc[n] = "queued"
  /\ stack[w] # << >> => n \in todo[Last(stack[w])]
  /\ stack' = [stack EXCEPT ![w] = Append(@, n)]
  /\ pc' = [m \in Node |-> IF m = n THEN "visiting"
                           ELSE IF m \in DirsIn(tree, n) THEN "queued" ELSE pc[m]]
  /\ size' = [size EXCEPT ![n] = SizeOf(IF n \in tree.files THEN {n}
                                        ELSE FilesIn(tree, n))]
  /\ todo' = [todo EXCEPT ![n] = DirsIn(tree, n)]
  /\ UNCHANGED <<tree, main, outstanding, total, accepting, answer, timedOut>>

Join(w) ==
  /\ stack[w] # << >>
  /\ LET n == Last(stack[w])
     IN  \E m \in todo[n] :
           /\ pc[m] = "done"
           /\ size' = [size EXCEPT ![n] = Plus(@, size[m])]
           /\ todo' = [todo EXCEPT ![n] = @ \ {m}]
  /\ UNCHANGED <<tree, main, pc, outstanding, total, accepting, answer, timedOut, stack>>

Finish(w) ==
  /\ stack[w] # << >> /\ todo[Last(stack[w])] = {}
  /\ pc' = [pc EXCEPT ![Last(stack[w])] = "done"]
  /\ stack' = [stack EXCEPT ![w] = Front(@)]
  /\ UNCHANGED <<tree, main, todo, size, outstanding, total, accepting, answer, timedOut>>

Next ==
  \/ Begin
  \/ pc[Root] = "done" /\ Return(size[Root]) /\ UNCHANGED stack
  \/ \E w \in Worker : \/ Join(w) \/ Finish(w)
                       \/ \E n \in Node : Compute(w, n)

Spec == Init /\ [][Next]_vars
=============================================================================
