----------------------------- MODULE LevelWalk ------------------------------
(***************************************************************************)
(* CountFileParallel: main submits a task for each directory of a level,   *)
(* and the subdirectories that the tasks found are the next level.  The    *)
(* tasks wait for nobody.                                                  *)
(***************************************************************************)
EXTENDS FileWalk, Sequences

VARIABLES
  fileList,  \* directories to submit, or those found for the next level
  futures    \* the tasks of this level that main has still to get

levelVars == <<fileList, futures>>
vars == <<walkVars, levelVars>>

Init == WalkInit /\ fileList = {Root} /\ futures = << >>

Busy == In({"visiting"})

Begin ==
  /\ main = "start"
  /\ main' = "submitting"
  /\ UNCHANGED <<tree, pc, todo, size, outstanding, total, accepting, answer,
                 timedOut, levelVars>>

Submit(f) ==
  /\ main = "submitting" /\ f \in fileList
  /\ fileList' = fileList \ {f}
  /\ futures' = Append(futures, f)
  /\ pc' = [pc EXCEPT ![f] = "queued"]
  /\ UNCHANGED <<tree, main, todo, size, outstanding, total, accepting, answer, timedOut>>

\* getSubdirectoryInfo(): a node that is no directory has nothing.
Visit(n) ==
  /\ pc[n] = "visiting"
  /\ pc' = [pc EXCEPT ![n] = "done"]
  /\ size' = [size EXCEPT ![n] = SizeOf(FilesIn(tree, n))]
  /\ todo' = [todo EXCEPT ![n] = DirsIn(tree, n)]
  /\ UNCHANGED <<tree, main, outstanding, total, accepting, answer, timedOut, levelVars>>

Collect ==
  /\ main = "submitting" /\ fileList = {}
  /\ main' = "collecting"
  /\ UNCHANGED <<tree, pc, todo, size, outstanding, total, accepting, answer,
                 timedOut, levelVars>>

Get ==
  /\ main = "collecting" /\ futures # << >> /\ pc[Head(futures)] = "done"
  /\ total' = Plus(total, size[Head(futures)])
  /\ fileList' = fileList \cup todo[Head(futures)]
  /\ futures' = Tail(futures)
  /\ UNCHANGED <<tree, main, pc, todo, size, outstanding, accepting, answer, timedOut>>

\* TimeoutException out of get(10, SECONDS).
GetTimesOut ==
  /\ futures # << >> /\ pc[Head(futures)] # "done"
  /\ GiveUp("collecting") /\ UNCHANGED levelVars

NextLevel ==
  /\ main = "collecting" /\ futures = << >>
  /\ main' = IF fileList = {} THEN "closing" ELSE "submitting"
  /\ UNCHANGED <<tree, pc, todo, size, outstanding, total, accepting, answer,
                 timedOut, levelVars>>

Step ==
  \/ Begin \/ Collect \/ Get \/ NextLevel
  \/ (Shutdown \/ Return(total)) /\ UNCHANGED levelVars
  \/ \E n \in Node : \/ Take(n, Busy) /\ UNCHANGED levelVars
                     \/ Submit(n) \/ Visit(n)

Next == Step \/ GetTimesOut

Spec == Init /\ [][Next]_vars
=============================================================================
