---------------------------- MODULE FileCounters ----------------------------
(***************************************************************************)
(* The programs of demo/file on the same file systems.  A behaviour is one *)
(* of one of the programs, and each answer is compared with that of        *)
(* CountFileDriect.                                                        *)
(***************************************************************************)
EXTENDS FileWalk, Sequences

CONSTANT Capacity

VARIABLES
  program,  \* which of the programs this behaviour is of
  latch, queue, futures, fileList, stack  \* as in their modules

Latch == INSTANCE LatchWalk
Queue == INSTANCE QueueWalk
Future == INSTANCE FutureWalk
Level == INSTANCE LevelWalk
ForkJoin == INSTANCE ForkJoinWalk

own == <<latch, queue, futures, fileList, stack>>
vars == <<program, walkVars, own>>

Init ==
  /\ program \in {"latch", "queue", "future", "level", "forkjoin"}
  /\ WalkInit
  /\ latch = FALSE /\ queue = << >>
  /\ futures = IF program = "future" THEN [n \in Node |-> << >>] ELSE << >>
  /\ fileList = IF program = "level" THEN {Root} ELSE {}
  /\ stack = IF program = "forkjoin" THEN [w \in 1 .. PoolSize |-> << >>] ELSE << >>

Run(name, action, others) == program = name /\ action /\ UNCHANGED <<program, others>>

Step ==
  \/ Run("latch", Latch!Step, <<queue, futures, fileList, stack>>)
  \/ Run("queue", Queue!Step, <<latch, futures, fileList, stack>>)
  \/ Run("future", Future!Step, <<latch, queue, fileList, stack>>)
  \/ Run("level", Level!Step, <<latch, queue, stack>>)
  \/ Run("forkjoin", ForkJoin!Next, <<latch, queue, futures, fileList>>)

Timeout ==
  \/ Run("latch", Latch!AwaitTimesOut, <<queue, futures, fileList, stack>>)
  \/ Run("queue", Queue!PollTimesOut, <<latch, futures, fileList, stack>>)
  \/ Run("future", \E n \in Node : Future!GetTimesOut(n), <<latch, queue, fileList, stack>>)
  \/ Run("level", Level!GetTimesOut, <<latch, queue, stack>>)

Next == Step \/ Timeout

\* Threads that can go on do; no timeout has to come.
Spec == Init /\ [][Next]_vars /\ WF_vars(Step)

-----------------------------------------------------------------------------
\* No interleaving makes any of the programs count a file twice, not even one
\* that gives up.
NoFileTwice == \A s \in {total, answer} : AtMost(s, Full(tree))

\* CountFileDriect, which recurses, adds every file below the root exactly once.
SequentialRight == CountFileSileInDir(tree)[Root] = Full(tree)

\* Whatever the threads do, the answer of each of the others is that same sum
\* unless a wait ended with its timeout.  Asked for a single file,
\* CountFileParallel answers 0: it looks at the entries of directories only.
AnswerRight ==
  main = "returned" /\ ~timedOut /\ ~(program = "level" /\ Root \in tree.files)
    => answer = Full(tree)

\* The latch is opened by the last task, after everything has been added.
LatchOpensLast == program = "latch" => Latch!LatchOpensLast

\* A poll that ends with null when no directory is being visited costs a
\* delay and a stack trace, but no size.
LateNullCostsNothing == program = "queue" => Queue!LateNullCostsNothing

\* All threads of the naive program wait for each other only when there are
\* more directories than threads, as the comment on the class says.
DeadlockNeedsDirectories == program = "future" => Future!DeadlockNeedsDirectories

\* The naive program never answers with a part of the files.
AllOrNothing == program = "future" => Future!AllOrNothing

\* The waits that only a timeout ends.
NeedsTimeout ==
  \/ program = "latch" /\ Latch!NeedsTimeout
  \/ program = "queue" /\ Queue!NeedsTimeout
  \/ program = "future" /\ Future!NeedsTimeout

\* Every program comes to its end, main and all tasks, unless it is in one of
\* those waits: no other wait can last for ever.
EndsByItself ==
  <>[](\/ main = "returned" /\ In({"queued", "visiting", "listing", "leaving", "opening"}) = {}
       \/ NeedsTimeout)
=============================================================================
