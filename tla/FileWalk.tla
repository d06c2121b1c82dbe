------------------------------ MODULE FileWalk ------------------------------
(***************************************************************************)
(* What the concurrent programs of demo/file have in common: main, a fixed *)
(* pool of threads (external: java.util.concurrent), and one task at most  *)
(* for each node, whose progress and locals are kept with the node.  The   *)
(* threads of the pool are alike and are only counted; any queued task may *)
(* be the next to run, as nothing rests on the order.                      *)
(***************************************************************************)
EXTENDS FileTree

CONSTANT PoolSize   \* newFixedThreadPool(10)

ASSUME PoolAssumption == PoolSize \in Nat \ {0}

VARIABLES
  tree,         \* the file system, which does not change
  main,         \* where the main thread is
  pc,           \* where the task of each node is
  todo,         \* the entries its loop has not come to
  size,         \* its local sum
  outstanding,  \* the counter of tasks: files, fileVists
  total,        \* the sum of the whole walk
  accepting,    \* service.shutdown() has not been called
  answer,       \* what getTotalFileSize() returned
  timedOut      \* a wait ended with its timeout

walkVars == <<tree, main, pc, todo, size, outstanding, total, accepting, answer,
              timedOut>>

In(labels) == {n \in Node : pc[n] \in labels}

WalkInit ==
  /\ tree \in Trees
  /\ main = "start"
  /\ pc = [n \in Node |-> "unseen"]
  /\ todo = [n \in Node |-> {}]
  /\ size = [n \in Node |-> Nothing]
  /\ outstanding = 0 /\ total = Nothing
  /\ accepting = TRUE
  /\ answer = Nothing /\ timedOut = FALSE

\* A thread of the pool begins with a task that waits in the queue.  busy are
\* the tasks that hold a thread.
Take(n, busy) ==
  /\ pc[n] = "queued" /\ Cardinality(busy) < PoolSize
  /\ pc' = [pc EXCEPT ![n] = "visiting"]
  /\ UNCHANGED <<tree, main, todo, size, outstanding, total, accepting, answer,
                 timedOut>>

\* The task of n submits one for its entry f, counted before it is submitted:
\* n itself is still counted, so nobody sees the difference of one.
SubmitEntry(n, f, count) ==
  /\ pc[n] = "listing" /\ f \in todo[n] /\ accepting
  /\ todo' = [todo EXCEPT ![n] = @ \ {f}]
  /\ pc' = [pc EXCEPT ![f] = "queued"]
  /\ outstanding' = outstanding + count
  /\ UNCHANGED <<tree, main, size, total, accepting, answer, timedOut>>

\* After the shutdown submit() throws RejectedExecutionException, which ends
\* the task; its future, that nobody looks at, keeps it.
Rejected(n, count) ==
  /\ pc[n] = "listing" /\ todo[n] # {} /\ ~accepting
  /\ pc' = [pc EXCEPT ![n] = "failed"]
  /\ outstanding' = outstanding + count
  /\ UNCHANGED <<tree, main, todo, size, total, accepting, answer, timedOut>>

\* service.shutdown(): what is queued will still run.
Shutdown ==
  /\ main = "closing"
  /\ main' = "returning"
  /\ accepting' = FALSE
  /\ UNCHANGED <<tree, pc, todo, size, outstanding, total, answer, timedOut>>

Return(value) ==
  /\ main = "returning"
  /\ main' = "returned"
  /\ answer' = value
  /\ UNCHANGED <<tree, pc, todo, size, outstanding, total, accepting, timedOut>>

\* A timed wait of main ends and the exception, if any, leads to the shutdown.
GiveUp(label) ==
  /\ main = label
  /\ main' = "closing"
  /\ timedOut' = TRUE
  /\ UNCHANGED <<tree, pc, todo, size, outstanding, total, accepting, answer>>
=============================================================================
