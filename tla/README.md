# TLA+ specifications of the Java concurrency examples and the diagram script

The repository holds study notes on Java concurrency and the programs that go
with them (`java/src/main/java/codes/...`): a thread pool, locks built on
`AbstractQueuedSynchronizer`, a blocking queue, directory walkers, socket
servers. The pages that show the notes draw their diagrams with the script
`js/mermaid.core.js`. These modules specify the programs whose correctness
depends on the order of the steps of several threads, and the parts of the
script that keep state from one call to the next. TLC checks them on small
instances and TLAPS proves the most important invariants for all sizes.

Paths of Java programs are relative to `java/src/main/java/codes/`.

## Components

| component | state | operations | what makes it correct | modules |
|---|---|---|---|---|
| thread pool, `fourth_chapter/threadpool` | job list with its monitor, list of workers, two counters, a flag per worker | `execute`, worker loop, `addWorkers`, `removeWorker`, `shutdown` | no job lost or run twice, in order; no lost wake-up; size limit; every worker can be stopped | `JobService`, `DefaultThreadPool` |
| blocking queue, `fifth_chapter/BlockQueue` | array, count, lock, two conditions | `add`, `remove`, `removeFromEnd` | a bounded deque; `signal()` loses nothing | `BoundedDeque`, `BlockQueue` |
| twins lock, `fifth_chapter/TwinsLock` | state, sync queue | four acquiring methods, `unlock` | at most two holders, permits conserved, no lost release | `Semaphore`, `SyncQueue`, `TwinsLock` |
| mutex, `fifth_chapter/Mutex` | state, owner, sync queue, condition | four acquiring methods, `unlock`, `await`, `signal` | one holder, who is the owner; no lost release | `Mutex` |
| file size counters, `demo/file` | counters, latch, queue, pool | one walk of a tree, six ways | each file counted once; only a timeout makes an answer incomplete | `FileTree`, `FileWalk` and one module per program |
| payment, `demo/pay` | result map, latch | parallel consultation with a timeout | a timely answer is seen, a missing one is the default | `PaymentDemo` |
| singletons, `demo/singleton` | the instance, a latch | `getInstance` | one instance | `SingletonTest` |
| AVL tree, `demo/AVLDemo` | nodes with their heights | `insert` | a balanced search tree, no stale height | `AVLDemo` |
| socket servers, `demo/socket` | selector keys, handler pool | accept, read, write | one connection does not stop the others | `NioServer` (the NIO server) |
| diagram script: timer queue | callbacks, two timers, a flag | `process.nextTick` | each callback once, in order, though others throw | `NextTick` |
| diagram script: gitGraph | commits, branches, head | the statements, drawing | a merge loses no history, each line drawn once | `GitGraph` |
| diagram script: gantt | tasks, ids | the tasks, compiling them in passes | times that are consistent with what a task waits for | `Gantt` |
| diagram script: sequence diagram | bounds, open loops and activations | the signals, the picture | loops enclose what is in them, the picture holds all | `SequenceDiagram` |
| diagram script: flowchart | vertices, links, subgraphs | the statements, building the graph | each vertex in its subgraph, no circle | `FlowChart` |

What is not modelled, and why, is listed at the end.

Components meet in few places: clients share the objects of one component
(monitor, condition queues, atomic state), and every one of them rests on the
Java library. The library is modelled by its contract where the code uses it
(`SyncQueue`, condition queues, the monitor's wait set, `ArrayList.modCount`, the selector).
The script has one thread: what interleaves there are its events, and the
diagrams of one page, which share the state that is not cleared between them.
No component persists anything, so there are no crashes to recover from.

## Modules

### DefaultThreadPool

`execute()` and the `synchronized` block of `Worker.run()` hold the monitor of
`jobs` throughout, so each is one action (`Execute`, `TakeJob`, `WaitForJob`,
`LeaveInterrupted`). The loop condition is read outside and is its own action
(`CheckRunning`); so is the job itself (`RunJob`), which may return, throw
(nobody catches it: the thread dies and stays listed) or leave the thread
interrupted. `notify()` takes any thread out of the wait set, and a wait may end
by itself (`SpuriousWakeup`).

Administrative calls are split wherever another thread can get in:
`addWorkers()` reads `workerNumber` in its test (`AddWorkers`), in its clamp
(`ClampNum`), and again in `+=` (`ReadForAdd`, `StoreAdded`), and starts one
worker per `SpawnWorker`. Its argument is any int, and the sums wrap around
(`Wrap`, with `MaxInt` for 2^31 - 1). `removeWorker()` keeps the monitor from
`RemoveWorker` to `StoreRemoved` or `RemoveFails`, which keeps workers and
producers out but not `addWorkers()` or `shutdown()`; so `workers.get(count)`
(`RemoveGet`), `workers.remove(worker)` (`RemoveOne`) and `worker.shutdown()`
(`StopRemoved`) are steps of their own. `count` grows while the list shrinks, and
past the end of the list `RemoveFails` is the exception. `shutdown()` is an
iteration with the fail-fast iterator of `ArrayList`: `ShutdownNext` needs an
unchanged `modCount`, `StopListed` tells the worker to stop whatever has become of
the list since, and `ShutdownEnds` covers both `hasNext()` being false (cursor
equals size) and the exception. What the JDK does inside one `add()`, `remove()` or
`next()` is one step.

Three histories serve the properties and no guard: `late` counts the jobs a
worker takes after it was told to stop, `told` are the workers a `shutdown()` has
stopped, and `misused` records that `addWorkers()` or `removeWorker()` was called
while one of them was under way, or `addWorkers()` with a negative number or one
whose sum with `workerNumber` is no int. Nothing in the code prevents either.

`JobService` is what the pool promises: jobs are accepted, started in that order,
each once, and end.

### BlockQueue

Under the lock, a method runs in one stretch from `lock()` or from the return of
`await()` to the next `await()` or `unlock()`: one action per stretch. A thread that
has been signalled (`pc = "signalled"`) competes for the lock with callers
(`"locking"`), as `ReentrantLock` is not fair. `notFull` and `notEmpty` are the two
condition queues. `Interrupt` covers every moment: a waiter leaves its queue and
will throw, a signalled one keeps its signal, any other thread throws at its
next `await()`.

`BoundedDeque` is the promise: append at the end, hand out from either end.

### SyncQueue and TwinsLock

`SyncQueue` is external: the queue of `AbstractQueuedSynchronizer`, of which
only the first thread tries again, with `woken` for the permit of `unpark()` and
the rule that a new thread tries once before it parks. `TwinsLock` translates
`Sync`: the read of `getState()` and the `compareAndSetState()` of both loops are
separate actions (`ReadState`/`CompareAndTake`, `Unlock`/`CompareAndGive`). The
external steps are entering the queue (`Enter`), retrying (`Retry`), leaving it with
propagation (`LeaveQueue`), and timing out or being interrupted (`GiveUp`).
`releaseShared()` unparks the first waiter in a step after the release (`Signal`).

`Semaphore` is the promise, with a step for the permit `tryLock()` loses.

### FileTree, FileWalk and the five walkers

`FileTree` holds the file systems (entries, files, directories that `listFiles()`
returns `null` for) and `CountFileDriect` as a recursive function. A size is a
function from nodes to the number of times that node's size has been added, so a
total is right only if it is right for every file.

`FileWalk` holds what the concurrent programs share. There is at most one task
for a node, so `pc`, `todo` (the rest of its loop) and `size` (its local sum)
are kept by node; threads of a fixed pool are alike and are counted (`Busy`
against `PoolSize`), and any queued task may be taken next. A counter is
incremented and the task submitted in one step: the submitting task is itself
still counted, so no thread can tell the difference. `Rejected` is a `submit()`
after the shutdown.

| module | program | own steps |
|---|---|---|
| `LatchWalk` | `ConcurrentTotalFileSizeLatch` | main runs the task of the root (`Begin`), adds and counts down (`Add`, `Leave`), opens the latch in a step of its own (`CountDown`), `VisitFails` is the lost `NullPointerException`, `AwaitOpens` and `AwaitTimesOut` |
| `QueueWalk` | `ContFileQueue` | the loop condition in two reads (`ReadVisits`, `ReadQueue`), `Poll`, `PollTimesOut` (null is unboxed), `Put` into the bounded queue before `Leave` |
| `FutureWalk` | `NaivlyConcurrentTotalFileSize` | a task keeps its thread while it waits (`Waits`, `Get`, `GetFails`, `GetTimesOut`) |
| `LevelWalk` | `CountFileParallel` | main submits a level and collects it (`Submit`, `Collect`, `Get`, `NextLevel`) |
| `ForkJoinWalk` | `CountByRecursiveTask` | each worker has a stack; a task nobody has begun is run by the worker that joins it (`Compute`) |

`FileCounters` puts them side by side: `program` is chosen in the initial state
and only that program's actions are taken, on the same file systems, and every
answer is compared with what `CountFileDriect` computes.

### Mutex

`Mutex` uses `SyncQueue` as `TwinsLock` does. `tryAcquire()` is two steps
(`TryAcquire`, `SetOwner`), and so is `tryRelease()` (`ClearOwner`, `FreeState`),
before the first waiter is unparked (`Signal`). As `tryRelease()` does not look at
the owner `Unlock` may be called by a thread that holds nothing. `await()` and
`signal()` of a condition are external, modelled as far as they call the code:
`Await` gives the lock back with the same `tryRelease()`, and its thread acquires
again when it is signalled (`DoSignal`), interrupted or timed out (`AwaitEnds`).
`isHeldExclusively()` looks at the state only, so threads that do not hold the lock
get past it too, and for them the state may have changed before the signal
(`SignalCondition`, then `DoSignal`). `abused` remembers such calls; every state
behind them is explored. `MutualExclusion` says what holds until somebody has
unlocked, or waited for the condition of, what it did not hold; `Progress` also
excludes such a signal, which may move a waiter to the queue of the lock after the
release that would have woken it.

### PaymentDemo, SingletonTest and AVLDemo

`PaymentDemo`: the list the call is given may be empty or hold a type twice
(`Prepare` throws), a service answers or throws (`ServiceThrows`), the map is
written (`Put`) before the latch is counted down (`CountDown`), and the caller
reads the same map while late tasks still write to it (`Read`): a write the latch
does not order before the read may be seen or not.

`SingletonTest`: the check, the lock with the second check, the constructor and
the write of the volatile field are steps of their own, so is the last read of
the field; main counts the different instances when the latch opens.

`AVLDemo`: `insert()` and the rotations as functions on trees, with the stored
heights computed in the order of the code. `insert()` tests the value twice: the
second test is of the node a rotation has put in the place of the first one, and
after a double rotation the value can be inserted there a second time.
`InsertInto` is a recursive function on the trees with at most `n` nodes on a way
down, so that the prover can follow it.

### NioServer

The loop of `run()` over the selected keys, one step for each of its calls:
`Select`, `NextKey` with the test of `isValid()`, `Accept` (or `NotAcceptable`), `Read`,
`AskWritable`. Clients connect, send, close and break off at any time; one that
gives up before it is accepted makes `accept()` return null, and the
`NullPointerException` ends the thread as well.

### NextTick, GitGraph, Gantt, SequenceDiagram and FlowChart

`NextTick` is the timer queue of `process.nextTick()`: `FireDrain` and `FireCleanUp`
are the two timers, `Begin` starts the next callback, which may call
`process.nextTick()` (`CallNextTick`), return, or throw out of `drainQueue()`.

`GitGraph` has one action per statement and `DrawGitGraph`. A statement that throws ends
the parsing but leaves what it has assigned: `Reset` moves `head` before it
throws. Nothing calls `clear()`, so a second diagram goes on where the first one
ended, with the flags of the lines it has drawn.

`Gantt`: `AddNamed` and `AddAnonymous` add tasks, and `AddUnread` one with more fields
than `parseData()` knows, which has neither an id nor a start; `Pass` is one pass of
`getTasks()` over them, which throws at such a task, and at a first one that should
start at the end of the task before it (`CompileThrows`); `Clear` begins the next
diagram and, like the code, keeps `taskDb`. A task ends on a date or a length after
its start; there is one date and one length, as nothing depends on which they are.
What a task has to wait for is defined without the passes: `Walk` goes from a
task to the one it waits for, as many steps as there are tasks.

`SequenceDiagram` is the layout: `bounds` with its stack of loops and list of
activations, one action per signal, `Picture` with the actors drawn again below,
in one row (`draw()` puts their boxes into the bounds one by one).
All actors are declared, there is no title (the script keeps a title for the
diagrams that follow), and a note has one line of text; a text so high that the
note is made wider is the second width of `Note`. The text of a message has no
width, as the code never puts it into the bounds. `opt`, `alt` and `par` are loops.

`FlowChart`: statements fill the lists of the open subgraphs, `AddSubGraph` closes
one, `DrawFlowChart` makes the compound graph as `draw()` does, and
`ClearFlowChart` begins the next text. `SetParents` is the loop over the
subgraphs, with `setNode()` and `setParent()` of the bundled graphlib;
`IndexNodes2` keeps the calls of the recursive `indexNodes2()` that are still to
come in a list. What that list has to be compared with are the `Chains` of
subgraphs that name one another. Text, style, classes and clicks are left
out, and so is what the renderer and the layout do with the graph, except where
they throw: at a node without a label (`Renders`) and at a link with a subgraph
that something is drawn in (`LaidOut`). A text may be cut anywhere: `draw()` goes
on after a parse error with what has been read.

### MC modules

`MCDefaultThreadPool`, `MCBlockQueue` and `MCTwinsLock` (and `MCNioServer`, which adds
nothing) add the symmetry sets used by the runs of invariants. `MCFileWalk`
defines the trees. `MCPrograms` puts `Mutex`, `PaymentDemo`, `SingletonTest` and
`AVLDemo` side by side, and `MCDiagrams` the five parts of the script: a behaviour is
one of them, and the variables of the others keep their first values. Workers are numbers and jobs are told apart by order
only, so symmetry covers jobs, items, clients and threads; no run with a
temporal property uses it. Definitions marked "Fault" change one action the way
a plausible mistake would; no specification uses them. They are there to see
that each property fails when the code is wrong.

## Runs

| run | instance | properties | shows |
|---|---|---|---|
| `PoolTwoAdmins.cfg` | 2 jobs and `null`, 2 administrators with one call each, 3 workers that become up to 5, limits 1 and 4, integers up to 5 | `TypeOK`, `JobsConserved`, `NoLostWakeup`, `NoOrphan`, `AtMostOneLateJob`, `ShutdownMissesFew`, `PoolBounded` | two administrative calls, one after the other and in all interleavings, with producers and workers; `addWorkers()` with a negative number, and with one that is added whole, clamped or overflows as the workers are two, three or four |
| `PoolOneAdmin.cfg` | 1 administrator with two calls, constructor sizes below, within and above the limits 1 and 3, jobs that throw or interrupt | `ServiceSpec`, `EveryJobRuns` | sequences of calls, failing jobs, progress |
| `PoolCount.cfg` | 4 workers, one `removeWorker(3)` | `WorkerNumberExact` (violated) | the finding below |
| `BlockQueueSafety.cfg` | 5 threads, 2 slots, one item | `TypeOK`, `QueuesExact`, `NoLostSignal`, `NoGhosts` | several waiters on either side, barging, interrupts |
| `BlockQueueService.cfg` | 3 threads, 2 slots, two items | `DequeSpec`, `RoomIsUsed` | order and hand-over, progress |
| `TwinsSafety.cfg` | 4 threads, 2 permits, blocking, trying and timed calls | `PermitsConserved`, `AtMostTwo`, `NoLostRelease` | two holders, two waiters, every race of the loops |
| `TwinsService.cfg` | 3 threads, 2 permits, with interruptible calls | `SemaphoreSpec`, `FreePermitIsTaken` | refinement, progress |
| `FileWalk.cfg` | five programs, six file systems of up to three directories and three files, 2 threads, a queue of 1 | `NoFileTwice`, `SequentialRight`, `AnswerRight`, `LatchOpensLast`, `LateNullCostsNothing`, `DeadlockNeedsDirectories`, `AllOrNothing`, `EndsByItself` | what each program answers and what it may wait for |
| `Programs.cfg` | mutex with 3 threads; 2 payment types, with every list of them; 3 threads that ask for the singleton; the values 1 to 7 in every order | `MutualExclusion`, `PaymentRight`, `OneInstance`, `AvlRight`, `Progress` | the small programs under all interleavings |
| `Diagrams.cfg` | 4 callbacks; 2 actors and 4 signals; 5 commits on 2 branches; 3 tasks after one earlier diagram; 3 subgraphs and 3 statements, with links that end at a vertex or a subgraph | `TicksInOrder`, `SequenceRight`, `MergeLosesNothing`, `DrawsEveryLine`, `ScheduleRight`, `FlowRight`, `EveryTickBegins` | any sequence of statements, diagrams and events |
| `NioServer.cfg` | 2 clients | `ServesValidKeys` (violated) | the finding below |
| `TwinsTryLock.cfg` | 2 threads | `TryLockTakesNothing` (violated) | the finding below |

Bounds. `BlockQueue` and `TwinsLock` need none beyond the sizes of the constants:
calls repeat for ever. In the pool a job is submitted once, `MaxThreads` bounds
the workers ever created and `MaxCalls` the calls of an administrator. Two of
everything is enough for the hazards: two workers to compete for one job while a
third sleeps, two calls to interleave, a removal of three from four to run past
the end of the list. Five threads on two slots allow both conditions to have
two waiters while one thread is signalled; four threads on two permits allow two
waiters while two threads hold the lock. In the file systems two directories
below the root are enough to block two threads, one above the other or side by
side, a file on each level tells the totals apart, and a queue of one size makes
`put()` wait. Three threads let a mutex be free while one waits and one arrives, or
pass from a waiter of a condition to one of the queue. Seven values are enough
for every rotation at the root and below it. Of four callbacks one can throw
while one has been asked for before it and one after it. Five commits hold a
merge of two branches that have diverged, and a commit behind it. Three tasks
wait for each other in circles and in chains that need three passes; the code
repeats a pass up to 10 times, here once (`MaxDepth`), so that the limit is reached. Four
signals are two nested loops around a message and an activation. Three subgraphs
are nested, in a row, or contain each other by a written id; `indexNodes2()`
gives up after 2001 calls, here after 3 (`MaxSections`), so that it does for
either reason: a circle, or too many chains without one. The signals, tasks,
commits, callbacks and statements of one text are what `MaxSignals`, `MaxTasks`,
`MaxCommits`, `Item` and `MaxStatements` bound. What the bounds leave open is what
the proofs cover.

Deadlock checking is off where a program may really stop: the pool when its jobs
are done and its workers asleep, the queue when all threads wait on one side
(nobody has to call again), the walkers and small programs when the answer is there,
a page when all is drawn or hangs, the lock when `tryLock()` has lost both permits.

Fairness. Weak fairness of each thread's own steps: the scheduler runs every
thread that can go on. Nothing makes a thread start a call, no interrupt,
timeout, spurious wake-up or submission has to come. In `BlockQueue` it stands for
the lock being given to each thread that asks in the end. In `TwinsLock` it
includes `unlock()`, because `TwinsLockTest` unlocks in a `finally` block. Under
it, three progress properties hold: a queued job is started unless all workers
have left (`EveryJobRuns`), room or items are used while threads wait
(`RoomIsUsed`), and permits do not all stay free while threads wait
(`FreePermitIsTaken`). The walkers have weak fairness of all steps but the
timeouts: every behaviour is finite, so this is the same as each thread going on
as long as it can. `EndsByItself` says that main and all tasks end then, except in
three waits that only a timeout ends, which it names. In `Mutex` a thread inside a method runs on, and nobody
has to unlock; `Progress` says that a free mutex does not stay free while threads
wait. In `NextTick` timers fire and callbacks end, which the browser sees to; with
that, `EveryTickBegins`. Starvation of a single thread is possible in both
unfair locks and is not excluded.

## Findings

* `removeWorker(n)` with `n` close to the number of workers throws in the middle
  (`DefaultThreadPool.java:84`): workers have been stopped and removed, `workerNumber`
  is unchanged. `PoolCount.cfg` shows `removeWorker(3)` on four workers.
* `TwinsLock.tryLock()` takes the last permit and returns false
  (`TwinsLock.java:66`, `> 0` for `>= 0`). `TwinsTryLock.cfg` shows it with two threads.

* The NIO server ends with the first client that closes its side
  (`demo/socket/nio/Server.java:64`): `read()` has cancelled the key, and
  `isWritable()` throws `CancelledKeyException`, which is no `IOException`. The
  comment at line 53 speaks of serving valid keys. `NioServer.cfg` shows it.

* Not disagreements with anything the repository says, but shown by `FileWalk.cfg`:
  a directory that cannot be listed keeps `ConcurrentTotalFileSizeLatch` waiting
  for its timeout; `ContFileQueue` can poll an empty queue for 10 seconds after
  the last size and then catch a `NullPointerException`, with the right total;
  after its timeout the pool's threads can be stuck in `put()` for ever;
  `CountFileParallel` answers 0 for a single file (`AnswerRight` leaves that case
  out), where `CountFileDriect` answers its length.

Other behaviour to know of, visible in the model and not counted as a
disagreement with a documented promise: `shutdown()` leaves sleeping workers
asleep for ever and queued jobs unrun; `execute()` accepts jobs after it; two
concurrent `addWorkers()` can exceed the limit, and so can `addWorkers(-1)` with an
`addWorkers(1)` behind it on a full pool, or a number whose sum with `workerNumber`
wraps around (so `PoolBounded` is stated until one of these happens); `shutdown()`
ends without an exception, and with workers it has not stopped, when a removal
makes the size equal to its cursor (`ShutdownMissesFew` says how many); a worker
whose job throws stays in the list.
The same holds of these:

* any thread can unlock a `Mutex` that another one holds, after which two may hold it;
* `getPaymentInfos()` waits for the whole time if one service throws, throws for
  an empty list or a repeated type, and never shuts its pool down;
* a gitGraph commit without a parent that is not the first of the page makes
  `renderLines()` loop for ever, and commits, branches and flags of one diagram
  stay for the next;
* a gantt task with more than three fields, or a first one that is only given its
  end, makes `compileTask()` throw;
* an id that a gantt diagram does not define can be taken for a task that an
  earlier diagram has left in `taskDb`;
* the end of an activation that was not begun ends the last activation of some
  other actor (`splice(-1, 1)`), or throws if there is none;
* an empty line, or a newline behind a semicolon, inside a subgraph becomes a node
  without a label, and the renderer throws; `uniq()` leaves out a space only;
* a link that ends at a subgraph something is drawn in makes the layout throw: the
  graph it ranks has that node without a label (`js/mermaid.js:33295`);
* with `htmlLabels` off the boxes of the labels are all put into one label, which
  does not exist if there are as many subgraphs as links: `draw()` throws.

## Proofs

Everything under "theorems" in `PROJECT.json` is proved for any finite set of
threads, any number of jobs or items, any capacity and any number of permits,
any file system, any values of the tree, any branches, tasks, names, links and
subgraphs, and without a bound on their number, from the named assumptions on
the constants and nothing else. Every safety property and every refinement that
a passing run checks is stated by one of these theorems.

`ListLemmas`: what `Append`, `Tail` and `RemoveAt` do to the elements of a list and
to its freedom from repetitions. Where a proof needs an induction, it takes the
set of the numbers for which a claim fails and the least element of that set
(`LeastElement`), or shows that a set which holds 0 and is closed under the
successor holds every number (`NatSetInduction`).

`DefaultThreadPoolProofs`. `TypeOK` is inductive by itself and so is
`AtMostOneLateJob` once a worker that is told to stop and has taken its late
job is known not to test its loop condition again. `NoOrphan` needs to know which
threads have been created. `JobsConserved` is inductive with `TypeOK`; the
refinement of `JobService` follows from it step by step, because a job that is
started is not among the active or finished ones. `NoLostWakeup` counts: an
`execute()` adds one job and, if anybody sleeps, one woken worker; a worker that
takes a job was woken or had not slept. `ShutdownMissesFew` rests on `modCount`
changing with every change of the list: while it has not, the workers told are
those before the cursor, each once (`ListInv`: no worker is listed twice), so their
number is the cursor's; and at the normal end the cursor is the size, so that
the listed workers not told are no more than the told ones not listed. `PoolBounded`
needs the phase of the one call under way: between its clamp and its last store,
the list is ahead of or behind `workerNumber` by a known amount, and no sum of
these wraps around.

`BlockQueueProofs`. The invariant is `TypeOK` with `QueuesExact`, needed because
`signal()` takes the head of a queue: only if that thread waits, and for this
condition, does the step keep the types. `NoLostSignal` is inductive on top: a
removal frees one slot and signals one adder, an addition the converse, and a
signalled thread that goes back to sleep does so because its condition is false.
`NoStandoff` is a consequence: a queue cannot be both full and empty. The
refinement of `BoundedDeque` compares the first `count` slots before and after.

`TwinsLockProofs`. The invariant is `TypeOK`, `PermitsConserved` and the fact that a
thread only compares-and-sets a state it saw positive. Each step leaves the
holders alone, adds or removes one, or loses a permit (`StepPermits`); bounds of
the state, `AtMostTwo` and the refinement of `Semaphore` follow. `NoLostRelease` is
inductive with it: the first thread of the queue, if it leaves, wakes the next
one whenever it could have seen a free permit.

`FileCountersProofs`, for every file system, pool and queue, and all five programs.
A file system is any set of trees over the nodes that fulfils `TreeAssumption`: an
entry belongs to one directory, and the root to none. First come lemmas about
trees and sizes: the visible nodes are closed under `listFiles()`, a set that
contains the root and is closed under it holds all of them, and sums of sizes of
disjoint sets of files count each file once. Then what all programs share: how
tasks come down the tree (`Descent`: an entry has a task exactly when its
directory has submitted it), and that the counter is at least the number of tasks
that are not over (`Counting`; at least, because a rejected task stays counted).
Each program has an invariant of its own on top:

* `LatchInv`: the total is the sum of the files whose tasks have added them. At
  zero no task is left, so the nodes with a task that ended are closed under
  `listFiles()` and contain the root: they are all that is visible.
* `QueueInv`: some list of tasks that have put, each once, has their sizes in the
  queue, and the total is the sum of the files of all others that have put. As
  main looks into the queue last, and only when no directory is pending, an empty
  queue then means that nothing is missing.
* `FutureInv`: the sum of a task is that of its own size and of what lies below the
  entries it has got; one that is done has got them all. A task that waits is that of a visible directory with
  entries other than the root, whose call runs in main; if all threads wait, there
  are `PoolSize` such directories, and the root is one more.
* `LevelInv`: the total is the sum of the files in the directories whose result main
  has got, and the directories in those are in the list of the next level or have
  a task; when both are empty, main has got every visible directory.
* `ForkInv`: the sum of a task is that of its files and of everything below the
  directories it has joined, and one that is over has joined them all. The stacks
  hold begun tasks only.

`IInv` is the invariant of the program that runs; its preservation (`IInvStep`) is
one lemma per program, and the six theorems follow from it.

`SequentialRight` is about what the recursive function behind `CountFileDriect`
computes. Nothing says beforehand that a function fulfils its equation, so the
proof gives one that does (`CountsBelow`): for each node the sum of the files at
and below it. Whatever else fulfilled the equation would differ from it at a node
with as few nodes below it as possible, but there it adds up the same sums.

`DemoProofs`. For `PaymentDemo`: the latch is the number of types that have not been
counted (`TasksRight`), hence the wait ends early only when all have been; a task
puts before it counts, and what has been counted when the wait ended stays so,
hence a read of it gives the answer (`ReadsRight`). For `SingletonTest`: the threads
past the lock are those in the monitor, and the number of objects differs from the
field only while a thread is between its constructor and its write, inside; so
one that enters and still reads null may make the first object.
For `Mutex` the invariant is the type of the variables and `MutualExclusion`
itself, which says more than that two threads do not hold the lock: the state is
1 exactly if somebody does, from the step that sets it to the step that resets
it, and a holder that has come back from its call is the owner. The proof
follows the set of holders: a step leaves it alone (`SameHolders`), makes it one
thread while the state is 0, or empties it while the state is 1. A stranger's
unlock makes the claim void from its first step.

For `AVLDemo` the invariant is that the root is a good tree: `Placed` at each of
its nodes, to any depth, with the values that have been inserted. By induction
on the height, inserting into a good tree of height `n` gives a good one of
height `n` or `n + 1` with one value more, and if it is higher its root is not
level (`Inserted`), so the higher side of the child is the side the value has
gone to, which `insert()` takes for granted when it chooses the rotation. A
rotation gives the new root a height that may be wrong, as it computes it from
the stale height of the old root or of another node; `insert()`, or the second
rotation of two, replaces it before it is read. After a double rotation the
second test may find the value to the right of the new root, but it is in that
subtree already, and inserting a value a tree has leaves the tree as it is.

`DiagramProofs` holds the theorems about `NextTick`, `GitGraph`, `Gantt` and
`FlowChart`. For `NextTick`, `TicksInOrder` says that what has been asked for is what has been
begun followed by what waits, so a step either appends to both ends or moves one
item across. It is inductive only with the timers: after an exception
`queueIndex` is left in the middle of `currentQueue`, and what makes it right again
is that the flag stays set until `cleanUpNextTick()` fires (`Phases`). The same
invariant gives `OneTimerRunsThem`: while the script is idle and callbacks wait,
exactly one timer is pending, and it is the one that will run them. With the
timers' fairness that is why `EveryTickBegins` holds, which is left to TLC.

For `GitGraph` the invariant `GitInv` says that parents come before their
children, that branches are at commits and head is null or at the tip of the
current branch, and that only commits carry the flag `lineDrawn`. As
parents come first, `isfastforwardable()` and `isReachableFrom()` are right by
induction on the number of the commit, so a merge that does nothing, moves the
branch or makes a commit leaves both histories below the branch
(`MergesLoseNothing`). `renderLines()` stops at a commit that carries the flag.
Each line on the page starts at a flagged commit or at one whose parents are
still being drawn, and a call for a commit leaves what it has flagged complete:
with each commit its parents (`RenderRight`, by induction on the commit). So a
drawing that ends has flagged what can be reached and has each line once
(`DrawingsAreComplete`).

For `Gantt`, `Awaited`, which reads the text of the diagram, is first shown to be
the task that `compileTask()` finds through `taskDb`, as long as no task makes it
throw (`NoneThrows`). `GanttInv` then says that after each pass exactly those tasks have times whose way goes to later tasks less
often than passes have been made: a pass goes from the first task to the last,
so it settles a chain of earlier tasks at once and each later one costs one more
pass. A way that has not ended after as many steps as there are tasks has come
to one of them twice (the pigeonhole principle), so its tasks never have times.

For `FlowChart` there are four parts.

* The parents (`ParentsRight`). `draw()` goes from the last subgraph to the first
  and each overwrites what the later ones have set, so a node ends in the first
  one that names it. `setParent()` throws only if the way up through the parents
  comes back, and then each subgraph on that way names the one before: the
  subgraphs are `Circular`. As `addSubGraph()` is called at the end of a subgraph,
  whose id goes into the list around it, an id nobody has written is named by
  exactly one subgraph, the one around it (`Nested`).
* The calls (`AllCounted`). Without a circle no chain of subgraphs is longer than
  their number, again because it would come to one of them twice. The calls that
  the `i`-th subgraph leads to are then as many as the chains that begin with it:
  were that wrong for some, it would be wrong for one all of whose subgraphs it is
  right for, and its chains are itself and those of each subgraph it names, which
  a bijection shows to be as many. So `indexNodes2()` ends in time exactly if there
  are no more than `MaxSections` chains from the last subgraph on.
* The links (`LaidOutIs`). A link that ends at a subgraph some node is drawn in
  makes the layout throw, and as the parents are right, these are the subgraphs
  that some name is in and in no other before (`Filled`).
* The text (`FlowGood`). While it is read, ids are given in their order, no two
  subgraphs have begun with the same number, and lists name vertices, subgraphs
  and empty lines only, each once when a subgraph has ended (`Uniq`). Edges are
  drawn with their numbers, so two links between the same nodes stay two.

`SequenceDiagramProofs`, for any number of actors and of signals. What a loop, a
picture or a message is drawn with has been collected by all signals before, so
each part of `SequenceRight` needs to know what the open items look like:

* `BoundsRight` holds of the bounds between a floor `w`, which nothing that is put
  in later begins more than 10 above, and the end `c` of the lowest box. The outer
  one of two open loops is around the inner one with a margin (`LoopsNest`), each
  is around what has been placed since its beginning (`LoopsHold`), the line of a
  section is above what came after it (`SectionsHold`), and `data` is as wide as
  everything (`DataHolds`). Each operation of the bounds is one lemma: `insert`
  keeps all of it because the margin of loop `i` of `d` is `d - i + 1` times
  `boxMargin`, and the height grows by at least as much as a box reaches up.
* `Stacked`: the open activations are in the list in the order in which they have
  begun, and those of one actor go to the right from its line, by 5 each. So the
  last one in the list is the latest, which is the one that has to be ended
  (`DueRight`), and the sides of an actor are the left side of its first activation
  or its line, and the right side of its last. `MessagesMeetSides` follows as long
  as no actor has more than 38 open activations (`MaxStacked`): the 39th touches the
  first one of the next actor, and an arrow between the two has no length; with
  more of them it points the wrong way.

Only model-checked:

* the progress properties `EveryJobRuns`, `RoomIsUsed`, `FreePermitIsTaken`,
  `EndsByItself`, `Progress`, `EveryTickBegins` (the prover does not handle fairness);
* the three violated properties.

## Hazards without a property

Some things can go wrong here that no property covers, as they do go wrong, or
nothing in the code is there to prevent them:
`getJobSize()` reads the list without the monitor (line 96); `unlock()` of a
`TwinsLock` that is not held makes a permit (`TwinsLock.java:41`); every
consultation leaves its pool behind (`PaymentDemo.java:41`); the NIO server only
prints an `IOException` and leaves the key in the selector (`nio/Server.java:108`);
a full handler pool throws in the accepting thread (`bio2/Server.java:23`).

## Not modelled

* `fourth_chapter/Join` and `Piped`: every thread waits for the one before it, or
  for a pipe of the library; they share no state of their own.
* `util/HttpUtil`, `repair`: one request per call or line over the library's
  connections; the statistics are never enabled.
* `demo/socket`: the servers with a thread per connection keep nothing, the
  asynchronous one is a chain of callbacks that registers itself again, and the
  clients are straight-line I/O.
* The enum singleton (made by the class loader), and the variant of
  `SingletonTest` that takes its threads from a pool.
* Proxies and the bean factory (reflection), the demonstrations of annotations,
  exceptions, class loading, enums and sorting, the message queue constants,
  `ParkTest`, and `HashMapTest`, which shows a property of `java.util.HashMap`.
* Of the script: the parsers, which a generator has written; class diagrams and
  the information page, which append elements to the page from lists; the
  configuration, colours, fonts, text and styles. `js/mermaid.js` is the same
  script with its libraries (d3, dagre, lodash, moment), which make up most of
  its 66000 lines and are not this repository's code; of them only the compound
  graph that `FlowChart` rests on is modelled. So most lines of the two files have
  no counterpart here.
