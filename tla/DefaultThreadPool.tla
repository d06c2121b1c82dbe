-------------------------- MODULE DefaultThreadPool --------------------------
(***************************************************************************)
(* fourth_chapter/threadpool/DefaultThreadPool.java: a pool of worker      *)
(* threads that take jobs from one LinkedList, guarded by its monitor.     *)
(*                                                                         *)
(* execute() and the body of a worker's synchronized block are single      *)
(* steps, because they hold the monitor of jobs from start to end.  The    *)
(* administrative calls are split where another thread can get in between: *)
(* addWorkers() and shutdown() take no lock at all, and removeWorker()     *)
(* holds the monitor while addWorkers() and shutdown() go on.  A call of   *)
(* the synchronizedList is one step.                                       *)
(***************************************************************************)
EXTENDS Integers, Sequences, FiniteSets, SequencesExt

CONSTANTS
  Job,         \* the Runnables the application submits, each at most once
  NoJob,       \* null
  Client,      \* the threads that make administrative calls
  Free,        \* the owner of a monitor nobody holds
  MaxWorkers,  \* MAX_WORKER_NUMBERS
  MinWorkers,  \* MIN_WORKER_NUMBERS
  MaxInt,      \* the largest int
  InitArgs,    \* arguments of the constructor
  AddArgs,     \* arguments of addWorkers()
  RemoveArgs,  \* arguments of removeWorker()
  Outcome,     \* how a job may end: "returns", "throws" or "interrupts"
  MaxThreads,  \* bound: the worker threads a behaviour may create
  MaxCalls     \* bound: the administrative calls of one client

ASSUME SubmissionAssumption ==
  /\ NoJob \notin Job
  /\ Free \notin Client

ASSUME SizeAssumption ==
  /\ MaxWorkers \in Nat /\ MinWorkers \in Nat \ {0} /\ MinWorkers <= MaxWorkers
  /\ MaxInt \in Nat /\ MaxWorkers <= MaxInt
  /\ MaxThreads \in Nat /\ MaxWorkers <= MaxThreads
  /\ MaxCalls \in Nat
  /\ InitArgs \cup AddArgs \cup RemoveArgs \subseteq -(MaxInt + 1) .. MaxInt

ASSUME OutcomeAssumption == Outcome \subseteq {"returns", "throws", "interrupts"}

Worker == 1 .. MaxThreads     \* a Worker is named by the threadNumber it got

VARIABLES
  jobs,          \* the LinkedList of submitted jobs, first out at the head
  monitor,       \* the client that keeps the monitor of jobs between steps
  workers,       \* the synchronizedList of Worker objects
  modCount,      \* its ArrayList.modCount, which iterators compare
  workerNumber,  \* the pool's own count of its worker threads
  threadNumber,  \* the AtomicLong that numbers the threads
  wpc,           \* where each worker thread is in run()
  running,       \* the volatile flag of each Worker
  interrupted,   \* the interrupt status of each worker thread
  job,           \* the local variable job of run()
  cpc,           \* where each client is in its administrative call
  num,           \* the argument of that call, after the clamp of addWorkers()
  idx,           \* its loop counter: i, count or the iterator's cursor
  seen,          \* the workerNumber or the modCount the call has read
  worker,        \* its local variable worker; 1 while it has no value
  calls,         \* administrative calls each client has made
  accepted,      \* history: jobs appended by execute()
  done,          \* history: jobs whose run() has ended
  late,          \* history: jobs each worker took after it was told to stop
  told,          \* history: workers the client's shutdown() has told to stop
  misused        \* history: addWorkers() or removeWorker() called during one
                 \* of them, or addWorkers() with a number the pool cannot add

poolVars   == <<workers, modCount, workerNumber, threadNumber>>
workerVars == <<wpc, running, interrupted, job, late>>
clientVars == <<cpc, num, idx, seen, worker, calls, told, misused>>
jobVars    == <<jobs, accepted, done>>
vars == <<jobVars, monitor, poolVars, workerVars, clientVars>>

At(l)   == {w \in Worker : wpc[w] = l}
Waiting == At("waiting")      \* the wait set of the monitor of jobs
Woken   == At("woken")        \* taken out of it, competing for the monitor
Active  == {job[w] : w \in At("run")}
Gone    == At("unborn") \cup At("gone") \cup At("dead")

\* The constructor brings the requested size between the two limits.
Clamp(n) == IF n > MaxWorkers THEN MaxWorkers
            ELSE IF n < MinWorkers THEN MinWorkers ELSE n

\* The sum or difference of two ints, brought back into their range.
Wrap(n) == IF n > MaxInt THEN n - 2 * (MaxInt + 1)
           ELSE IF n < -(MaxInt + 1) THEN n + 2 * (MaxInt + 1) ELSE n

Init ==
  /\ jobs = << >> /\ accepted = {} /\ done = {}
  /\ monitor = Free
  /\ workerNumber \in {Clamp(n) : n \in InitArgs}
  /\ workers = [i \in 1 .. workerNumber |-> i]
  /\ modCount = workerNumber /\ threadNumber = workerNumber
  /\ wpc = [w \in Worker |-> IF w <= workerNumber THEN "check" ELSE "unborn"]
  /\ running = [w \in Worker |-> TRUE]
  /\ interrupted = [w \in Worker |-> FALSE]
  /\ job = [w \in Worker |-> NoJob]
  /\ late = [w \in Worker |-> 0]
  /\ cpc = [c \in Client |-> "idle"]
  /\ num = [c \in Client |-> 0]
  /\ idx = [c \in Client |-> 0]
  /\ seen = [c \in Client |-> 0]
  /\ worker = [c \in Client |-> 1]
  /\ calls = [c \in Client |-> 0]
  /\ told = [c \in Client |-> {}]
  /\ misused = FALSE

-----------------------------------------------------------------------------
(* execute(), called by any application thread.                            *)

\* Fault: notifies only when the list was empty before.
NotifyOnFirst ==
  IF jobs = << >> /\ Waiting # {}
  THEN \E w \in Waiting : wpc' = [wpc EXCEPT ![w] = "woken"]
  ELSE UNCHANGED wpc

\* Fault: never notifies.
NotifyNobody == UNCHANGED wpc

\* notify(): one thread of the wait set, if there is any, is woken.
Notify ==
  \/ Waiting = {} /\ UNCHANGED wpc
  \/ \E w \in Waiting : wpc' = [wpc EXCEPT ![w] = "woken"]

\* Fault: execute() without the test for null.
ExecuteNull(j) ==
  /\ j \notin accepted /\ monitor = Free
  /\ jobs' = Append(jobs, j)
  /\ accepted' = accepted \cup {j}
  /\ Notify
  /\ UNCHANGED <<done, monitor, poolVars, running, interrupted, job, late,
                 clientVars>>

Execute(j) ==
  /\ j # NoJob /\ j \notin accepted
  /\ monitor = Free
  /\ jobs' = Append(jobs, j)
  /\ accepted' = accepted \cup {j}
  /\ Notify
  /\ UNCHANGED <<done, monitor, poolVars, running, interrupted, job, late,
                 clientVars>>

-----------------------------------------------------------------------------
(* Worker.run().                                                           *)

\* Fault: run() loops for ever.
CheckNothing(w) ==
  /\ wpc[w] = "check"
  /\ wpc' = [wpc EXCEPT ![w] = "enter"]
  /\ UNCHANGED <<jobVars, monitor, poolVars, running, interrupted, job, late,
                 clientVars>>

\* The loop condition, read outside the monitor.
CheckRunning(w) ==
  /\ wpc[w] = "check"
  /\ wpc' = [wpc EXCEPT ![w] = IF running[w] THEN "enter" ELSE "gone"]
  /\ UNCHANGED <<jobVars, monitor, poolVars, running, interrupted, job, late,
                 clientVars>>

\* The worker gets the monitor, for the first time or again after a wait.
HasMonitor(w) == wpc[w] \in {"enter", "woken"} /\ monitor = Free

\* Fault: the job is read and stays in the list (getFirst).
PeekJob(w) ==
  /\ HasMonitor(w) /\ jobs # << >>
  /\ job' = [job EXCEPT ![w] = Head(jobs)]
  /\ wpc' = [wpc EXCEPT ![w] = "run"]
  /\ UNCHANGED <<jobVars, late, monitor, poolVars, running, interrupted,
                 clientVars>>

\* Fault: the youngest job is taken (removeLast).
TakeLastJob(w) ==
  /\ HasMonitor(w) /\ jobs # << >>
  /\ job' = [job EXCEPT ![w] = Last(jobs)]
  /\ jobs' = Front(jobs)
  /\ wpc' = [wpc EXCEPT ![w] = "run"]
  /\ UNCHANGED <<accepted, done, late, monitor, poolVars, running, interrupted,
                 clientVars>>

TakeJob(w) ==
  /\ HasMonitor(w) /\ jobs # << >>
  /\ job' = [job EXCEPT ![w] = Head(jobs)]
  /\ jobs' = Tail(jobs)
  /\ wpc' = [wpc EXCEPT ![w] = "run"]
  /\ late' = [late EXCEPT ![w] = IF running[w] THEN @ ELSE @ + 1]
  /\ UNCHANGED <<accepted, done, monitor, poolVars, running, interrupted,
                 clientVars>>

WaitForJob(w) ==
  /\ HasMonitor(w) /\ jobs = << >> /\ ~interrupted[w]
  /\ wpc' = [wpc EXCEPT ![w] = "waiting"]
  /\ UNCHANGED <<jobVars, monitor, poolVars, running, interrupted, job, late,
                 clientVars>>

\* wait() throws InterruptedException: the handler sets the status again and
\* run() returns, with the worker still listed and still "running".
LeaveInterrupted(w) ==
  /\ HasMonitor(w) /\ jobs = << >> /\ interrupted[w]
  /\ wpc' = [wpc EXCEPT ![w] = "gone"]
  /\ UNCHANGED <<jobVars, monitor, poolVars, running, interrupted, job, late,
                 clientVars>>

SpuriousWakeup(w) ==
  /\ wpc[w] = "waiting"
  /\ wpc' = [wpc EXCEPT ![w] = "woken"]
  /\ UNCHANGED <<jobVars, monitor, poolVars, running, interrupted, job, late,
                 clientVars>>

\* job.run(): an exception of the job is caught nowhere and ends the thread.
RunJob(w, outcome) ==
  /\ wpc[w] = "run"
  /\ done' = done \cup {job[w]}
  /\ job' = [job EXCEPT ![w] = NoJob]
  /\ wpc' = [wpc EXCEPT ![w] = IF outcome = "throws" THEN "dead" ELSE "check"]
  /\ interrupted' = [interrupted EXCEPT ![w] = @ \/ outcome = "interrupts"]
  /\ UNCHANGED <<jobs, accepted, monitor, poolVars, running, late, clientVars>>

-----------------------------------------------------------------------------
(* Administrative calls.  Call and Return are the frame of each of them.   *)

Call(c, label, n, value) ==
  /\ cpc[c] = "idle" /\ calls[c] < MaxCalls
  /\ cpc' = [cpc EXCEPT ![c] = label]
  /\ num' = [num EXCEPT ![c] = n]
  /\ seen' = [seen EXCEPT ![c] = value]
  /\ calls' = [calls EXCEPT ![c] = @ + 1]
  /\ UNCHANGED <<idx, worker, told>>

Return(c) ==
  /\ cpc' = [cpc EXCEPT ![c] = "idle"]
  /\ num' = [num EXCEPT ![c] = 0]
  /\ idx' = [idx EXCEPT ![c] = 0]
  /\ seen' = [seen EXCEPT ![c] = 0]
  /\ worker' = [worker EXCEPT ![c] = 1]
  /\ told' = [told EXCEPT ![c] = {}]
  /\ UNCHANGED <<calls, misused>>

\* The clients inside addWorkers() or removeWorker().
Changing == {c \in Client : cpc[c] \notin {"idle", "shutdown", "stopping"}}

\* Nothing in the code stops such calls from overlapping, and addWorkers()
\* takes any int; the history records when the one or the other happens.
Record(misuse) == misused' = (misused \/ misuse \/ Changing # {})

\* Fault: addWorkers() without the size check.
AddUnchecked(c, n) ==
  /\ Call(c, "spawn", n, 0)
  /\ Record(n < 0 \/ n + workerNumber > MaxInt)
  /\ UNCHANGED <<jobVars, monitor, poolVars, workerVars>>

\* addWorkers(n): the size check reads workerNumber, the clamp reads it again.
AddWorkers(c, n) ==
  /\ Call(c, IF Wrap(n + workerNumber) > MaxWorkers THEN "clamp" ELSE "spawn",
          n, 0)
  /\ Record(n < 0 \/ n + workerNumber > MaxInt)
  /\ UNCHANGED <<jobVars, monitor, poolVars, workerVars>>

ClampNum(c) ==
  /\ cpc[c] = "clamp"
  /\ num' = [num EXCEPT ![c] = Wrap(MaxWorkers - workerNumber)]
  /\ cpc' = [cpc EXCEPT ![c] = "spawn"]
  /\ UNCHANGED <<jobVars, monitor, poolVars, workerVars, idx, seen, worker,
                 calls, told, misused>>

\* One iteration of initializeWokers(): list the Worker, start its thread.  A
\* thread not yet started is as good as one that has not tested its flag yet.
SpawnWorker(c) ==
  /\ cpc[c] = "spawn" /\ idx[c] < num[c]
  /\ threadNumber < MaxThreads
  /\ threadNumber' = threadNumber + 1
  /\ workers' = Append(workers, threadNumber + 1)
  /\ modCount' = modCount + 1
  /\ wpc' = [wpc EXCEPT ![threadNumber + 1] = "check"]
  /\ idx' = [idx EXCEPT ![c] = @ + 1]
  /\ UNCHANGED <<jobVars, monitor, workerNumber, running, interrupted, job,
                 late, cpc, num, seen, worker, calls, told, misused>>

\* workerNumber += num is a read and a write, and nothing makes them one step.
ReadForAdd(c) ==
  /\ cpc[c] = "spawn" /\ idx[c] >= num[c]
  /\ cpc' = [cpc EXCEPT ![c] = "added"]
  /\ seen' = [seen EXCEPT ![c] = workerNumber]
  /\ UNCHANGED <<jobVars, monitor, poolVars, workerVars, num, idx, worker,
                 calls, told, misused>>

StoreAdded(c) ==
  /\ cpc[c] = "added"
  /\ workerNumber' = Wrap(seen[c] + num[c])
  /\ Return(c)
  /\ UNCHANGED <<jobVars, monitor, workers, modCount, threadNumber, workerVars>>

\* removeWorker(n) enters the monitor; a number it refuses changes nothing.
RemoveWorker(c, n) ==
  /\ monitor = Free /\ n < workerNumber
  /\ Call(c, "remove", n, 0)
  /\ Record(FALSE)
  /\ monitor' = c
  /\ UNCHANGED <<jobVars, poolVars, workerVars>>

\* workers.get(count) with a count that grows while the list gets shorter.
RemoveGet(c) ==
  /\ cpc[c] = "remove" /\ idx[c] < num[c] /\ idx[c] < Len(workers)
  /\ worker' = [worker EXCEPT ![c] = workers[idx[c] + 1]]
  /\ cpc' = [cpc EXCEPT ![c] = "found"]
  /\ UNCHANGED <<jobVars, monitor, poolVars, workerVars, num, idx, seen, calls,
                 told, misused>>

\* Fault: the worker is taken off the list and never told to stop.
RemoveSilently(c) ==
  /\ cpc[c] = "found"
  /\ \E i \in 1 .. Len(workers) : /\ workers[i] = worker[c]
                                  /\ workers' = RemoveAt(workers, i)
  /\ modCount' = modCount + 1
  /\ idx' = [idx EXCEPT ![c] = @ + 1]
  /\ cpc' = [cpc EXCEPT ![c] = "remove"]
  /\ UNCHANGED <<jobVars, monitor, workerNumber, threadNumber, workerVars, num,
                 seen, worker, calls, told, misused>>

\* workers.remove(worker) finds it, because only the holder of the monitor
\* removes; the worker is off the list and still told to run.
RemoveOne(c) ==
  /\ cpc[c] = "found"
  /\ \E i \in 1 .. Len(workers) : /\ workers[i] = worker[c]
                                  /\ workers' = RemoveAt(workers, i)
  /\ modCount' = modCount + 1
  /\ idx' = [idx EXCEPT ![c] = @ + 1]
  /\ cpc' = [cpc EXCEPT ![c] = "stop"]
  /\ UNCHANGED <<jobVars, monitor, workerNumber, threadNumber, workerVars, num,
                 seen, worker, calls, told, misused>>

\* worker.shutdown() in removeWorker().
StopRemoved(c) ==
  /\ cpc[c] = "stop"
  /\ running' = [running EXCEPT ![worker[c]] = FALSE]
  /\ cpc' = [cpc EXCEPT ![c] = "remove"]
  /\ UNCHANGED <<jobVars, monitor, poolVars, wpc, interrupted, job, late, num,
                 idx, seen, worker, calls, told, misused>>

\* IndexOutOfBoundsException leaves the monitor, but workerNumber as it was.
RemoveFails(c) ==
  /\ cpc[c] = "remove" /\ idx[c] < num[c] /\ idx[c] >= Len(workers)
  /\ monitor' = Free
  /\ Return(c)
  /\ UNCHANGED <<jobVars, poolVars, workerVars>>

\* workerNumber -= count: the monitor does not keep addWorkers() out.
ReadForRemoval(c) ==
  /\ cpc[c] = "remove" /\ idx[c] >= num[c]
  /\ cpc' = [cpc EXCEPT ![c] = "removed"]
  /\ seen' = [seen EXCEPT ![c] = workerNumber]
  /\ UNCHANGED <<jobVars, monitor, poolVars, workerVars, num, idx, worker,
                 calls, told, misused>>

StoreRemoved(c) ==
  /\ cpc[c] = "removed"
  /\ workerNumber' = Wrap(seen[c] - idx[c])
  /\ monitor' = Free
  /\ Return(c)
  /\ UNCHANGED <<jobVars, workers, modCount, threadNumber, workerVars>>

\* shutdown() walks the list with a fail-fast iterator and without its lock.
Shutdown(c) ==
  /\ Call(c, "shutdown", 0, modCount)
  /\ UNCHANGED <<jobVars, monitor, poolVars, workerVars, misused>>

\* next(): the iterator is valid and its cursor goes on.
ShutdownNext(c) ==
  /\ cpc[c] = "shutdown" /\ idx[c] < Len(workers) /\ modCount = seen[c]
  /\ worker' = [worker EXCEPT ![c] = workers[idx[c] + 1]]
  /\ idx' = [idx EXCEPT ![c] = @ + 1]
  /\ cpc' = [cpc EXCEPT ![c] = "stopping"]
  /\ UNCHANGED <<jobVars, monitor, poolVars, workerVars, num, seen, calls, told,
                 misused>>

\* Fault: a worker that sleeps in wait() is not told to stop.
StopAwake(c) ==
  /\ cpc[c] = "stopping"
  /\ running' = [running EXCEPT ![worker[c]] = @ /\ worker[c] \in Waiting]
  /\ told' = [told EXCEPT ![c] = @ \cup {worker[c]}]
  /\ cpc' = [cpc EXCEPT ![c] = "shutdown"]
  /\ UNCHANGED <<jobVars, monitor, poolVars, wpc, interrupted, job, late, num,
                 idx, seen, worker, calls, misused>>

\* worker.shutdown() in shutdown(), whatever has become of the list.
StopListed(c) ==
  /\ cpc[c] = "stopping"
  /\ running' = [running EXCEPT ![worker[c]] = FALSE]
  /\ told' = [told EXCEPT ![c] = @ \cup {worker[c]}]
  /\ cpc' = [cpc EXCEPT ![c] = "shutdown"]
  /\ UNCHANGED <<jobVars, monitor, poolVars, wpc, interrupted, job, late, num,
                 idx, seen, worker, calls, misused>>

\* hasNext() is cursor # size; next() throws ConcurrentModificationException.
ShutdownEnds(c) ==
  /\ cpc[c] = "shutdown"
  /\ idx[c] = Len(workers) \/ modCount # seen[c]
  /\ Return(c)
  /\ UNCHANGED <<jobVars, monitor, poolVars, workerVars>>

-----------------------------------------------------------------------------
WorkerStep(w) ==
  \/ CheckRunning(w) \/ TakeJob(w) \/ WaitForJob(w) \/ LeaveInterrupted(w)
  \/ \E outcome \in Outcome : RunJob(w, outcome)

\* A client that has started a call goes on with it.
ClientStep(c) ==
  \/ ClampNum(c) \/ SpawnWorker(c) \/ ReadForAdd(c) \/ StoreAdded(c)
  \/ RemoveGet(c) \/ RemoveOne(c) \/ StopRemoved(c) \/ RemoveFails(c)
  \/ ReadForRemoval(c) \/ StoreRemoved(c)
  \/ ShutdownNext(c) \/ StopListed(c) \/ ShutdownEnds(c)

StartCall(c) ==
  \/ \E n \in AddArgs : AddWorkers(c, n)
  \/ \E n \in RemoveArgs : RemoveWorker(c, n)
  \/ Shutdown(c)

Next ==
  \/ \E j \in Job \cup {NoJob} : Execute(j)
  \/ \E w \in Worker : WorkerStep(w) \/ SpuriousWakeup(w)
  \/ \E c \in Client : ClientStep(c) \/ StartCall(c)

Spec == Init /\ [][Next]_vars

\* The scheduler runs every thread that can go on.  Nothing makes the
\* application submit a job or make a call, or a wait end without a notify.
Fairness ==
  /\ \A w \in Worker : WF_vars(WorkerStep(w))
  /\ \A c \in Client : WF_vars(ClientStep(c))

FairSpec == Spec /\ Fairness

-----------------------------------------------------------------------------
(* Properties.                                                             *)

WorkerPc == {"unborn", "check", "enter", "waiting", "woken", "run", "gone",
             "dead"}
ClientPc == {"idle", "clamp", "spawn", "added", "remove", "found", "stop",
             "removed", "shutdown", "stopping"}

\* Every variable keeps its type: null never enters the job list, and a
\* worker has a job exactly while it runs one.
TypeOK ==
  /\ jobs \in Seq(Job) /\ accepted \subseteq Job /\ done \subseteq Job
  /\ monitor \in Client \cup {Free}
  /\ workers \in Seq(Worker)
  /\ modCount \in Nat /\ workerNumber \in Int /\ threadNumber \in 0 .. MaxThreads
  /\ wpc \in [Worker -> WorkerPc]
  /\ running \in [Worker -> BOOLEAN] /\ interrupted \in [Worker -> BOOLEAN]
  /\ job \in [Worker -> Job \cup {NoJob}]
  /\ \A w \in Worker : job[w] # NoJob <=> wpc[w] = "run"
  /\ late \in [Worker -> Nat]
  /\ cpc \in [Client -> ClientPc]
  /\ num \in [Client -> Int] /\ idx \in [Client -> Nat]
  /\ seen \in [Client -> Int] /\ calls \in [Client -> Nat]
  /\ worker \in [Client -> Worker]
  /\ told \in [Client -> SUBSET Worker] /\ misused \in BOOLEAN

\* A job that execute() accepted is in exactly one place: queued once, run by
\* one worker, or ended.  No interleaving of workers, removals and shutdowns
\* loses a job or runs it twice.
JobsConserved ==
  /\ accepted = ToSet(jobs) \cup Active \cup done
  /\ ToSet(jobs) \cap Active = {}
  /\ ToSet(jobs) \cap done = {}
  /\ Active \cap done = {}
  /\ \A i, k \in 1 .. Len(jobs) : jobs[i] = jobs[k] => i = k
  /\ \A w, v \in At("run") : job[w] = job[v] => w = v

\* One notify() per execute() is enough: while a worker sleeps, every queued
\* job has a worker that has been woken and not yet got the monitor.
NoLostWakeup == Waiting # {} => Len(jobs) <= Cardinality(Woken)

\* A worker that is still told to run is in the list shutdown() walks, or in
\* the hands of a removeWorker() that stops it next: no removal, even one that
\* throws half-way, leaves behind a worker nobody can stop.
NoOrphan ==
  \A w \in Worker : running[w] /\ wpc[w] # "unborn" =>
    \/ w \in ToSet(workers)
    \/ \E c \in Client : cpc[c] = "stop" /\ worker[c] = w

\* run() tests the flag before each job: a worker told to stop, even one
\* asleep in wait(), takes at most one more job.
AtMostOneLateJob == \A w \in Worker : late[w] <= 1

\* shutdown() may come to its normal end with workers it has not stopped: a
\* removal makes the size equal to the cursor, and hasNext() does not look at
\* modCount.  It then misses at most one worker for each one it has stopped
\* that has left the list, so without such a removal it misses nobody.
ShutdownMissesFew ==
  \A c \in Client : cpc[c] = "shutdown" /\ idx[c] = Len(workers) =>
    Cardinality({w \in ToSet(workers) : running[w]})
      <= Cardinality(told[c] \ ToSet(workers))

\* Whoever makes the calls, the list stays within MAX_WORKER_NUMBERS, through
\* clamped additions and removals that fail, until the pool is misused: the
\* workerNumber that addWorkers() trusts errs only on the high side.
PoolBounded == ~misused =>
  /\ Len(workers) <= MaxWorkers
  /\ Changing = {} => Len(workers) <= workerNumber

\* The comment on the field workerNumber calls it the number of worker
\* threads: between administrative calls it is the length of the list.
WorkerNumberExact ==
  (\A c \in Client : cpc[c] = "idle") => workerNumber = Len(workers)

\* The pool implements the service of JobService: jobs start in the order of
\* their execute() calls, each at most once.
Service == INSTANCE JobService
             WITH pending <- jobs, active <- Active, finished <- done

ServiceSpec == Service!Spec

\* A queued job is started eventually, unless every worker has left run():
\* sleeping workers are woken and stopped ones do not swallow a notify().
EveryJobRuns ==
  \A j \in Job : j \in ToSet(jobs) ~> (j \notin ToSet(jobs) \/ Gone = Worker)
=============================================================================
