----------------------- MODULE DefaultThreadPoolProofs -----------------------
(***************************************************************************)
(* Proofs about DefaultThreadPool, for any set of jobs and clients, any    *)
(* limits and any bound on threads and calls.                              *)
(***************************************************************************)
EXTENDS DefaultThreadPool, ListLemmas, FiniteSetTheorems, TLAPS

\* The thread numbers are given out in order, so the worker that
\* initializeWokers() creates next is one that has never run.
Numbering ==
  \A w \in Worker : wpc[w] = "unborn" <=> w > threadNumber

Typed == TypeOK /\ Numbering

-----------------------------------------------------------------------------
(* Types.                                                                  *)

LEMMA ClampType == \A n \in Int : Clamp(n) \in 1 .. MaxWorkers
BY SizeAssumption DEF Clamp

LEMMA WrapType ==
  /\ \A n \in Int : Wrap(n) \in Int
  /\ \A n \in -(MaxInt + 1) .. MaxInt : Wrap(n) = n
BY SizeAssumption DEF Wrap

LEMMA ArgTypes == InitArgs \cup AddArgs \cup RemoveArgs \subseteq Int
<1>1. -(MaxInt + 1) .. MaxInt \subseteq Int
  BY SizeAssumption
<1> QED
  BY <1>1, SizeAssumption

LEMMA InitTyped == Init => Typed
<1> SUFFICES ASSUME Init PROVE Typed
  OBVIOUS
<1>1. workerNumber \in 1 .. MaxWorkers /\ MaxWorkers \in Nat
      /\ MaxThreads \in Nat /\ MaxWorkers <= MaxThreads
  BY ClampType, ArgTypes, SizeAssumption DEF Init
<1>2. workers \in Seq(Worker)
  <2>1. workers \in [1 .. workerNumber -> Worker]
    BY <1>1 DEF Init, Worker
  <2> QED
    BY <1>1, <2>1
<1>3. TypeOK
  <2>0. 1 \in Worker
    BY <1>1 DEF Worker
  <2>1. /\ worker \in [Client -> Worker]
        /\ told \in [Client -> SUBSET Worker] /\ misused \in BOOLEAN
    BY <2>0 DEF Init
  <2>2. /\ jobs \in Seq(Job) /\ accepted \subseteq Job /\ done \subseteq Job
        /\ monitor \in Client \cup {Free}
    BY DEF Init
  <2>3. /\ cpc \in [Client -> ClientPc] /\ calls \in [Client -> Nat]
        /\ num \in [Client -> Int] /\ idx \in [Client -> Nat]
        /\ seen \in [Client -> Int]
    BY DEF Init, ClientPc
  <2>4. /\ wpc \in [Worker -> WorkerPc] /\ late \in [Worker -> Nat]
        /\ running \in [Worker -> BOOLEAN]
        /\ interrupted \in [Worker -> BOOLEAN]
        /\ job \in [Worker -> Job \cup {NoJob}]
        /\ \A w \in Worker : job[w] # NoJob <=> wpc[w] = "run"
    BY <1>1 DEF Init, WorkerPc, Worker
  <2>5. modCount \in Nat /\ threadNumber \in 0 .. MaxThreads
    BY <1>1 DEF Init
  <2> QED
    BY <1>1, <1>2, <2>1, <2>2, <2>3, <2>4, <2>5 DEF TypeOK
<1>4. Numbering
  BY <1>1 DEF Init, Numbering, Worker
<1> QED
  BY <1>3, <1>4 DEF Typed

\* The locals of a client keep their types at the call and at the return.
LEMMA CallTypes ==
  ASSUME TypeOK, NEW c \in Client, NEW label \in ClientPc, NEW n \in Int,
         NEW value \in Int, Call(c, label, n, value)
  PROVE  /\ cpc' \in [Client -> ClientPc] /\ num' \in [Client -> Int]
         /\ idx' \in [Client -> Nat] /\ seen' \in [Client -> Int]
         /\ calls' \in [Client -> Nat]
         /\ worker' \in [Client -> Worker]
         /\ told' \in [Client -> SUBSET Worker]
<1>1. cpc' \in [Client -> ClientPc] /\ num' \in [Client -> Int]
  BY DEF TypeOK, Call
<1>2. idx' \in [Client -> Nat] /\ seen' \in [Client -> Int]
  BY DEF TypeOK, Call
<1>3. /\ calls' \in [Client -> Nat]
      /\ worker' \in [Client -> Worker]
      /\ told' \in [Client -> SUBSET Worker]
  BY SMTT(20) DEF TypeOK, Call
<1> QED
  BY <1>1, <1>2, <1>3

LEMMA ReturnTypes ==
  ASSUME TypeOK, NEW c \in Client, Return(c)
  PROVE  /\ cpc' \in [Client -> ClientPc] /\ num' \in [Client -> Int]
         /\ idx' \in [Client -> Nat] /\ seen' \in [Client -> Int]
         /\ calls' \in [Client -> Nat]
         /\ worker' \in [Client -> Worker]
         /\ told' \in [Client -> SUBSET Worker]
<1>1. cpc' \in [Client -> ClientPc] /\ num' \in [Client -> Int]
  BY DEF TypeOK, Return, ClientPc
<1>2. idx' \in [Client -> Nat] /\ seen' \in [Client -> Int]
  BY DEF TypeOK, Return
<1>3. worker' \in [Client -> Worker] /\ told' \in [Client -> SUBSET Worker]
  BY SizeAssumption DEF TypeOK, Return, Worker
<1> QED
  BY <1>1, <1>2, <1>3 DEF TypeOK, Return

LEMMA StepTyped == Typed /\ [Next]_vars => Typed'
<1> SUFFICES ASSUME Typed, [Next]_vars PROVE Typed'
  OBVIOUS
<1>0. /\ TypeOK /\ modCount \in Int
      /\ {"clamp", "spawn", "remove", "shutdown"} \subseteq ClientPc
  BY DEF Typed, TypeOK, ClientPc
<1> USE DEF Typed, TypeOK, Numbering, WorkerPc, ClientPc
<1> USE DEF jobVars, poolVars, workerVars, clientVars
<1>1. ASSUME NEW j \in Job \cup {NoJob}, Execute(j) PROVE Typed'
  <2>1. jobs' \in Seq(Job) /\ accepted' \subseteq Job
    BY <1>1 DEF Execute
  <2>2. /\ wpc' \in [Worker -> WorkerPc]
        /\ \A w \in Worker : wpc'[w] = wpc[w]
                             \/ (wpc[w] = "waiting" /\ wpc'[w] = "woken")
    BY ZenonT(30), <1>1 DEF Execute, Notify, Waiting, At
  <2> QED
    BY <1>1, <2>1, <2>2 DEF Execute
<1>2. ASSUME NEW w \in Worker, CheckRunning(w) PROVE Typed'
  BY <1>2 DEF CheckRunning
<1>3. ASSUME NEW w \in Worker, TakeJob(w) PROVE Typed'
  <2>1. Head(jobs) \in Job /\ jobs' \in Seq(Job)
    BY <1>3, HeadTailProperties DEF TakeJob
  <2>2. job' \in [Worker -> Job \cup {NoJob}] /\ late' \in [Worker -> Nat]
    BY <1>3, <2>1 DEF TakeJob
  <2> QED
    BY <1>3, <2>1, <2>2, SubmissionAssumption DEF TakeJob, HasMonitor
<1>4. ASSUME NEW w \in Worker, WaitForJob(w) PROVE Typed'
  BY <1>4 DEF WaitForJob, HasMonitor
<1>5. ASSUME NEW w \in Worker, LeaveInterrupted(w) PROVE Typed'
  BY <1>5 DEF LeaveInterrupted, HasMonitor
<1>6. ASSUME NEW w \in Worker, SpuriousWakeup(w) PROVE Typed'
  BY <1>6 DEF SpuriousWakeup
<1>7. ASSUME NEW w \in Worker, NEW outcome \in Outcome, RunJob(w, outcome)
      PROVE  Typed'
  <2>1. interrupted' \in [Worker -> BOOLEAN]
    BY <1>7 DEF RunJob
  <2>2. done' \subseteq Job
    BY <1>7 DEF RunJob
  <2> QED
    BY <1>7, <2>1, <2>2 DEF RunJob
<1>8. ASSUME NEW c \in Client, NEW n \in AddArgs, AddWorkers(c, n) PROVE Typed'
  <2>1. PICK l \in {"clamp", "spawn"} : Call(c, l, n, 0)
    BY <1>8 DEF AddWorkers
  <2>2. n \in Int
    BY ArgTypes
  <2>3. /\ cpc' \in [Client -> ClientPc] /\ num' \in [Client -> Int]
        /\ idx' \in [Client -> Nat] /\ seen' \in [Client -> Int]
        /\ calls' \in [Client -> Nat]
        /\ worker' \in [Client -> Worker]
        /\ told' \in [Client -> SUBSET Worker]
    <3> HIDE DEF Typed, TypeOK, Numbering, ClientPc
    <3> QED
      BY <1>0, <2>1, <2>2, CallTypes
  <2>4. UNCHANGED <<jobVars, monitor, poolVars, workerVars>>
        /\ misused' \in BOOLEAN
    BY <1>8 DEF AddWorkers, Record
  <2> QED
    BY <2>3, <2>4
<1>9. ASSUME NEW c \in Client, ClampNum(c) PROVE Typed'
  <2>1. num' \in [Client -> Int]
    BY <1>9, SizeAssumption, WrapType DEF ClampNum
  <2>2. cpc' \in [Client -> ClientPc]
    BY <1>9 DEF ClampNum
  <2> QED
    BY <1>9, <2>1, <2>2 DEF ClampNum
<1>10. ASSUME NEW c \in Client, SpawnWorker(c) PROVE Typed'
  <2>1. threadNumber + 1 \in Worker /\ threadNumber' \in 0 .. MaxThreads
    BY <1>10, SizeAssumption DEF SpawnWorker, Worker
  <2>2. workers' \in Seq(Worker)
    <3>1. workers \in Seq(Worker) /\ workers' = Append(workers, threadNumber + 1)
      BY <1>10 DEF SpawnWorker
    <3> HIDE DEF Typed, TypeOK, Numbering
    <3> QED
      BY <2>1, <3>1
  <2>3. idx' \in [Client -> Nat] /\ modCount' \in Nat
    <3>1. /\ idx \in [Client -> Nat] /\ idx' = [idx EXCEPT ![c] = @ + 1]
          /\ modCount \in Nat /\ modCount' = modCount + 1
      BY <1>10 DEF SpawnWorker
    <3> HIDE DEF Typed, TypeOK, Numbering
    <3> QED
      BY <3>1
  <2>4. /\ wpc' \in [Worker -> WorkerPc]
        /\ \A w \in Worker : job'[w] # NoJob <=> wpc'[w] = "run"
    <3>1. wpc' \in [Worker -> WorkerPc]
      BY <1>10, <2>1 DEF SpawnWorker
    <3>2. wpc[threadNumber + 1] = "unborn"
      BY <2>1
    <3>3. job[threadNumber + 1] = NoJob
      BY <2>1, <3>2
    <3> QED
      BY <1>10, <2>1, <3>1, <3>3 DEF SpawnWorker
  <2>6. TypeOK'
    <3>1. UNCHANGED <<jobVars, monitor, workerNumber, running, interrupted, job,
                      late, cpc, num, seen, worker, calls, told, misused>>
      BY <1>10 DEF SpawnWorker
    <3> QED
      BY <2>1, <2>2, <2>3, <2>4, <3>1
  <2>5. Numbering'
    BY SMTT(30), <1>10, <2>1 DEF SpawnWorker, Worker
  <2> QED
    BY <2>5, <2>6
<1>11. ASSUME NEW c \in Client, ReadForAdd(c) PROVE Typed'
  BY <1>11 DEF ReadForAdd
<1>12. ASSUME NEW c \in Client, StoreAdded(c) PROVE Typed'
  <2>1. /\ cpc' \in [Client -> ClientPc] /\ num' \in [Client -> Int]
        /\ idx' \in [Client -> Nat] /\ seen' \in [Client -> Int]
        /\ calls' \in [Client -> Nat]
        /\ worker' \in [Client -> Worker]
        /\ told' \in [Client -> SUBSET Worker]
    BY <1>12, ReturnTypes DEF StoreAdded
  <2>2. workerNumber' \in Int
    BY <1>12, WrapType DEF StoreAdded
  <2>3. UNCHANGED <<jobVars, monitor, workers, modCount, threadNumber, workerVars,
                    misused>>
    BY <1>12 DEF StoreAdded, Return
  <2> QED
    BY <2>1, <2>2, <2>3
<1>13. ASSUME NEW c \in Client, NEW n \in RemoveArgs, RemoveWorker(c, n)
       PROVE  Typed'
  <2>1. /\ cpc' \in [Client -> ClientPc] /\ num' \in [Client -> Int]
        /\ idx' \in [Client -> Nat] /\ seen' \in [Client -> Int]
        /\ calls' \in [Client -> Nat]
        /\ worker' \in [Client -> Worker]
        /\ told' \in [Client -> SUBSET Worker]
    <3> HIDE DEF Typed, TypeOK, Numbering, ClientPc
    <3>1. Call(c, "remove", n, 0) /\ n \in Int
      BY <1>13, ArgTypes DEF RemoveWorker
    <3> QED
      BY <1>0, <3>1, CallTypes
  <2>2. /\ UNCHANGED <<jobVars, poolVars, workerVars>> /\ monitor' = c
        /\ misused' \in BOOLEAN
    BY <1>13 DEF RemoveWorker, Record
  <2> QED
    BY <2>1, <2>2
<1>22. ASSUME NEW c \in Client, RemoveGet(c) PROVE Typed'
  <2>1. workers[idx[c] + 1] \in Worker
    BY <1>22 DEF RemoveGet
  <2> QED
    BY <1>22, <2>1 DEF RemoveGet
<1>14. ASSUME NEW c \in Client, RemoveOne(c) PROVE Typed'
  <2>1. PICK i \in 1 .. Len(workers) : workers' = RemoveAt(workers, i)
    BY <1>14 DEF RemoveOne
  <2>2. workers' \in Seq(Worker)
    BY <2>1, RemoveAtList
  <2>3. idx' \in [Client -> Nat] /\ modCount' \in Nat
    BY SMTT(30), <1>14 DEF RemoveOne
  <2> QED
    BY <1>14, <2>2, <2>3 DEF RemoveOne
<1>23. ASSUME NEW c \in Client, StopRemoved(c) PROVE Typed'
  <2>1. running' \in [Worker -> BOOLEAN]
    BY <1>23 DEF StopRemoved
  <2> QED
    BY <1>23, <2>1 DEF StopRemoved
<1>15. ASSUME NEW c \in Client, RemoveFails(c) PROVE Typed'
  <2>1. /\ cpc' \in [Client -> ClientPc] /\ num' \in [Client -> Int]
        /\ idx' \in [Client -> Nat] /\ seen' \in [Client -> Int]
        /\ calls' \in [Client -> Nat]
        /\ worker' \in [Client -> Worker]
        /\ told' \in [Client -> SUBSET Worker]
    BY <1>15, ReturnTypes DEF RemoveFails
  <2>2. /\ UNCHANGED <<jobVars, poolVars, workerVars, misused>>
        /\ monitor' \in Client \cup {Free}
    BY <1>15 DEF RemoveFails, Return
  <2> QED
    BY <2>1, <2>2
<1>16. ASSUME NEW c \in Client, ReadForRemoval(c) PROVE Typed'
  BY <1>16 DEF ReadForRemoval
<1>17. ASSUME NEW c \in Client, StoreRemoved(c) PROVE Typed'
  <2>1. /\ cpc' \in [Client -> ClientPc] /\ num' \in [Client -> Int]
        /\ idx' \in [Client -> Nat] /\ seen' \in [Client -> Int]
        /\ calls' \in [Client -> Nat]
        /\ worker' \in [Client -> Worker]
        /\ told' \in [Client -> SUBSET Worker]
    BY <1>17, ReturnTypes DEF StoreRemoved
  <2>2. workerNumber' \in Int
    BY <1>17, WrapType DEF StoreRemoved
  <2>3. /\ UNCHANGED <<jobVars, workers, modCount, threadNumber, workerVars,
                       misused>>
        /\ monitor' = Free
    BY <1>17 DEF StoreRemoved, Return
  <2> QED
    BY <2>1, <2>2, <2>3
<1>18. ASSUME NEW c \in Client, Shutdown(c) PROVE Typed'
  <2>1. /\ cpc' \in [Client -> ClientPc] /\ num' \in [Client -> Int]
        /\ idx' \in [Client -> Nat] /\ seen' \in [Client -> Int]
        /\ calls' \in [Client -> Nat]
        /\ worker' \in [Client -> Worker]
        /\ told' \in [Client -> SUBSET Worker]
    <3> HIDE DEF Typed, TypeOK, Numbering, ClientPc
    <3>1. Call(c, "shutdown", 0, modCount)
      BY <1>18 DEF Shutdown
    <3> QED
      BY <1>0, <3>1, CallTypes
  <2>2. UNCHANGED <<jobVars, monitor, poolVars, workerVars, misused>>
    BY <1>18 DEF Shutdown
  <2> QED
    BY <2>1, <2>2
<1>19. ASSUME NEW c \in Client, ShutdownNext(c) PROVE Typed'
  <2>1. workers[idx[c] + 1] \in Worker
    BY <1>19 DEF ShutdownNext
  <2>2. /\ idx' \in [Client -> Nat] /\ worker' \in [Client -> Worker]
        /\ cpc' \in [Client -> ClientPc]
    BY SMTT(30), <1>19, <2>1 DEF ShutdownNext
  <2>3. UNCHANGED <<jobVars, monitor, poolVars, workerVars, num, seen, calls, told,
                    misused>>
    BY <1>19 DEF ShutdownNext
  <2> QED
    BY <2>2, <2>3
<1>24. ASSUME NEW c \in Client, StopListed(c) PROVE Typed'
  <2>1. running' \in [Worker -> BOOLEAN]
    BY <1>24 DEF StopListed
  <2>2. told' \in [Client -> SUBSET Worker]
    BY <1>24 DEF StopListed
  <2> QED
    BY <1>24, <2>1, <2>2 DEF StopListed
<1>20. ASSUME NEW c \in Client, ShutdownEnds(c) PROVE Typed'
  <2>1. /\ cpc' \in [Client -> ClientPc] /\ num' \in [Client -> Int]
        /\ idx' \in [Client -> Nat] /\ seen' \in [Client -> Int]
        /\ calls' \in [Client -> Nat]
        /\ worker' \in [Client -> Worker]
        /\ told' \in [Client -> SUBSET Worker]
    BY <1>20, ReturnTypes DEF ShutdownEnds
  <2>2. /\ UNCHANGED <<jobVars, poolVars, workerVars, misused>>
        /\ monitor' \in Client \cup {Free}
    BY <1>20 DEF ShutdownEnds, Return
  <2> QED
    BY <2>1, <2>2
<1>21. CASE UNCHANGED vars
  BY <1>21 DEF vars
<1> HIDE DEF Typed, TypeOK, Numbering, WorkerPc, ClientPc
<1> QED
  BY <1>1, <1>2, <1>3, <1>4, <1>5, <1>6, <1>7, <1>8, <1>9, <1>10, <1>11,
     <1>12, <1>13, <1>14, <1>15, <1>16, <1>17, <1>18, <1>19, <1>20, <1>21,
     <1>22, <1>23, <1>24
  DEF Next, WorkerStep, ClientStep, StartCall

\* Every variable keeps its type in every execution: in particular null never
\* gets into the job list, and a worker's local job is set only while it runs.
THEOREM PoolTypes == Spec => []TypeOK
<1>1. Typed => TypeOK
  BY DEF Typed
<1> QED
  BY InitTyped, StepTyped, <1>1, PTL DEF Spec

-----------------------------------------------------------------------------
(* Workers that have been told to stop.                                    *)

\* What a worker's place in run() says about the jobs it took too late: none
\* before it has left the monitor with one.
LateInv ==
  \A w \in Worker :
    \/ late[w] = 0
    \/ late[w] = 1 /\ ~running[w] /\ wpc[w] \in {"run", "check", "gone", "dead"}

LEMMA StepLate == Typed /\ LateInv /\ [Next]_vars => LateInv'
<1> SUFFICES ASSUME Typed, LateInv, [Next]_vars PROVE LateInv'
  OBVIOUS
<1> USE DEF Typed, TypeOK, LateInv, jobVars, poolVars, workerVars, clientVars
<1>1. ASSUME NEW j \in Job \cup {NoJob}, Execute(j) PROVE LateInv'
  BY <1>1 DEF Execute, Notify, Waiting, At
<1>2. ASSUME NEW w \in Worker, CheckRunning(w) PROVE LateInv'
  BY <1>2 DEF CheckRunning
<1>3. ASSUME NEW w \in Worker, TakeJob(w) PROVE LateInv'
  BY <1>3 DEF TakeJob, HasMonitor
<1>4. ASSUME NEW w \in Worker,
             WaitForJob(w) \/ LeaveInterrupted(w) \/ SpuriousWakeup(w)
      PROVE  LateInv'
  BY <1>4 DEF WaitForJob, LeaveInterrupted, SpuriousWakeup, HasMonitor
<1>5. ASSUME NEW w \in Worker, NEW outcome \in Outcome, RunJob(w, outcome)
      PROVE  LateInv'
  <2>1. \E l \in {"dead", "check"} : wpc' = [wpc EXCEPT ![w] = l]
    BY <1>5 DEF RunJob
  <2>2. wpc[w] = "run" /\ UNCHANGED <<running, late>>
    BY <1>5 DEF RunJob
  <2> QED
    BY <2>1, <2>2
<1>6. ASSUME NEW c \in Client, SpawnWorker(c) PROVE LateInv'
  BY <1>6 DEF SpawnWorker
<1>7. ASSUME NEW c \in Client, StopRemoved(c) \/ StopListed(c) PROVE LateInv'
  BY <1>7 DEF StopRemoved, StopListed
<1>8. CASE UNCHANGED workerVars
  BY <1>8
<1> QED
  BY ZenonT(30), <1>1, <1>2, <1>3, <1>4, <1>5, <1>6, <1>7, <1>8
  DEF Next, WorkerStep, ClientStep, StartCall, vars, AddWorkers, ClampNum,
      ReadForAdd, StoreAdded, RemoveWorker, RemoveGet, RemoveOne, RemoveFails,
      ReadForRemoval, StoreRemoved, Shutdown, ShutdownNext, ShutdownEnds

\* A worker that shutdown() or removeWorker() has told to stop takes at most
\* one more job, wherever in run() it was.
THEOREM PoolStopsWorkers == Spec => []AtMostOneLateJob
<1>1. Init => LateInv
  BY DEF Init, LateInv
<1>2. LateInv => AtMostOneLateJob
  BY DEF LateInv, AtMostOneLateJob
<1> QED
  BY InitTyped, StepTyped, StepLate, <1>1, <1>2, PTL DEF Spec

\* Every worker that is told to run stays in the list that shutdown() walks,
\* through every addition and every removal that fails half-way, but for the
\* one a removal has taken off it and is about to stop.
THEOREM PoolKeepsWorkers == Spec => []NoOrphan
<1>1. Init => NoOrphan
  <2> SUFFICES ASSUME Init, NEW w \in Worker, wpc[w] # "unborn"
               PROVE  w \in ToSet(workers)
    BY DEF NoOrphan
  <2>1. w \in 1 .. workerNumber
    <3>1. workerNumber \in Int
      BY ClampType, ArgTypes, SizeAssumption DEF Init
    <3> QED
      BY <3>1 DEF Init, Worker
  <2> QED
    BY <2>1 DEF Init, ToSet
<1>2. Typed /\ NoOrphan /\ [Next]_vars => NoOrphan'
  <2> SUFFICES ASSUME Typed, NoOrphan, [Next]_vars PROVE NoOrphan'
    OBVIOUS
  <2> USE DEF NoOrphan, Typed, TypeOK, jobVars, poolVars, workerVars, clientVars
  <2> DEFINE Held == \A d \in Client : cpc[d] = "stop" =>
                        cpc'[d] = "stop" /\ worker'[d] = worker[d]
  <2>1. CASE /\ UNCHANGED <<workers, running>> /\ Held
             /\ \A w \in Worker : wpc[w] = "unborn" => wpc'[w] = "unborn"
    <3> HIDE DEF Typed, TypeOK
    <3> QED
      BY <2>1
  <2>2. ASSUME NEW c \in Client, SpawnWorker(c) PROVE NoOrphan'
    <3>1. ToSet(workers') = ToSet(workers) \cup {threadNumber + 1}
      BY <2>2, AppendElements DEF SpawnWorker
    <3> QED
      BY <2>2, <3>1 DEF SpawnWorker
  <2>3. ASSUME NEW c \in Client, RemoveOne(c) PROVE NoOrphan'
    <3>1. PICK i \in 1 .. Len(workers) :
            workers[i] = worker[c] /\ workers' = RemoveAt(workers, i)
      BY <2>3 DEF RemoveOne
    <3>2. /\ UNCHANGED <<running, wpc, worker>> /\ cpc'[c] = "stop" /\ Held
      BY <2>3 DEF RemoveOne
    <3>3. ASSUME NEW w \in ToSet(workers), w # worker[c]
          PROVE  w \in ToSet(workers')
      <4>1. workers \in Seq(Worker) /\ w # workers[i]
        BY <3>1, <3>3
      <4> HIDE DEF Typed, TypeOK, NoOrphan
      <4> QED
        BY <3>1, <4>1, RemoveAtKeeps
    <3> QED
      BY <3>2, <3>3
  <2>4. ASSUME NEW c \in Client, StopRemoved(c) \/ StopListed(c)
        PROVE  NoOrphan'
    <3>1. /\ UNCHANGED <<workers, worker, wpc>>
          /\ running' = [running EXCEPT ![worker[c]] = FALSE]
          /\ \A d \in Client \ {c} : cpc'[d] = cpc[d]
      BY <2>4 DEF StopRemoved, StopListed
    <3>2. \A w \in Worker : running'[w] => running[w] /\ w # worker[c]
      BY <3>1
    <3> HIDE DEF Typed, TypeOK
    <3> QED
      BY <3>1, <3>2
  <2>5. ASSUME NEW j \in Job \cup {NoJob}, Execute(j) PROVE NoOrphan'
    BY <2>1, <2>5 DEF Execute, Notify, Waiting, At
  <2>6. ASSUME NEW w \in Worker, WorkerStep(w) \/ SpuriousWakeup(w)
        PROVE  NoOrphan'
    BY <2>1, <2>6 DEF WorkerStep, CheckRunning, TakeJob, WaitForJob,
       LeaveInterrupted, RunJob, SpuriousWakeup, HasMonitor
  <2>7. ASSUME NEW c \in Client,
               \/ StartCall(c) \/ ClampNum(c) \/ ReadForAdd(c) \/ StoreAdded(c)
               \/ RemoveGet(c) \/ RemoveFails(c) \/ ReadForRemoval(c)
               \/ StoreRemoved(c) \/ ShutdownNext(c) \/ ShutdownEnds(c)
        PROVE  NoOrphan'
    <3>1. UNCHANGED <<workers, running, wpc>>
      BY <2>7 DEF StartCall, AddWorkers, RemoveWorker, Shutdown, ClampNum,
         ReadForAdd, StoreAdded, RemoveGet, RemoveFails, ReadForRemoval,
         StoreRemoved, ShutdownNext, ShutdownEnds
    <3>2. /\ cpc[c] # "stop"
          /\ \A d \in Client \ {c} : cpc'[d] = cpc[d] /\ worker'[d] = worker[d]
      <4>0. /\ cpc \in [Client -> ClientPc]
            /\ worker \in [Client -> Worker]
        OBVIOUS
      <4> HIDE DEF Typed, TypeOK, NoOrphan
      <4>1. CASE StartCall(c) \/ ClampNum(c) \/ ReadForAdd(c) \/ StoreAdded(c)
        BY <4>0, <4>1 DEF StartCall, AddWorkers, RemoveWorker, Shutdown, ClampNum,
           ReadForAdd, StoreAdded, Call, Return
      <4>2. CASE RemoveGet(c) \/ RemoveFails(c) \/ ReadForRemoval(c)
        BY <4>0, <4>2 DEF RemoveGet, RemoveFails, ReadForRemoval, Return
      <4>3. CASE StoreRemoved(c) \/ ShutdownNext(c) \/ ShutdownEnds(c)
        BY <4>0, <4>3 DEF StoreRemoved, ShutdownNext, ShutdownEnds, Return
      <4> QED
        BY <2>7, <4>1, <4>2, <4>3
    <3>3. Held
      BY <3>2
    <3> QED
      BY <2>1, <3>1, <3>3
  <2> QED
    BY <2>1, <2>2, <2>3, <2>4, <2>5, <2>6, <2>7 DEF Next, ClientStep, vars
<1> QED
  BY InitTyped, StepTyped, <1>1, <1>2, PTL DEF Spec

-----------------------------------------------------------------------------
(* Jobs.                                                                   *)

\* What moves jobs, stated for any step: one is appended, taken or ended, or
\* none moves.
LEMMA JobMoves ==
  ASSUME Typed, [Next]_vars
  PROVE  \/ \E j \in Job : Execute(j)
         \/ \E w \in Worker : TakeJob(w)
         \/ \E w \in Worker, outcome \in Outcome : RunJob(w, outcome)
         \/ /\ UNCHANGED <<jobs, accepted, done, job>>
            /\ \A w \in Worker : wpc'[w] = "run" <=> wpc[w] = "run"
<1> USE DEF Typed, TypeOK, jobVars, poolVars, workerVars, clientVars
<1> DEFINE NoMove == /\ UNCHANGED <<jobs, accepted, done, job>>
                     /\ \A w \in Worker : wpc'[w] = "run" <=> wpc[w] = "run"
<1>1. ASSUME NEW j \in Job \cup {NoJob}, Execute(j) PROVE j \in Job
  BY <1>1 DEF Execute
<1>2. ASSUME NEW w \in Worker,
             \/ CheckRunning(w) \/ WaitForJob(w) \/ LeaveInterrupted(w)
             \/ SpuriousWakeup(w)
      PROVE  NoMove
  BY <1>2 DEF CheckRunning, WaitForJob, LeaveInterrupted, SpuriousWakeup,
     HasMonitor
<1>3. ASSUME NEW c \in Client, SpawnWorker(c) PROVE NoMove
  <2>1. threadNumber + 1 \in Worker /\ wpc[threadNumber + 1] = "unborn"
    BY <1>3, SizeAssumption DEF SpawnWorker, Worker, Numbering
  <2> QED
    BY <1>3, <2>1 DEF SpawnWorker
<1>4. ASSUME UNCHANGED <<jobVars, wpc, job>> PROVE NoMove
  BY <1>4
<1> QED
  BY <1>1, <1>2, <1>3, <1>4, ZenonT(30)
  DEF Next, WorkerStep, ClientStep, StartCall, vars, AddWorkers, ClampNum,
      ReadForAdd, StoreAdded, RemoveWorker, RemoveGet, RemoveOne, StopRemoved,
      RemoveFails, ReadForRemoval, StoreRemoved, Shutdown, ShutdownNext,
      StopListed, ShutdownEnds

\* The effect of each move on the jobs that are being run.
LEMMA ActiveMoves ==
  ASSUME Typed, Typed', JobsConserved
  PROVE  /\ \A j \in Job : Execute(j) => Active' = Active
         /\ \A w \in Worker : TakeJob(w) => Active' = Active \cup {Head(jobs)}
         /\ \A w \in Worker, outcome \in Outcome :
              RunJob(w, outcome) => /\ Active' = Active \ {job[w]}
                                    /\ job[w] \in Active
<1> USE DEF Typed, TypeOK, Active, At
<1>1. ASSUME NEW j \in Job, Execute(j) PROVE Active' = Active
  <2>1. \A w \in Worker : wpc'[w] = "run" <=> wpc[w] = "run"
    BY <1>1 DEF Execute, Notify, Waiting
  <2> QED
    BY <1>1, <2>1 DEF Execute
<1>2. ASSUME NEW w \in Worker, TakeJob(w)
      PROVE  Active' = Active \cup {Head(jobs)}
  BY <1>2 DEF TakeJob, HasMonitor
<1>3. ASSUME NEW w \in Worker, NEW outcome \in Outcome, RunJob(w, outcome)
      PROVE  Active' = Active \ {job[w]} /\ job[w] \in Active
  <2>1. /\ wpc[w] = "run" /\ job' = [job EXCEPT ![w] = NoJob]
        /\ \A v \in Worker : wpc'[v] = "run" <=> v # w /\ wpc[v] = "run"
    BY <1>3 DEF RunJob
  <2>2. \A v \in Worker : v # w /\ wpc[v] = "run" => job[v] # job[w]
    BY <2>1 DEF JobsConserved
  <2>3. job[w] \in Active /\ job[w] \notin Active'
    BY <2>1, <2>2
  <2>4. \A v \in Worker : v # w => job'[v] = job[v]
    BY <2>1
  <2>5. Active' \subseteq Active
    BY <2>1, <2>4
  <2>6. ASSUME NEW x \in Active, x # job[w] PROVE x \in Active'
    <3>1. PICK v \in Worker : wpc[v] = "run" /\ job[v] = x
      BY DEF Active, At
    <3> QED
      BY <2>1, <2>4, <2>6, <3>1
  <2> QED
    BY <2>3, <2>5, <2>6
<1> QED
  BY <1>1, <1>2, <1>3

LEMMA StepConserved ==
  Typed /\ Typed' /\ JobsConserved /\ [Next]_vars => JobsConserved'
<1> SUFFICES ASSUME Typed, Typed', JobsConserved, [Next]_vars
             PROVE  JobsConserved'
  OBVIOUS
<1>1. ASSUME NEW j \in Job, Execute(j) PROVE JobsConserved'
  <2>1. Active' = Active
    BY <1>1, ActiveMoves
  <2>2. ToSet(jobs') = ToSet(jobs) \cup {j}
    BY <1>1, AppendElements DEF Execute, Typed, TypeOK
  <2>3. j \notin ToSet(jobs) /\ j \notin Active /\ j \notin done
    BY <1>1 DEF Execute, JobsConserved
  <2>4. \A i, k \in 1 .. Len(jobs') : jobs'[i] = jobs'[k] => i = k
    <3>1. jobs \in Seq(Job) /\ j \notin ToSet(jobs)
          /\ \A i, k \in 1 .. Len(jobs) : jobs[i] = jobs[k] => i = k
      BY <2>3 DEF JobsConserved, Typed, TypeOK
    <3>2. \A i, k \in 1 .. Len(Append(jobs, j)) :
            Append(jobs, j)[i] = Append(jobs, j)[k] => i = k
      BY <3>1, AppendDistinct, Zenon
    <3> QED
      BY <1>1, <3>2 DEF Execute
  <2>5. \A w, v \in At("run")' : job'[w] = job'[v] => w = v
    BY <1>1 DEF Execute, Notify, Waiting, At, JobsConserved, Typed, TypeOK
  <2> QED
    BY <1>1, <2>1, <2>2, <2>3, <2>4, <2>5 DEF Execute, JobsConserved
<1>2. ASSUME NEW w \in Worker, TakeJob(w) PROVE JobsConserved'
  <2>1. Active' = Active \cup {Head(jobs)}
    BY <1>2, ActiveMoves
  <2>2. /\ Head(jobs) \in ToSet(jobs)
        /\ ToSet(jobs') = ToSet(jobs) \ {Head(jobs)}
        /\ \A i, k \in 1 .. Len(jobs') : jobs'[i] = jobs'[k] => i = k
    <3>1. jobs \in Seq(Job) /\ jobs # << >> /\ jobs' = Tail(jobs)
          /\ \A i, k \in 1 .. Len(jobs) : jobs[i] = jobs[k] => i = k
      BY <1>2 DEF TakeJob, JobsConserved, Typed, TypeOK
    <3>2. /\ Head(jobs) \in ToSet(jobs)
          /\ ToSet(Tail(jobs)) = ToSet(jobs) \ {Head(jobs)}
          /\ \A i, k \in 1 .. Len(Tail(jobs)) :
               Tail(jobs)[i] = Tail(jobs)[k] => i = k
      BY <3>1, TailElements, Zenon
    <3> QED
      BY <3>1, <3>2
  <2>3. \A u, v \in At("run")' : job'[u] = job'[v] => u = v
    <3>1. Head(jobs) \notin Active
      BY <2>2 DEF JobsConserved
    <3> QED
      BY <1>2, <3>1 DEF TakeJob, HasMonitor, At, Active, JobsConserved, Typed,
         TypeOK
  <2> QED
    BY <1>2, <2>1, <2>2, <2>3 DEF TakeJob, JobsConserved
<1>3. ASSUME NEW w \in Worker, NEW outcome \in Outcome, RunJob(w, outcome)
      PROVE  JobsConserved'
  <2>1. Active' = Active \ {job[w]} /\ job[w] \in Active
    BY <1>3, ActiveMoves
  <2>2. done' = done \cup {job[w]} /\ UNCHANGED <<jobs, accepted>>
    BY <1>3 DEF RunJob
  <2>3. \A u, v \in At("run")' : job'[u] = job'[v] => u = v
    <3>1. \A v \in Worker : wpc'[v] = "run" => /\ wpc[v] = "run"
                                               /\ job'[v] = job[v]
      BY <1>3 DEF RunJob, Typed, TypeOK
    <3> QED
      BY <3>1 DEF At, JobsConserved
  <2> QED
    BY <2>1, <2>2, <2>3 DEF JobsConserved
<1>4. CASE /\ UNCHANGED <<jobs, accepted, done, job>>
           /\ \A w \in Worker : wpc'[w] = "run" <=> wpc[w] = "run"
  BY <1>4 DEF JobsConserved, Active, At
<1> QED
  BY <1>1, <1>2, <1>3, <1>4, JobMoves

\* No job that execute() accepted is ever lost, queued twice or run twice.
THEOREM PoolConservesJobs == Spec => []JobsConserved
<1>1. Init => JobsConserved
  <2> SUFFICES ASSUME Init PROVE JobsConserved
    OBVIOUS
  <2>1. Active = {}
    BY DEF Init, Active, At
  <2>2. ToSet(jobs) = {} /\ Len(jobs) = 0
    BY DEF Init, ToSet
  <2> QED
    BY <2>1, <2>2 DEF Init, JobsConserved, At
<1> QED
  BY InitTyped, StepTyped, StepConserved, <1>1, PTL DEF Spec

-----------------------------------------------------------------------------
(* The pool implements JobService.                                         *)

LEMMA StepServes ==
  Typed /\ Typed' /\ JobsConserved /\ [Next]_vars => [Service!Next]_(Service!vars)
<1> SUFFICES ASSUME Typed, Typed', JobsConserved, [Next]_vars
             PROVE  [Service!Next]_(Service!vars)
  OBVIOUS
<1>1. ASSUME NEW j \in Job, Execute(j) PROVE Service!Submit(j)
  <2>1. Active' = Active
    BY <1>1, ActiveMoves
  <2> QED
    BY <1>1, <2>1
    DEF Execute, Service!Submit, JobsConserved, Service!ToSet, ToSet
<1>2. ASSUME NEW w \in Worker, TakeJob(w) PROVE Service!Start
  <2>1. Active' = Active \cup {Head(jobs)}
    BY <1>2, ActiveMoves
  <2>2. Head(jobs) \in ToSet(jobs)
    BY <1>2, TailElements DEF TakeJob, JobsConserved, Typed, TypeOK
  <2> QED
    BY <1>2, <2>1, <2>2 DEF TakeJob, Service!Start, JobsConserved
<1>3. ASSUME NEW w \in Worker, NEW outcome \in Outcome, RunJob(w, outcome)
      PROVE  job[w] \in Job /\ Service!Finish(job[w])
  <2>1. Active' = Active \ {job[w]} /\ job[w] \in Active
    BY <1>3, ActiveMoves
  <2>2. job[w] \in Job
    BY <1>3 DEF RunJob, Typed, TypeOK
  <2> QED
    BY <1>3, <2>1, <2>2 DEF RunJob, Service!Finish
<1>4. CASE /\ UNCHANGED <<jobs, accepted, done, job>>
           /\ \A w \in Worker : wpc'[w] = "run" <=> wpc[w] = "run"
  BY <1>4 DEF Active, At, Service!vars
<1> QED
  BY <1>1, <1>2, <1>3, <1>4, JobMoves DEF Service!Next

\* The pool starts jobs in the order of their execute() calls, each at most
\* once: every execution is one of the abstract service.
THEOREM PoolImplementsService == Spec => ServiceSpec
<1>1. Init => Service!Init
  BY DEF Init, Service!Init, Active, At
<1> QED
  BY InitTyped, StepTyped, PoolConservesJobs, StepServes, <1>1, PTL
  DEF Spec, ServiceSpec, Service!Spec

-----------------------------------------------------------------------------
(* Notifications.                                                          *)

LEMMA WorkerFinite == IsFiniteSet(Worker)
BY SizeAssumption, FS_Interval DEF Worker

LEMMA WokenFinite ==
  /\ IsFiniteSet(Woken) /\ Cardinality(Woken) \in Nat
  /\ IsFiniteSet(Woken') /\ Cardinality(Woken') \in Nat
<1>1. Woken \subseteq Worker /\ Woken' \subseteq Worker
  BY DEF Woken, At
<1> QED
  BY <1>1, WorkerFinite, FS_Subset, FS_CardinalityType

\* A worker that stops being woken, or becomes it, counts for one.
LEMMA WokenChange ==
  /\ \A w : Woken' = Woken \ {w} =>
       Cardinality(Woken') >= Cardinality(Woken) - 1
  /\ \A w : w \notin Woken /\ Woken' = Woken \cup {w} =>
       Cardinality(Woken') = Cardinality(Woken) + 1
BY WokenFinite, FS_RemoveElement, FS_AddElement

LEMMA StepWakeup == Typed /\ NoLostWakeup /\ [Next]_vars => NoLostWakeup'
<1> SUFFICES ASSUME Typed, NoLostWakeup, [Next]_vars, Waiting' # {}
             PROVE  Len(jobs') <= Cardinality(Woken')
  BY DEF NoLostWakeup
<1> USE DEF Typed, TypeOK, Waiting, Woken, At, jobVars, workerVars
<1>1. ASSUME NEW j \in Job \cup {NoJob}, Execute(j)
      PROVE  Len(jobs') <= Cardinality(Woken')
  <2>1. Len(jobs') = Len(jobs) + 1
    BY <1>1 DEF Execute
  <2>2. PICK w \in Waiting : wpc' = [wpc EXCEPT ![w] = "woken"]
    BY <1>1 DEF Execute, Notify
  <2>3. w \notin Woken /\ Woken' = Woken \cup {w}
    BY <2>2
  <2>4. Len(jobs) <= Cardinality(Woken)
    BY <2>2 DEF NoLostWakeup
  <2> HIDE DEF Waiting, Woken
  <2>5. Cardinality(Woken') = Cardinality(Woken) + 1
    BY <2>3, WokenChange
  <2> QED
    BY <2>1, <2>4, <2>5, WokenFinite
<1>2. ASSUME NEW w \in Worker, TakeJob(w)
      PROVE  Len(jobs') <= Cardinality(Woken')
  <2>1. Len(jobs') = Len(jobs) - 1
    BY <1>2 DEF TakeJob
  <2>2. Woken' = Woken \ {w} /\ Waiting # {}
    BY <1>2 DEF TakeJob, HasMonitor
  <2>3. Len(jobs) <= Cardinality(Woken)
    BY <2>2 DEF NoLostWakeup
  <2> HIDE DEF Waiting, Woken
  <2>4. Cardinality(Woken') >= Cardinality(Woken) - 1
    BY <2>2, WokenChange
  <2> QED
    BY <2>1, <2>3, <2>4, WokenFinite
<1>3. ASSUME NEW w \in Worker, WaitForJob(w) \/ LeaveInterrupted(w)
      PROVE  Len(jobs') <= Cardinality(Woken')
  <2>1. Len(jobs') = 0
    BY <1>3 DEF WaitForJob, LeaveInterrupted
  <2> HIDE DEF Waiting, Woken
  <2> QED
    BY <2>1, WokenFinite
<1>4. ASSUME NEW w \in Worker, SpuriousWakeup(w)
      PROVE  Len(jobs') <= Cardinality(Woken')
  <2>1. w \notin Woken /\ Woken' = Woken \cup {w} /\ Waiting # {}
    BY <1>4 DEF SpuriousWakeup
  <2>2. jobs' = jobs /\ Len(jobs) <= Cardinality(Woken)
    BY <1>4, <2>1 DEF SpuriousWakeup, NoLostWakeup
  <2> HIDE DEF Waiting, Woken
  <2>3. Cardinality(Woken') = Cardinality(Woken) + 1
    BY <2>1, WokenChange
  <2> QED
    BY <2>2, <2>3, WokenFinite
<1>5. ASSUME jobs' = jobs, Woken' = Woken, Waiting' = Waiting
      PROVE  Len(jobs') <= Cardinality(Woken')
  BY <1>5 DEF NoLostWakeup
<1>6. ASSUME NEW w \in Worker,
             CheckRunning(w) \/ \E outcome \in Outcome : RunJob(w, outcome)
      PROVE  jobs' = jobs /\ Woken' = Woken /\ Waiting' = Waiting
  BY <1>6 DEF CheckRunning, RunJob
<1>7. ASSUME NEW c \in Client, SpawnWorker(c)
      PROVE  jobs' = jobs /\ Woken' = Woken /\ Waiting' = Waiting
  <2>1. threadNumber + 1 \in Worker /\ wpc[threadNumber + 1] = "unborn"
    BY <1>7, SizeAssumption DEF SpawnWorker, Worker, Numbering
  <2> QED
    BY <1>7, <2>1 DEF SpawnWorker
<1>8. ASSUME UNCHANGED <<jobs, wpc>>
      PROVE  jobs' = jobs /\ Woken' = Woken /\ Waiting' = Waiting
  BY <1>8
<1> QED
  BY ZenonT(30), <1>1, <1>2, <1>3, <1>4, <1>5, <1>6, <1>7, <1>8
  DEF Next, WorkerStep, ClientStep, StartCall, vars, AddWorkers, ClampNum,
      ReadForAdd, StoreAdded, RemoveWorker, RemoveGet, RemoveOne, StopRemoved,
      RemoveFails, ReadForRemoval, StoreRemoved, Shutdown, ShutdownNext,
      StopListed, ShutdownEnds

\* One notify() per accepted job is enough for any number of workers: no job
\* is queued while every worker that could take it sleeps.
THEOREM PoolLosesNoWakeup == Spec => []NoLostWakeup
<1>1. Init => NoLostWakeup
  <2> SUFFICES ASSUME Init, Waiting # {} PROVE FALSE
    BY DEF NoLostWakeup
  <2> QED
    BY DEF Init, Waiting, At
<1> QED
  BY InitTyped, StepTyped, StepWakeup, <1>1, PTL DEF Spec

-----------------------------------------------------------------------------
(* shutdown() and its fail-fast iterator.                                  *)

\* initializeWokers() lists each worker once, under a number of its own.
ListInv ==
  /\ \A i, k \in 1 .. Len(workers) : workers[i] = workers[k] => i = k
  /\ \A w \in ToSet(workers) : w <= threadNumber

LEMMA StepList == Typed /\ ListInv /\ [Next]_vars => ListInv'
<1> SUFFICES ASSUME Typed, ListInv, [Next]_vars PROVE ListInv'
  OBVIOUS
<1>0. workers \in Seq(Worker) /\ threadNumber \in 0 .. MaxThreads
  BY DEF Typed, TypeOK
<1>1. ASSUME NEW c \in Client, SpawnWorker(c) PROVE ListInv'
  <2> DEFINE new == threadNumber + 1
  <2>1. /\ workers' = Append(workers, new) /\ threadNumber' = new
        /\ threadNumber \in Nat /\ new \in Worker
    BY <1>0, <1>1, SizeAssumption DEF SpawnWorker, Worker
  <2>2. \A w \in ToSet(workers) : w \in Worker
    BY <1>0 DEF ToSet
  <2>3. \A w \in ToSet(workers) : w <= threadNumber /\ w \in Int
    BY <2>2, SizeAssumption DEF ListInv, Worker
  <2>4. new \notin ToSet(workers)
    BY <2>1, <2>3
  <2>5. ToSet(workers') = ToSet(workers) \cup {new}
    BY <1>0, <2>1, AppendElements
  <2>6. \A i, k \in 1 .. Len(workers) : workers[i] = workers[k] => i = k
    BY DEF ListInv
  <2> HIDE DEF new
  <2>7. \A i, k \in 1 .. Len(workers') : workers'[i] = workers'[k] => i = k
    BY <1>0, <2>1, <2>4, <2>6, AppendDistinct
  <2>8. \A w \in ToSet(workers') : w <= threadNumber'
    BY <2>1, <2>3, <2>5 DEF new
  <2> QED
    BY <2>7, <2>8 DEF ListInv
<1>2. ASSUME NEW c \in Client, RemoveOne(c) PROVE ListInv'
  <2>1. PICK i \in 1 .. Len(workers) : workers' = RemoveAt(workers, i)
    BY <1>2 DEF RemoveOne
  <2>2. threadNumber' = threadNumber
    BY <1>2 DEF RemoveOne
  <2>3. \A n, k \in 1 .. Len(workers) : workers[n] = workers[k] => n = k
    BY DEF ListInv
  <2>4. /\ ToSet(workers') \subseteq ToSet(workers)
        /\ \A n, k \in 1 .. Len(workers') : workers'[n] = workers'[k] => n = k
    BY <1>0, <2>1, <2>3, RemoveAtDistinct
  <2> QED
    BY <2>2, <2>4 DEF ListInv
<1>3. CASE UNCHANGED <<workers, threadNumber>>
  BY <1>3 DEF ListInv
<1> QED
  BY ZenonT(30), <1>1, <1>2, <1>3
  DEF Next, WorkerStep, ClientStep, StartCall, vars, Execute, CheckRunning,
      TakeJob, WaitForJob, LeaveInterrupted, SpuriousWakeup, RunJob,
      AddWorkers, ClampNum, ReadForAdd, StoreAdded, RemoveWorker, RemoveGet,
      StopRemoved, RemoveFails, ReadForRemoval, StoreRemoved, Shutdown,
      ShutdownNext, StopListed, ShutdownEnds, jobVars, poolVars, workerVars,
      clientVars

\* The workers behind the cursor that shutdown() has told to stop: all but
\* the one that next() has just returned.
Passed(c) == IF cpc[c] = "stopping" THEN idx[c] - 1 ELSE idx[c]

\* What a shutdown() that is under way has done.  While its iterator is valid
\* it has told the workers before the cursor; when the list has changed it has
\* still told as many workers as next() has returned, each of them once.
WalkInv(c) ==
  /\ seen[c] <= modCount
  /\ \A w \in told[c] : ~running[w]
  /\ Passed(c) \in Nat /\ Cardinality(told[c]) = Passed(c)
  /\ cpc[c] = "stopping" => worker[c] \notin told[c]
  /\ seen[c] = modCount =>
       /\ idx[c] <= Len(workers)
       /\ told[c] = {workers[i] : i \in 1 .. Passed(c)}
       /\ cpc[c] = "stopping" => worker[c] = workers[idx[c]]

IteratorInv ==
  \A c \in Client :
    /\ cpc[c] = "idle" => idx[c] = 0 /\ told[c] = {}
    /\ cpc[c] \in {"shutdown", "stopping"} => WalkInv(c)

\* The steps of others that leave a client's shutdown() as it is: a change of
\* the list invalidates the iterator, and a stopped worker is never started.
LEMMA WalkKept ==
  ASSUME Typed, NEW c \in Client, WalkInv(c),
         cpc'[c] = cpc[c], idx'[c] = idx[c], seen'[c] = seen[c],
         worker'[c] = worker[c], told'[c] = told[c],
         \A w \in Worker : running'[w] => running[w],
         UNCHANGED <<workers, modCount>> \/ modCount' = modCount + 1
  PROVE  WalkInv(c)'
<1>1. Passed(c)' = Passed(c)
  BY DEF Passed
<1>2. told[c] \subseteq Worker /\ seen[c] \in Int /\ modCount \in Nat
  BY DEF Typed, TypeOK
<1> QED
  BY <1>1, <1>2 DEF WalkInv

LEMMA StepIterator == Typed /\ ListInv /\ IteratorInv /\ [Next]_vars => IteratorInv'
<1> SUFFICES ASSUME Typed, ListInv, IteratorInv, [Next]_vars PROVE IteratorInv'
  OBVIOUS
<1> USE DEF jobVars, poolVars, workerVars, clientVars
<1>0. /\ idx \in [Client -> Nat] /\ seen \in [Client -> Int]
      /\ cpc \in [Client -> ClientPc] /\ modCount \in Nat
      /\ workers \in Seq(Worker) /\ Len(workers) \in Nat
      /\ running \in [Worker -> BOOLEAN] /\ worker \in [Client -> Worker]
      /\ told \in [Client -> SUBSET Worker]
  BY DEF Typed, TypeOK
<1> DEFINE Same(d) == /\ cpc'[d] = cpc[d] /\ idx'[d] = idx[d] /\ seen'[d] = seen[d]
                      /\ worker'[d] = worker[d] /\ told'[d] = told[d]
           Calm == /\ \A w \in Worker : running'[w] => running[w]
                   /\ UNCHANGED <<workers, modCount>> \/ modCount' = modCount + 1
           Good(d) == /\ cpc'[d] = "idle" => idx'[d] = 0 /\ told'[d] = {}
                      /\ cpc'[d] \in {"shutdown", "stopping"} => WalkInv(d)'
<1>1. ASSUME Calm, NEW d \in Client, Same(d) PROVE Good(d)
  BY <1>1, WalkKept DEF IteratorInv
<1>2. ASSUME NEW c \in Client, Calm, \A d \in Client \ {c} : Same(d), Good(c)
      PROVE  IteratorInv'
  <2>1. \A d \in Client : Good(d)
    BY <1>1, <1>2
  <2> QED
    BY <2>1 DEF IteratorInv
<1> HIDE DEF Good
<1>3. ASSUME NEW c \in Client,
             \/ \E n \in AddArgs : AddWorkers(c, n)
             \/ \E n \in RemoveArgs : RemoveWorker(c, n)
             \/ ClampNum(c) \/ SpawnWorker(c) \/ ReadForAdd(c) \/ StoreAdded(c)
             \/ RemoveGet(c) \/ RemoveOne(c) \/ StopRemoved(c) \/ RemoveFails(c)
             \/ ReadForRemoval(c) \/ StoreRemoved(c) \/ ShutdownEnds(c)
      PROVE  IteratorInv'
  <2>1. Calm
    BY <1>0, <1>3 DEF AddWorkers, RemoveWorker, ClampNum, SpawnWorker, ReadForAdd,
       StoreAdded, RemoveGet, RemoveOne, StopRemoved, RemoveFails,
       ReadForRemoval, StoreRemoved, ShutdownEnds
  <2>2. /\ cpc'[c] \notin {"shutdown", "stopping"}
        /\ cpc'[c] = "idle" => idx'[c] = 0 /\ told'[c] = {}
        /\ \A d \in Client \ {c} : Same(d)
    <3>1. CASE \/ \E n \in AddArgs : AddWorkers(c, n)
               \/ \E n \in RemoveArgs : RemoveWorker(c, n)
               \/ ClampNum(c) \/ SpawnWorker(c) \/ ReadForAdd(c)
      BY ZenonT(30), <1>0, <3>1 DEF AddWorkers, RemoveWorker, ClampNum, SpawnWorker,
         ReadForAdd, Call
    <3>2. CASE RemoveGet(c) \/ RemoveOne(c) \/ StopRemoved(c) \/ ReadForRemoval(c)
      BY <1>0, <3>2 DEF RemoveGet, RemoveOne, StopRemoved, ReadForRemoval
    <3>3. CASE StoreAdded(c) \/ RemoveFails(c) \/ StoreRemoved(c) \/ ShutdownEnds(c)
      BY <1>0, <3>3 DEF StoreAdded, RemoveFails, StoreRemoved, ShutdownEnds, Return
    <3> QED
      BY <1>3, <3>1, <3>2, <3>3
  <2>3. Good(c)
    BY <2>2 DEF Good
  <2> QED
    BY <1>2, <2>1, <2>2, <2>3
<1>4. ASSUME NEW c \in Client, Shutdown(c) PROVE IteratorInv'
  <2>1. /\ UNCHANGED <<workers, modCount, running, idx, worker, told>>
        /\ seen'[c] = modCount /\ cpc[c] = "idle" /\ cpc'[c] = "shutdown"
        /\ \A d \in Client \ {c} : Same(d)
    BY <1>0, <1>4 DEF Shutdown, Call
  <2>2. idx'[c] = 0 /\ told'[c] = {} /\ Passed(c)' = 0
    BY <2>1 DEF IteratorInv, Passed
  <2>3. {workers[i] : i \in 1 .. 0} = {} /\ Cardinality({}) = 0
    BY FS_EmptySet
  <2>4. WalkInv(c)'
    BY <1>0, <2>1, <2>2, <2>3 DEF WalkInv
  <2>5. Good(c)
    BY <2>1, <2>4 DEF Good
  <2> QED
    BY <1>2, <2>1, <2>5
<1>5. ASSUME NEW c \in Client, ShutdownNext(c) PROVE IteratorInv'
  <2>1. /\ UNCHANGED <<workers, modCount, running, seen, told>>
        /\ cpc[c] = "shutdown" /\ cpc'[c] = "stopping"
        /\ seen[c] = modCount /\ idx[c] < Len(workers) /\ idx'[c] = idx[c] + 1
        /\ worker'[c] = workers[idx[c] + 1]
        /\ \A d \in Client \ {c} : Same(d)
    BY <1>0, <1>5 DEF ShutdownNext
  <2>2. idx[c] \in Nat /\ Len(workers) \in Nat
    BY <1>0
  <2>3. /\ WalkInv(c) /\ Passed(c) = idx[c] /\ Passed(c)' = idx[c]
    BY <2>1, <2>2 DEF IteratorInv, Passed
  <2>4. told[c] = {workers[i] : i \in 1 .. idx[c]}
    BY <2>1, <2>3 DEF WalkInv
  <2>5. worker'[c] \notin told'[c]
    <3> SUFFICES ASSUME worker'[c] \in told'[c] PROVE FALSE
      OBVIOUS
    <3>1. PICK i \in 1 .. idx[c] : workers[i] = workers[idx[c] + 1]
      BY <2>1, <2>4
    <3>2. i \in 1 .. Len(workers) /\ idx[c] + 1 \in 1 .. Len(workers)
      BY <2>1, <2>2
    <3> QED
      BY <2>2, <3>1, <3>2 DEF ListInv
  <2>6. WalkInv(c)'
    <3>1. /\ seen'[c] <= modCount' /\ \A w \in told'[c] : ~running'[w]
          /\ Cardinality(told'[c]) = idx[c]
      BY <2>1, <2>3 DEF WalkInv
    <3>2. /\ idx'[c] <= Len(workers') /\ worker'[c] = workers'[idx'[c]]
          /\ told'[c] = {workers'[i] : i \in 1 .. idx[c]}
      BY <2>1, <2>2, <2>4
    <3> QED
      BY <2>2, <2>3, <2>5, <3>1, <3>2 DEF WalkInv
  <2>7. Good(c)
    BY <2>1, <2>6 DEF Good
  <2> QED
    BY <1>2, <2>1, <2>7
<1>6. ASSUME NEW c \in Client, StopListed(c) PROVE IteratorInv'
  <2>1. /\ UNCHANGED <<workers, modCount, seen, idx, worker>>
        /\ cpc[c] = "stopping" /\ cpc'[c] = "shutdown"
        /\ told'[c] = told[c] \cup {worker[c]}
        /\ running' = [running EXCEPT ![worker[c]] = FALSE]
        /\ \A d \in Client \ {c} : Same(d)
    BY <1>0, <1>6 DEF StopListed
  <2>2. /\ worker[c] \in Worker /\ told[c] \subseteq Worker
        /\ idx[c] \in Nat /\ Len(workers) \in Nat
    BY <1>0
  <2>3. (\A w \in Worker : running'[w] => running[w]) /\ ~running'[worker[c]]
    BY <1>0, <2>1, <2>2
  <2>4. WalkInv(c) /\ Passed(c) = idx[c] - 1 /\ Passed(c)' = idx[c]
    BY <2>1 DEF IteratorInv, Passed
  <2>5. Cardinality(told'[c]) = idx[c]
    <3>1. IsFiniteSet(told[c])
      BY <2>2, WorkerFinite, FS_Subset
    <3>2. worker[c] \notin told[c] /\ Cardinality(told[c]) = idx[c] - 1
      BY <2>1, <2>4 DEF WalkInv
    <3>3. Cardinality(told[c] \cup {worker[c]}) = Cardinality(told[c]) + 1
      BY <3>1, <3>2, FS_AddElement
    <3> QED
      BY <2>1, <2>2, <3>2, <3>3
  <2>6. ASSUME seen'[c] = modCount'
        PROVE  told'[c] = {workers'[i] : i \in 1 .. idx[c]}
    <3>1. /\ told[c] = {workers[i] : i \in 1 .. (idx[c] - 1)}
          /\ worker[c] = workers[idx[c]] /\ idx[c] - 1 \in Nat
      BY <2>1, <2>4, <2>6 DEF WalkInv
    <3>2. 1 .. idx[c] = (1 .. (idx[c] - 1)) \cup {idx[c]}
      BY <2>2, <3>1
    <3> QED
      BY <2>1, <3>1, <3>2
  <2>7. WalkInv(c)'
    <3>1. \A w \in told'[c] : ~running'[w]
      BY <2>1, <2>2, <2>3, <2>4 DEF WalkInv
    <3>2. /\ seen'[c] <= modCount'
          /\ seen'[c] = modCount' => idx'[c] <= Len(workers')
      BY <2>1, <2>4 DEF WalkInv
    <3> QED
      BY <2>1, <2>2, <2>4, <2>5, <2>6, <3>1, <3>2 DEF WalkInv
  <2>8. Good(c)
    BY <2>1, <2>7 DEF Good
  <2> QED
    BY <1>2, <2>1, <2>3, <2>8
<1>7. CASE UNCHANGED <<workers, modCount, running, cpc, idx, seen, worker, told>>
  <2>1. Calm /\ \A d \in Client : Same(d)
    BY <1>7
  <2>2. \A d \in Client : Good(d)
    BY <1>1, <2>1
  <2> QED
    BY <2>2 DEF IteratorInv, Good
<1> HIDE DEF Same, Calm
<1> QED
  BY <1>3, <1>4, <1>5, <1>6, <1>7
  DEF Next, WorkerStep, ClientStep, StartCall, vars, Execute, CheckRunning,
      TakeJob, WaitForJob, LeaveInterrupted, SpuriousWakeup, RunJob

LEMMA InitWalk == Init => ListInv /\ IteratorInv
<1> SUFFICES ASSUME Init PROVE ListInv /\ IteratorInv
  OBVIOUS
<1>1. workerNumber \in 1 .. MaxWorkers
  BY ClampType, ArgTypes, SizeAssumption DEF Init
<1>2. workers = [i \in 1 .. workerNumber |-> i] /\ threadNumber = workerNumber
  BY DEF Init
<1>3. Len(workers) = workerNumber
  BY <1>1, <1>2, SizeAssumption
<1> QED
  BY <1>1, <1>2, <1>3 DEF Init, ListInv, IteratorInv, ToSet

\* A list has at most as many elements as places.
LEMMA ListSize ==
  ASSUME NEW S, NEW s \in Seq(S)
  PROVE  IsFiniteSet(ToSet(s)) /\ Cardinality(ToSet(s)) <= Len(s)
<1>1. Len(s) \in Nat /\ s \in Surjection(1 .. Len(s), ToSet(s))
  <2>1. Len(s) \in Nat /\ DOMAIN s = 1 .. Len(s) /\ s \in [1 .. Len(s) -> S]
    BY LenProperties
  <2>2. /\ \A i \in 1 .. Len(s) : s[i] \in ToSet(s)
        /\ \A x \in ToSet(s) : \E i \in 1 .. Len(s) : s[i] = x
    BY <2>1 DEF ToSet
  <2>3. s \in [1 .. Len(s) -> ToSet(s)]
    BY <2>1, <2>2
  <2> QED
    BY <2>1, <2>2, <2>3 DEF Surjection
<1>2. IsFiniteSet(1 .. Len(s)) /\ Cardinality(1 .. Len(s)) = Len(s)
  <2> DEFINE n == Len(s)
  <2>1. n \in Nat /\ 1 \in Int
    BY <1>1
  <2> HIDE DEF n
  <2>2. /\ IsFiniteSet(1 .. n)
        /\ Cardinality(1 .. n) = IF 1 > n THEN 0 ELSE n - 1 + 1
    BY <2>1, FS_Interval
  <2> QED
    BY <2>1, <2>2 DEF n
<1> QED
  BY <1>1, <1>2, FS_Surjection

\* A shutdown() that ends normally misses at most one worker for each one it
\* has stopped that was removed meanwhile, whatever other calls did to the
\* list: the cursor that has reached the end has told that many workers.
THEOREM PoolShutdownMissesFew == Spec => []ShutdownMissesFew
<1>1. Init => ListInv /\ IteratorInv
  BY InitWalk
<1>2. Typed /\ IteratorInv => ShutdownMissesFew
  <2> SUFFICES ASSUME Typed, IteratorInv, NEW c \in Client,
                      cpc[c] = "shutdown", idx[c] = Len(workers)
               PROVE  Cardinality({w \in ToSet(workers) : running[w]})
                        <= Cardinality(told[c] \ ToSet(workers))
    BY DEF ShutdownMissesFew
  <2> DEFINE listed == ToSet(workers)
             missed == {w \in listed : running[w]}
  <2>1. IsFiniteSet(listed) /\ Cardinality(listed) <= idx[c]
    BY ListSize DEF Typed, TypeOK
  <2>2. Cardinality(told[c]) = idx[c] /\ idx[c] \in Nat
    BY DEF IteratorInv, WalkInv, Passed
  <2>3. IsFiniteSet(told[c])
    <3>1. told[c] \subseteq Worker
      BY DEF Typed, TypeOK
    <3> QED
      BY <3>1, WorkerFinite, FS_Subset
  <2>4. missed \subseteq listed \ told[c]
    BY DEF IteratorInv, WalkInv
  <2> HIDE DEF listed, missed
  <2>5. /\ IsFiniteSet(listed \ told[c])
        /\ Cardinality(listed \ told[c])
             = Cardinality(listed) - Cardinality(listed \cap told[c])
    BY <2>1, FS_Difference
  <2>6. Cardinality(told[c] \ listed)
          = Cardinality(told[c]) - Cardinality(listed \cap told[c])
    <3>1. told[c] \cap listed = listed \cap told[c]
      OBVIOUS
    <3>2. Cardinality(told[c] \ listed)
            = Cardinality(told[c]) - Cardinality(told[c] \cap listed)
      BY <2>3, FS_Difference
    <3> QED
      BY <3>1, <3>2
  <2>7. Cardinality(missed) <= Cardinality(listed \ told[c])
    BY <2>4, <2>5, FS_Subset
  <2>8. /\ Cardinality(listed \cap told[c]) \in Nat /\ Cardinality(missed) \in Nat
        /\ Cardinality(listed) \in Nat
    <3>1. IsFiniteSet(listed \cap told[c]) /\ IsFiniteSet(missed)
      BY <2>1, <2>4, <2>5, FS_Subset, FS_Intersection
    <3> QED
      BY <2>1, <3>1, FS_CardinalityType
  <2>9. Cardinality(missed) <= Cardinality(told[c] \ listed)
    BY <2>1, <2>2, <2>5, <2>6, <2>7, <2>8
  <2> QED
    BY <2>9 DEF listed, missed
<1> QED
  BY InitTyped, StepTyped, StepList, StepIterator, <1>1, <1>2, PTL DEF Spec
-----------------------------------------------------------------------------
(* The limit on workers.                                                   *)

\* What the list and the counter are at each point of an addWorkers() or a
\* removeWorker() of client c.  A failed removal leaves the list shorter than
\* the counter says, never longer, so the clamp still leaves room.
ChangeInv(c) ==
  LET listed == Len(workers)
  IN  /\ cpc[c] = "clamp" => listed <= workerNumber /\ idx[c] = 0
      /\ cpc[c] \in {"spawn", "added"} =>
           /\ listed <= workerNumber + idx[c]
           /\ idx[c] <= num[c] /\ workerNumber + num[c] <= MaxWorkers
      /\ cpc[c] \in {"remove", "found", "stop", "removed"} =>
           /\ listed <= workerNumber - idx[c]
           /\ idx[c] < workerNumber /\ num[c] < workerNumber
      /\ cpc[c] = "found" => idx[c] < num[c]
      /\ cpc[c] \in {"added", "removed"} => seen[c] = workerNumber

\* As long as nobody has misused the pool, its changes come one at a time.
BoundInv == ~misused =>
  /\ 1 <= workerNumber /\ workerNumber <= MaxWorkers
  /\ \A c, d \in Changing : c = d
  /\ \A c \in Changing : ChangeInv(c)
  /\ Changing = {} => Len(workers) <= workerNumber

\* All there is to show when the others are not changing the pool.
LEMMA BoundByOne ==
  ASSUME NEW c \in Client,
         \A d \in Client \ {c} : d \notin Changing',
         1 <= workerNumber', workerNumber' <= MaxWorkers,
         c \in Changing' => ChangeInv(c)',
         c \notin Changing' => Len(workers') <= workerNumber'
  PROVE  BoundInv'
<1>1. Changing' \subseteq {c}
  BY DEF Changing
<1> HIDE DEF Changing
<1>2. CASE c \in Changing'
  BY <1>1, <1>2 DEF BoundInv
<1>3. CASE c \notin Changing'
  <2>1. Changing' = {}
    BY <1>1, <1>3
  <2> QED
    BY <2>1, <1>3 DEF BoundInv
<1> QED
  BY <1>2, <1>3

LEMMA StepBound ==
  Typed /\ IteratorInv /\ BoundInv /\ [Next]_vars => BoundInv'
<1> SUFFICES ASSUME Typed, IteratorInv, BoundInv, [Next]_vars, ~misused'
             PROVE  BoundInv'
  BY DEF BoundInv
<1> USE DEF jobVars, poolVars, workerVars, clientVars
<1>0. /\ Len(workers) \in Nat /\ workerNumber \in Int
      /\ MaxWorkers \in Nat /\ MaxInt \in Nat /\ MaxWorkers <= MaxInt
      /\ idx \in [Client -> Nat] /\ num \in [Client -> Int]
      /\ seen \in [Client -> Int] /\ cpc \in [Client -> ClientPc]
      /\ workers \in Seq(Worker)
  BY SizeAssumption DEF Typed, TypeOK
<1> DEFINE Others(c) == \A d \in Client \ {c} : cpc'[d] = cpc[d]
<1>1. ASSUME NEW c \in Client, NEW label \in {"clamp", "spawn", "remove"},
             NEW n, NEW value, Call(c, label, n, value), Changing = {}, ~misused
      PROVE  /\ \A d \in Client \ {c} : d \notin Changing'
             /\ 1 <= workerNumber /\ workerNumber <= MaxWorkers
             /\ Len(workers) <= workerNumber
             /\ cpc'[c] = label /\ num'[c] = n /\ idx'[c] = 0 /\ c \in Changing'
  <2>1. /\ cpc[c] = "idle" /\ cpc' = [cpc EXCEPT ![c] = label] /\ num'[c] = n
        /\ idx' = idx
    BY <1>0, <1>1 DEF Call
  <2>2. idx[c] = 0
    BY <2>1 DEF IteratorInv
  <2>3. \A d \in Client \ {c} : d \notin Changing'
    BY <1>0, <1>1, <2>1 DEF Changing
  <2> QED
    BY <1>0, <1>1, <2>1, <2>2, <2>3 DEF BoundInv, Changing
<1>2. ASSUME NEW c \in Client, c \in Changing, Others(c), misused' = misused
      PROVE  /\ \A d \in Client \ {c} : d \notin Changing'
             /\ 1 <= workerNumber /\ workerNumber <= MaxWorkers /\ ChangeInv(c)
             /\ idx[c] \in Nat /\ num[c] \in Int /\ seen[c] \in Int
  <2>1. \A d \in Client \ {c} : d \notin Changing
    BY <1>2 DEF BoundInv
  <2> QED
    BY <1>0, <1>2, <2>1 DEF BoundInv, Changing
<1>3. ASSUME NEW c \in Client, NEW n \in AddArgs, AddWorkers(c, n)
      PROVE  BoundInv'
  <2>1. /\ ~misused /\ Changing = {} /\ n \in Int
        /\ 0 <= n /\ n + workerNumber <= MaxInt
    <3>1. misused' = (misused \/ (n < 0 \/ n + workerNumber > MaxInt)
                             \/ Changing # {})
      BY <1>3 DEF AddWorkers, Record
    <3>2. /\ ~misused /\ Changing = {}
          /\ ~(n < 0) /\ ~(n + workerNumber > MaxInt)
      BY <3>1, Zenon
    <3>3. n \in Int
      BY ArgTypes
    <3> QED
      BY <1>0, <3>2, <3>3
  <2>2. PICK label \in {"clamp", "spawn"} :
          /\ Call(c, label, n, 0)
          /\ label = "spawn" => Wrap(n + workerNumber) <= MaxWorkers
    <3>1. Wrap(n + workerNumber) \in Int
      BY <1>0, <2>1, WrapType
    <3> QED
      BY <1>0, <1>3, <3>1 DEF AddWorkers
  <2>3. /\ \A d \in Client \ {c} : d \notin Changing'
        /\ 1 <= workerNumber /\ workerNumber <= MaxWorkers
        /\ Len(workers) <= workerNumber
        /\ cpc'[c] = label /\ num'[c] = n /\ idx'[c] = 0 /\ c \in Changing'
    BY <1>1, <2>1, <2>2
  <2>4. Wrap(n + workerNumber) = n + workerNumber
    BY <1>0, <2>1, <2>3, WrapType
  <2>5. workers' = workers /\ workerNumber' = workerNumber
    BY <1>3 DEF AddWorkers
  <2>6. ChangeInv(c)'
    BY <1>0, <2>1, <2>2, <2>3, <2>4, <2>5 DEF ChangeInv
  <2> QED
    BY <2>3, <2>5, <2>6, BoundByOne
<1>4. ASSUME NEW c \in Client, NEW n \in RemoveArgs, RemoveWorker(c, n)
      PROVE  BoundInv'
  <2>1. ~misused /\ Changing = {} /\ n \in Int /\ n < workerNumber
    BY <1>4, ArgTypes DEF RemoveWorker, Record
  <2>2. /\ \A d \in Client \ {c} : d \notin Changing'
        /\ 1 <= workerNumber /\ workerNumber <= MaxWorkers
        /\ Len(workers) <= workerNumber
        /\ cpc'[c] = "remove" /\ num'[c] = n /\ idx'[c] = 0 /\ c \in Changing'
    BY <1>1, <1>4, <2>1 DEF RemoveWorker
  <2>3. workers' = workers /\ workerNumber' = workerNumber
    BY <1>4 DEF RemoveWorker
  <2>4. ChangeInv(c)'
    BY <1>0, <2>1, <2>2, <2>3 DEF ChangeInv
  <2> QED
    BY <2>2, <2>3, <2>4, BoundByOne
<1>5. ASSUME NEW c \in Client,
             \/ ClampNum(c) \/ SpawnWorker(c) \/ ReadForAdd(c) \/ RemoveGet(c)
             \/ RemoveOne(c) \/ StopRemoved(c) \/ ReadForRemoval(c)
      PROVE  BoundInv'
  <2>1. /\ c \in Changing /\ Others(c) /\ misused' = misused
        /\ workerNumber' = workerNumber /\ c \in Changing'
    <3>1. CASE ClampNum(c) \/ SpawnWorker(c) \/ ReadForAdd(c)
      BY <1>0, <3>1 DEF ClampNum, SpawnWorker, ReadForAdd, Changing
    <3>2. CASE RemoveGet(c) \/ RemoveOne(c) \/ StopRemoved(c) \/ ReadForRemoval(c)
      BY <1>0, <3>2 DEF RemoveGet, RemoveOne, StopRemoved, ReadForRemoval, Changing
    <3> QED
      BY <1>5, <3>1, <3>2
  <2>2. /\ \A d \in Client \ {c} : d \notin Changing'
        /\ 1 <= workerNumber /\ workerNumber <= MaxWorkers /\ ChangeInv(c)
        /\ idx[c] \in Nat /\ num[c] \in Int /\ seen[c] \in Int
    BY <1>2, <2>1
  <2>3. ChangeInv(c)'
    <3>1. CASE ClampNum(c)
      <4>1. Wrap(MaxWorkers - workerNumber) = MaxWorkers - workerNumber
        BY <1>0, <2>2, WrapType
      <4> QED
        BY <1>0, <2>2, <3>1, <4>1 DEF ClampNum, ChangeInv
    <3>2. CASE SpawnWorker(c)
      <4>1. Len(workers') = Len(workers) + 1
        BY <1>0, <3>2 DEF SpawnWorker
      <4> QED
        BY SMTT(30), <1>0, <2>2, <3>2, <4>1 DEF SpawnWorker, ChangeInv
    <3>3. CASE ReadForAdd(c)
      BY <1>0, <2>2, <3>3 DEF ReadForAdd, ChangeInv
    <3>4. CASE RemoveGet(c)
      BY <1>0, <2>2, <3>4 DEF RemoveGet, ChangeInv
    <3>5. CASE RemoveOne(c)
      <4>1. PICK i \in 1 .. Len(workers) : workers' = RemoveAt(workers, i)
        BY <3>5 DEF RemoveOne
      <4>2. Len(workers') = Len(workers) - 1
        BY <1>0, <4>1, RemoveAtList
      <4>3. /\ cpc[c] = "found" /\ cpc'[c] = "stop" /\ idx'[c] = idx[c] + 1
            /\ num'[c] = num[c] /\ workerNumber' = workerNumber
        BY <1>0, <3>5 DEF RemoveOne
      <4> QED
        BY SMTT(30), <1>0, <2>2, <4>2, <4>3 DEF ChangeInv
    <3>6. CASE StopRemoved(c)
      BY <1>0, <2>2, <3>6 DEF StopRemoved, ChangeInv
    <3>7. CASE ReadForRemoval(c)
      BY <1>0, <2>2, <3>7 DEF ReadForRemoval, ChangeInv
    <3> QED
      BY <1>5, <3>1, <3>2, <3>3, <3>4, <3>5, <3>6, <3>7
  <2> QED
    BY <2>1, <2>2, <2>3, BoundByOne
<1>6. ASSUME NEW c \in Client, StoreAdded(c) \/ RemoveFails(c) \/ StoreRemoved(c)
      PROVE  BoundInv'
  <2>1. /\ c \in Changing /\ Others(c) /\ misused' = misused
        /\ workers' = workers /\ c \notin Changing'
    <3>1. Return(c) /\ workers' = workers /\ cpc[c] \in {"added", "remove", "removed"}
      BY <1>6 DEF StoreAdded, RemoveFails, StoreRemoved
    <3>2. cpc'[c] = "idle" /\ Others(c) /\ misused' = misused
      BY <1>0, <3>1 DEF Return
    <3> QED
      BY <3>1, <3>2 DEF Changing
  <2>2. /\ \A d \in Client \ {c} : d \notin Changing'
        /\ 1 <= workerNumber /\ workerNumber <= MaxWorkers /\ ChangeInv(c)
        /\ idx[c] \in Nat /\ num[c] \in Int /\ seen[c] \in Int
    BY <1>2, <2>1
  <2>3. /\ 1 <= workerNumber' /\ workerNumber' <= MaxWorkers
        /\ Len(workers) <= workerNumber'
    <3>1. CASE StoreAdded(c)
      <4>1. /\ Len(workers) <= workerNumber + idx[c] /\ idx[c] <= num[c]
            /\ workerNumber + num[c] <= MaxWorkers /\ seen[c] = workerNumber
        BY <2>2, <3>1 DEF StoreAdded, ChangeInv
      <4>2. Wrap(seen[c] + num[c]) = workerNumber + num[c]
        BY <1>0, <2>2, <4>1, WrapType
      <4> QED
        BY <1>0, <2>2, <3>1, <4>1, <4>2 DEF StoreAdded
    <3>2. CASE RemoveFails(c)
      BY <1>0, <2>2, <3>2 DEF RemoveFails, ChangeInv
    <3>3. CASE StoreRemoved(c)
      <4>1. /\ Len(workers) <= workerNumber - idx[c] /\ idx[c] < workerNumber
            /\ seen[c] = workerNumber
        BY <2>2, <3>3 DEF StoreRemoved, ChangeInv
      <4>2. Wrap(seen[c] - idx[c]) = workerNumber - idx[c]
        BY <1>0, <2>2, <4>1, WrapType
      <4> QED
        BY <1>0, <2>2, <3>3, <4>1, <4>2 DEF StoreRemoved
    <3> QED
      BY <1>6, <3>1, <3>2, <3>3
  <2> QED
    BY <2>1, <2>2, <2>3, BoundByOne
<1>7. ASSUME NEW c \in Client,
             \/ Shutdown(c) \/ ShutdownNext(c) \/ StopListed(c) \/ ShutdownEnds(c)
      PROVE  BoundInv'
  <2>1. UNCHANGED <<workers, workerNumber, misused>>
    BY <1>7 DEF Shutdown, ShutdownNext, StopListed, ShutdownEnds, Return
  <2>2. /\ c \notin Changing /\ c \notin Changing'
        /\ \A d \in Client \ {c} :
             /\ cpc'[d] = cpc[d] /\ idx'[d] = idx[d]
             /\ num'[d] = num[d] /\ seen'[d] = seen[d]
    BY <1>0, <1>7 DEF Shutdown, ShutdownNext, StopListed, ShutdownEnds, Call,
       Return, Changing
  <2>3. Changing' = Changing
    BY <2>2 DEF Changing
  <2>4. \A d \in Changing : ChangeInv(d) => ChangeInv(d)'
    <3> SUFFICES ASSUME NEW d \in Changing, ChangeInv(d) PROVE ChangeInv(d)'
      OBVIOUS
    <3>1. d \in Client \ {c}
      BY <2>2 DEF Changing
    <3> QED
      BY <2>1, <2>2, <3>1 DEF ChangeInv
  <2> QED
    BY <2>1, <2>3, <2>4 DEF BoundInv
<1>8. CASE UNCHANGED <<workers, workerNumber, cpc, num, idx, seen, misused>>
  BY <1>8 DEF BoundInv, ChangeInv, Changing
<1> QED
  BY <1>3, <1>4, <1>5, <1>6, <1>7, <1>8
  DEF Next, WorkerStep, ClientStep, StartCall, vars, Execute, CheckRunning,
      TakeJob, WaitForJob, LeaveInterrupted, SpuriousWakeup, RunJob

\* The list of workers stays within MAX_WORKER_NUMBERS for any number of
\* administrators, whatever they add, remove or fail to remove, until two
\* changes overlap or addWorkers() gets a number it cannot add: then the
\* check is stale, or there is none.
THEOREM PoolStaysBounded == Spec => []PoolBounded
<1>1. Init => BoundInv
  <2> SUFFICES ASSUME Init PROVE BoundInv
    OBVIOUS
  <2>1. workerNumber \in 1 .. MaxWorkers
    BY ClampType, ArgTypes, SizeAssumption DEF Init
  <2>2. Len(workers) = workerNumber
    BY <2>1 DEF Init
  <2>3. Changing = {}
    BY DEF Init, Changing
  <2> QED
    BY <2>1, <2>2, <2>3, SizeAssumption DEF BoundInv
<1>2. Typed /\ BoundInv => PoolBounded
  <2> SUFFICES ASSUME Typed, BoundInv, ~misused
               PROVE  Len(workers) <= MaxWorkers
    BY DEF PoolBounded, BoundInv
  <2>1. workerNumber \in Int /\ Len(workers) \in Nat /\ MaxWorkers \in Nat
    BY SizeAssumption DEF Typed, TypeOK
  <2>2. CASE Changing = {}
    BY <2>1, <2>2 DEF BoundInv
  <2>3. ASSUME NEW c \in Changing PROVE Len(workers) <= MaxWorkers
    <3>1. /\ cpc[c] \in ClientPc /\ idx[c] \in Nat /\ num[c] \in Int
          /\ cpc[c] \notin {"idle", "shutdown", "stopping"}
      BY <2>3 DEF Typed, TypeOK, Changing
    <3>2. ChangeInv(c) /\ workerNumber <= MaxWorkers
      BY <2>3 DEF BoundInv
    <3> QED
      BY SMTT(30), <2>1, <3>1, <3>2 DEF ChangeInv, ClientPc
  <2> QED
    BY <2>2, <2>3
<1>3. Init => ListInv /\ IteratorInv
  BY InitWalk
<1> QED
  BY InitTyped, StepTyped, StepList, StepIterator, StepBound, <1>1, <1>2, <1>3,
     PTL DEF Spec
=============================================================================
