------------------------------- MODULE Gantt --------------------------------
(***************************************************************************)
(* js/mermaid.core.js 6073-6420: the tasks of a gantt diagram.  A task     *)
(* starts on a date, at the end of the task before it, or after a task it  *)
(* names by its id, which may come later: getTasks() passes over all tasks *)
(* until each has its times, or it has passed over them too often.         *)
(*                                                                         *)
(* Times are days, and there is one date; a time of 0 stands for           *)
(* undefined.  Positions count from 1, as those of a sequence.             *)
(***************************************************************************)
EXTENDS Naturals, Sequences, SequencesExt

CONSTANTS
  Id,        \* ids that are written in the diagrams
  AutoId,    \* the sequence of ids parseId() makes: "task1", "task2", ...
  MaxDepth,  \* how often getTasks() repeats compileTasks(): 10
  MaxTasks,  \* bound on the tasks of a diagram
  MaxDrawn   \* bound on the diagrams

ASSUME GanttAssumption == AutoId \in Seq(STRING) /\ MaxDepth \in Nat

VARIABLES
  rawTasks,  \* the tasks, in the order they were added
  taskDb,    \* id -> position, 0 where there is none; clear() does not reset it
  taskCnt,   \* how many ids parseId() has made
  stage,     \* "parsing", "compiling", "compiled", or "threw"
  passes,    \* how many passes getTasks() has made
  drawn      \* diagrams before this one

ganttVars == <<rawTasks, taskDb, taskCnt, stage, passes, drawn>>

Undefined == 0
Day == 1     \* a date that is written in a diagram
Today == 5
Length == 1  \* of a task that is given one

NoId == "undefined"  \* where taskDb keeps a task that has no id

GanttInit ==
  /\ rawTasks = << >> /\ taskCnt = 0
  /\ taskDb = [id \in Id \cup ToSet(AutoId) \cup {NoId} |-> 0]
  /\ stage = "parsing" /\ passes = 0 /\ drawn = 0

\* addTask(): parseData(), and the entry in taskDb.
AddTask(id, start, end) ==
  /\ stage = "parsing" /\ Len(rawTasks) < MaxTasks
  /\ rawTasks' = Append(rawTasks,
       [id |-> id, raw |-> start, end |-> end, startTime |-> Undefined,
        endTime |-> Undefined, processed |-> FALSE])
  /\ taskDb' = [taskDb EXCEPT ![id] = Len(rawTasks) + 1]
  /\ UNCHANGED <<stage, passes, drawn>>

\* What parseData() reads: a start that is written, and a date to end on or a
\* length.
Written == {[type |-> "date"]} \cup [type : {"after"}, id : Id]
End == {"date", "length"}

\* A task without an id gets one from parseId(); one that is only given its end
\* starts at the end of the task before it.
AddAnonymous ==
  \E start \in Written \cup {[type |-> "prevTaskEnd"]}, end \in End :
    /\ taskCnt < Len(AutoId) /\ taskCnt' = taskCnt + 1
    /\ AddTask(AutoId[taskCnt + 1], start, end)

AddNamed ==
  \E id \in Id, start \in Written, end \in End :
    AddTask(id, start, end) /\ UNCHANGED taskCnt

\* More than three fields: parseData() returns neither an id nor a start.
AddUnread == AddTask(NoId, [type |-> "none"], "length") /\ UNCHANGED taskCnt

\* findTaskById(): the position of a task, 0 if there is none.
Position(id, tasks) == IF taskDb[id] <= Len(tasks) THEN taskDb[id] ELSE 0

\* task.prevTaskId: the id of the task before.
PrevTaskId(i, tasks) == IF i = 1 THEN NoId ELSE tasks[i - 1].id

\* Fault: a task that is named is only looked for among those before this one.
StartAtOnce(task, i, tasks) ==
  CASE task.raw.type = "date" -> Day
    [] task.raw.type = "prevTaskEnd" ->
         tasks[Position(PrevTaskId(i, tasks), tasks)].endTime
    [] task.raw.type = "after" ->
         LET r == Position(task.raw.id, tasks)
         IN  IF r = 0 \/ r > i THEN Today ELSE tasks[r].endTime

\* The start of the i-th task, if it can be told by now.  What is after a task
\* that does not exist starts today.
StartTime(task, i, tasks) ==
  CASE task.raw.type = "date" -> Day
    [] task.raw.type = "prevTaskEnd" ->
         tasks[Position(PrevTaskId(i, tasks), tasks)].endTime
    [] task.raw.type = "after" ->
         LET r == Position(task.raw.id, tasks)
         IN  IF r = 0 THEN Today ELSE tasks[r].endTime

\* getEndDate(): a date, whatever the start is, or the start and the length.
EndTime(task, start) == IF task.end = "date" THEN Day ELSE start + Length

\* compileTask(): an undefined start leaves the task unprocessed.
CompileTask(i, tasks) ==
  LET start == StartTime(tasks[i], i, tasks)
  IN  IF start = Undefined THEN tasks
      ELSE [tasks EXCEPT ![i].startTime = start,
                         ![i].endTime = EndTime(tasks[i], start),
                         ![i].processed = TRUE]

\* compileTasks(), up to the n-th task: one after the other, each with what the
\* tasks before it have got in the same pass.
CompileTasks(n) ==
  LET upTo[i \in 0 .. n] == IF i = 0 THEN rawTasks ELSE CompileTask(i, upTo[i - 1])
  IN  upTo[n]

\* compileTask() throws: the task has no start to read, or there is no task
\* before it, unless taskDb leads somewhere since an earlier diagram.
CompileThrows(i) ==
  \/ rawTasks[i].raw.type = "none"
  \/ /\ rawTasks[i].raw.type = "prevTaskEnd"
     /\ Position(PrevTaskId(i, rawTasks), rawTasks) = 0

\* A pass of getTasks().
Pass ==
  /\ stage \in {"parsing", "compiling"}
  /\ \/ \E i \in DOMAIN rawTasks :
          /\ CompileThrows(i) /\ \A j \in 1 .. i - 1 : ~CompileThrows(j)
          /\ rawTasks' = CompileTasks(i - 1)
          /\ stage' = "threw" /\ UNCHANGED passes
     \/ /\ \A i \in DOMAIN rawTasks : ~CompileThrows(i)
        /\ rawTasks' = CompileTasks(Len(rawTasks))
        /\ passes' = passes + 1
        /\ stage' = IF passes = MaxDepth \/ \A i \in DOMAIN rawTasks : rawTasks'[i].processed
                    THEN "compiled" ELSE "compiling"
  /\ UNCHANGED <<taskDb, taskCnt, drawn>>

\* draw() of the next diagram begins with clear().  A diagram that is not
\* drawn to its end, after a parse error, is followed by the next one as well.
Clear ==
  /\ stage # "compiling" /\ drawn < MaxDrawn
  /\ rawTasks' = << >> /\ taskCnt' = 0
  /\ stage' = "parsing" /\ passes' = 0 /\ drawn' = drawn + 1
  /\ UNCHANGED taskDb

GanttNext == AddAnonymous \/ AddNamed \/ AddUnread \/ Pass \/ Clear

GanttSpec == GanttInit /\ [][GanttNext]_ganttVars

-----------------------------------------------------------------------------
Positions == DOMAIN rawTasks

\* The tasks of this diagram that carry the id, in its text or made up.
Carriers(id) == {i \in Positions : rawTasks[i].id = id}

\* The task a task waits for by the text of the diagram: the last one with the
\* id, 0 if it waits for none.  An id nobody carries may still be known from an
\* earlier diagram, and is then taken for whatever task has that position.
Awaited(i) ==
  LET id == CASE rawTasks[i].raw.type = "after" -> {rawTasks[i].raw.id}
              [] rawTasks[i].raw.type = "prevTaskEnd" -> {PrevTaskId(i, rawTasks)}
              [] OTHER -> {}
      carriers == UNION {Carriers(x) : x \in id}
      stale == {taskDb[x] : x \in id} \cap Positions
  IN  IF carriers # {} THEN CHOOSE c \in carriers : \A d \in carriers : d <= c
      ELSE IF drawn > 0 /\ stale # {} THEN CHOOSE c \in stale : TRUE ELSE 0

\* Where one comes to from i by going on to what is waited for, 0 for none, and
\* how many passes it takes: one more for each task that comes after the one
\* that waits for it.  As many steps as there are tasks are enough.
Walk(i) ==
  LET walk[k \in 0 .. Len(rawTasks)] ==
        IF k = 0 THEN [at |-> i, needs |-> 1]
        ELSE LET w == walk[k - 1]
             IN  IF w.at = 0 THEN w
                 ELSE [at |-> Awaited(w.at),
                       needs |-> IF Awaited(w.at) > w.at THEN w.needs + 1 ELSE w.needs]
  IN  walk[Len(rawTasks)]

\* When all passes are made a task has its times exactly if what it waits for
\* does not come back to it, and goes to later tasks no more often than
\* MaxDepth; it then starts at the end of the task it waits for, today if that
\* is named and does not exist, and ends on its date or a length after it starts.
ScheduleRight ==
  stage = "compiled" =>
    \A i \in Positions :
      LET t == rawTasks[i]
          a == Awaited(i)
      IN  /\ t.processed <=> Walk(i).at = 0 /\ Walk(i).needs <= MaxDepth + 1
          /\ t.processed =>
               /\ t.startTime = IF t.raw.type = "date" THEN Day
                                ELSE IF a = 0 THEN Today ELSE rawTasks[a].endTime
               /\ t.endTime = EndTime(t, t.startTime)
=============================================================================
