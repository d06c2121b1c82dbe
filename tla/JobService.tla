----------------------------- MODULE JobService -----------------------------
(***************************************************************************)
(* What DefaultThreadPool promises the threads that call execute(): a job  *)
(* that was accepted is pending until some worker starts it, jobs are      *)
(* started in the order in which they were accepted, and no job is started *)
(* twice.  Nothing is promised about when a job starts, or about the order *)
(* in which started jobs end.                                              *)
(***************************************************************************)
EXTENDS Sequences, SequencesExt

CONSTANT Job

VARIABLES
  pending,   \* accepted jobs no worker has started, oldest first
  active,    \* jobs some worker is running
  finished   \* jobs whose run() has ended, normally or with an exception

vars == <<pending, active, finished>>

Init ==
  /\ pending = << >>
  /\ active = {}
  /\ finished = {}

Submit(j) ==
  /\ j \notin ToSet(pending) \cup active \cup finished
  /\ pending' = Append(pending, j)
  /\ UNCHANGED <<active, finished>>

Start ==
  /\ pending # << >>
  /\ Head(pending) \notin active \cup finished
  /\ active' = active \cup {Head(pending)}
  /\ pending' = Tail(pending)
  /\ UNCHANGED finished

Finish(j) ==
  /\ j \in active
  /\ active' = active \ {j}
  /\ finished' = finished \cup {j}
  /\ UNCHANGED pending

Next ==
  \/ \E j \in Job : Submit(j) \/ Finish(j)
  \/ Start

Spec == Init /\ [][Next]_vars
=============================================================================
