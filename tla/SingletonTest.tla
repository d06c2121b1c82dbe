--------------------------- MODULE SingletonTest ----------------------------
(***************************************************************************)
(* demo/singleton: the threads of SingletonTest.runWithRunnable() ask      *)
(* SingletonByVolatile, by its double-checked locking, for the instance,   *)
(* put it into a set and count a latch down; main prints the set's size.   *)
(***************************************************************************)
EXTENDS Naturals, FiniteSets

CONSTANT Loop  \* the threads main starts

VARIABLES
  field,      \* INSTANCE, the volatile field; 0 is null, n the n-th object made
  made,       \* how many constructors have been run
  monitor,    \* the threads inside the synchronized block
  at,         \* where each thread is
  got,        \* what getInstance() has returned to each
  list,       \* the ConcurrentSkipListSet; instances are ordered by compareTo()
  printed     \* the size main has printed, 0 before

singletonVars == <<field, made, monitor, at, got, list, printed>>

SingletonInit ==
  /\ field = 0 /\ made = 0
  /\ monitor = {}
  /\ at = [t \in Loop |-> "checking"]
  /\ got = [t \in Loop |-> 0]
  /\ list = {}
  /\ printed = 0

Move(t, from, to) == at[t] = from /\ at' = [at EXCEPT ![t] = to]

\* The first check, without the monitor.
Check(t) ==
  /\ Move(t, "checking", IF field = 0 THEN "locking" ELSE "reading")
  /\ UNCHANGED <<field, made, monitor, got, list, printed>>

\* Fault: the second check is left out.
LockUnchecked(t) ==
  /\ monitor = {} /\ monitor' = {t}
  /\ Move(t, "locking", "making")
  /\ UNCHANGED <<field, made, got, list, printed>>

\* synchronized, and the second check inside.
Lock(t) ==
  /\ monitor = {} /\ monitor' = {t}
  /\ Move(t, "locking", IF field = 0 THEN "making" ELSE "leaving")
  /\ UNCHANGED <<field, made, got, list, printed>>

\* The constructor takes its time ...
Make(t) ==
  /\ Move(t, "making", "writing")
  /\ made' = made + 1
  /\ got' = [got EXCEPT ![t] = made + 1]
  /\ UNCHANGED <<field, monitor, list, printed>>

\* ... before the field is written.
Write(t) ==
  /\ Move(t, "writing", "leaving")
  /\ field' = got[t]
  /\ UNCHANGED <<made, monitor, got, list, printed>>

Leave(t) ==
  /\ Move(t, "leaving", "reading")
  /\ monitor' = {}
  /\ UNCHANGED <<field, made, got, list, printed>>

\* The field is read again to be returned.
Return(t) ==
  /\ Move(t, "reading", "adding")
  /\ got' = [got EXCEPT ![t] = field]
  /\ UNCHANGED <<field, made, monitor, list, printed>>

Add(t) ==
  /\ Move(t, "adding", "added")
  /\ list' = list \cup {got[t]}
  /\ UNCHANGED <<field, made, monitor, got, printed>>

CountThreadDown(t) ==
  /\ Move(t, "added", "counted")
  /\ UNCHANGED <<field, made, monitor, got, list, printed>>

\* main awaits the latch.
PrintSize ==
  /\ printed = 0 /\ \A t \in Loop : at[t] = "counted"
  /\ printed' = Cardinality(list)
  /\ UNCHANGED <<field, made, monitor, at, got, list>>

SingletonNext ==
  \/ PrintSize
  \/ \E t \in Loop :
       \/ Check(t) \/ Lock(t) \/ Make(t) \/ Write(t) \/ Leave(t)
       \/ Return(t) \/ Add(t) \/ CountThreadDown(t)

SingletonSpec == SingletonInit /\ [][SingletonNext]_singletonVars

-----------------------------------------------------------------------------
\* The constructor is run once, nobody is given null or an object that another
\* one replaces, and main prints 1.
OneInstance ==
  /\ made <= 1 /\ printed <= 1
  /\ \A t \in Loop : at[t] \in {"adding", "added", "counted"} => got[t] = 1
=============================================================================
