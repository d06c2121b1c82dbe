----------------------------- MODULE MCPrograms -----------------------------
(***************************************************************************)
(* The small programs of fifth_chapter and demo, each by itself: a         *)
(* behaviour is one of Mutex, PaymentDemo, SingletonTest or AVLDemo, and   *)
(* the variables of the others stay as they are in the beginning.          *)
(***************************************************************************)
EXTENDS Mutex, PaymentDemo, SingletonTest, AVLDemo

VARIABLE program  \* which of the programs this behaviour is of

\* No type, one type twice, and every list of different types.
SomeLists ==
  {<< >>} \cup {<<p, p>> : p \in Payment} \cup
  {s \in UNION {[1 .. n -> Payment] : n \in 1 .. Cardinality(Payment)} : IsInjective(s)}

vars == <<program, mutexVars, payVars, singletonVars, avlVars>>

Init ==
  /\ program \in {"mutex", "pay", "singleton", "avl"}
  /\ MutexInit /\ SingletonInit /\ AvlInit
  /\ PayInit
  /\ program # "pay" => paymentTypes = << >> /\ service = [p \in Payment |-> "throws"]

Run(name, action, others) == program = name /\ action /\ UNCHANGED <<program, others>>

Next ==
  \/ Run("mutex", MutexNext, <<payVars, singletonVars, avlVars>>)
  \/ Run("pay", PayNext, <<mutexVars, singletonVars, avlVars>>)
  \/ Run("singleton", SingletonNext, <<mutexVars, payVars, avlVars>>)
  \/ Run("avl", AvlNext, <<mutexVars, payVars, singletonVars>>)

\* Threads that are inside a method of the mutex run on.
Spec ==
  Init /\ [][Next]_vars /\ \A t \in Thread : WF_mutexVars(Proceed(t))
=============================================================================
