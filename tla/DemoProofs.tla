----------------------------- MODULE DemoProofs -----------------------------
(***************************************************************************)
(* Proofs about four small programs: what the caller of getPaymentInfos()  *)
(* reads, for any payment types and list of them; that the double-checked  *)
(* locking makes one object; that Mutex excludes threads from each other,  *)
(* whatever they call, until one unlocks what it does not hold; and that   *)
(* the search tree stays ordered and balanced.                             *)
(***************************************************************************)
EXTENDS PaymentDemo, SingletonTest, Mutex, AVLDemo, ListLemmas, FiniteSetTheorems, TLAPS

-----------------------------------------------------------------------------
(* The payment consultation.                                               *)

Answer == {Timeout, Absent, "enabled", "disabled", "throws"}

PayTypes ==
  /\ paymentTypes \in Seq(Payment)
  /\ service \in [Payment -> {"enabled", "disabled", "throws"}]
  /\ task \in [Payment -> {"none", "running", "put", "counted", "failed"}]
  /\ result \in [Payment -> Answer]
  /\ caller \in {"called", "threw", "submitting", "awaiting", "answered", "timed out"}
  /\ timely \subseteq Payment
  /\ read \in [Payment -> Answer]

\* The call has prepared its map and its latch.
Prepared == caller \notin {"called", "threw"}

\* The types that have not been counted down.
Uncounted == {p \in ToSet(paymentTypes) : task[p] # "counted"}

\* The latch counts them; a task that has come so far has put its answer.
TasksRight ==
  /\ ~Prepared => \A p \in Payment : task[p] = "none"
  /\ Prepared => /\ latch = Cardinality(Uncounted)
                 /\ \A p \in ToSet(paymentTypes) : result[p] \in {Timeout, service[p]}
  /\ \A p \in Payment :
       /\ task[p] # "none" => p \in ToSet(paymentTypes)
       /\ task[p] \in {"put", "counted"} => service[p] # "throws" /\ result[p] = service[p]

\* What was counted stays so, and the caller has read no other answer.
ReadsRight ==
  /\ \A p \in timely : task[p] = "counted"
  /\ caller = "answered" => ToSet(paymentTypes) \subseteq timely
  /\ caller \notin {"answered", "timed out"} => \A p \in Payment : read[p] = Absent
  /\ \A p \in Payment : read[p] # Absent =>
       /\ p \in ToSet(paymentTypes)
       /\ read[p] \in {Timeout, service[p]}
       /\ p \in timely => read[p] = service[p]

PayInv == PayTypes /\ TasksRight /\ ReadsRight

\* The types of a list are a finite set, and if the list does not repeat any it
\* has as many entries.
LEMMA TypesOfList ==
  ASSUME NEW s \in Seq(Payment)
  PROVE  /\ ToSet(s) \subseteq Payment
         /\ IsFiniteSet(ToSet(s))
         /\ IsInjective(s) => Cardinality(ToSet(s)) = Len(s)
<1>1. Len(s) \in Nat /\ DOMAIN s = 1 .. Len(s) /\ s \in [1 .. Len(s) -> Payment]
  BY LenProperties
<1>2. IsFiniteSet(1 .. Len(s)) /\ Cardinality(1 .. Len(s)) = Len(s)
  BY <1>1, FS_Interval
<1>3. s \in Surjection(1 .. Len(s), ToSet(s))
  BY <1>1 DEF Surjection, ToSet
<1>4. IsFiniteSet(ToSet(s))
  BY <1>2, <1>3, FS_Surjection
<1>5. ASSUME IsInjective(s)  PROVE Cardinality(ToSet(s)) = Len(s)
  <2>1. s \in Injection(1 .. Len(s), ToSet(s))
    BY <1>1, <1>3, <1>5 DEF Surjection, Injection, IsInjective
  <2> QED
    BY <1>2, <1>3, <2>1, FS_Surjection
<1> QED
  BY <1>1, <1>4, <1>5 DEF ToSet

LEMMA PayInvInit == PayInit => PayInv
<1> SUFFICES ASSUME PayInit PROVE PayInv
  OBVIOUS
<1>1. PayTypes
  BY ListsAssumption DEF PayInit, PayTypes, Answer
<1>2. TasksRight
  BY DEF PayInit, TasksRight, Prepared
<1>3. ReadsRight
  BY DEF PayInit, ReadsRight
<1> QED
  BY <1>1, <1>2, <1>3 DEF PayInv

\* A step that counts no task down leaves the latch right if it leaves it alone.
LEMMA SameUncounted ==
  ASSUME PayTypes, paymentTypes' = paymentTypes,
         \A p \in Payment : task'[p] = "counted" <=> task[p] = "counted"
  PROVE  Uncounted' = Uncounted
<1>1. ToSet(paymentTypes) \subseteq Payment /\ ToSet(paymentTypes') = ToSet(paymentTypes)
  BY TypesOfList DEF PayTypes
<1> QED
  BY <1>1 DEF Uncounted

\* Each step of getPaymentInfos(), of its tasks and of its caller.
LEMMA PayInvStep == PayInv /\ [PayNext]_payVars => PayInv'
<1> SUFFICES ASSUME PayInv, [PayNext]_payVars PROVE PayInv'
  OBVIOUS
<1> USE DEF PayInv
<1>0. ToSet(paymentTypes) \subseteq Payment /\ IsFiniteSet(ToSet(paymentTypes))
  BY TypesOfList DEF PayTypes
<1>1. CASE Prepare
  <2>1. CASE paymentTypes = << >> \/ ~IsInjective(paymentTypes)
    <3>1. caller' = "threw" /\ UNCHANGED <<paymentTypes, service, task, result, timely, read>>
      BY <1>1, <2>1 DEF Prepare
    <3>2. ~Prepared' /\ ~Prepared
      BY <1>1, <3>1 DEF Prepare, Prepared
    <3> QED
      BY <3>1, <3>2, <1>1 DEF Prepare, PayTypes, TasksRight, ReadsRight
  <2>2. CASE ~(paymentTypes = << >> \/ ~IsInjective(paymentTypes))
    <3>1. /\ caller = "called" /\ caller' = "submitting"
          /\ result' = [p \in Payment |-> IF p \in ToSet(paymentTypes) THEN Timeout ELSE Absent]
          /\ latch' = Len(paymentTypes)
          /\ UNCHANGED <<paymentTypes, service, task, timely, read>>
      BY <1>1, <2>2 DEF Prepare
    <3>2. PayTypes'
      BY <3>1 DEF PayTypes, Answer
    <3>3. \A p \in Payment : task[p] = "none"
      BY <3>1 DEF TasksRight, Prepared
    <3>4. Uncounted' = ToSet(paymentTypes)
      BY <1>0, <3>1, <3>3 DEF Uncounted
    <3>5. latch' = Cardinality(Uncounted')
      BY <2>2, <3>1, <3>4, TypesOfList DEF PayTypes
    <3>6. TasksRight'
      BY <1>0, <3>1, <3>3, <3>5 DEF TasksRight, Prepared
    <3>7. ReadsRight'
      BY <3>1 DEF ReadsRight
    <3> QED
      BY <3>2, <3>6, <3>7
  <2> QED
    BY <2>1, <2>2
<1>2. ASSUME NEW p \in Payment, Submit(p)  PROVE PayInv'
  <2>1. PayTypes'
    BY <1>2 DEF Submit, PayTypes
  <2>2. Uncounted' = Uncounted
    BY <1>2, SameUncounted DEF Submit, PayTypes
  <2>3. TasksRight'
    BY <1>2, <2>2 DEF Submit, PayTypes, TasksRight, Prepared
  <2>4. ReadsRight'
    BY <1>2 DEF Submit, PayTypes, ReadsRight
  <2> QED
    BY <2>1, <2>3, <2>4
<1>3. CASE Submitted
  <2>1. PayTypes'
    BY <1>3 DEF Submitted, PayTypes
  <2>2. Uncounted' = Uncounted
    BY <1>3, SameUncounted DEF Submitted
  <2>3. TasksRight'
    BY <1>3, <2>2 DEF Submitted, TasksRight, Prepared
  <2>4. ReadsRight'
    BY <1>3 DEF Submitted, ReadsRight
  <2> QED
    BY <2>1, <2>3, <2>4
<1>4. ASSUME NEW p \in Payment, ServiceThrows(p)  PROVE PayInv'
  <2>1. PayTypes'
    BY <1>4 DEF ServiceThrows, PayTypes
  <2>2. Uncounted' = Uncounted
    BY <1>4, SameUncounted DEF ServiceThrows, PayTypes
  <2>3. TasksRight'
    BY <1>4, <2>2 DEF ServiceThrows, PayTypes, TasksRight, Prepared
  <2>4. ReadsRight'
    BY <1>4 DEF ServiceThrows, PayTypes, ReadsRight
  <2> QED
    BY <2>1, <2>3, <2>4
<1>5. ASSUME NEW p \in Payment, Put(p)  PROVE PayInv'
  <2>1. PayTypes'
    BY <1>5 DEF Put, PayTypes, Answer
  <2>2. Uncounted' = Uncounted
    BY <1>5, SameUncounted DEF Put, PayTypes
  <2>3. /\ \A q \in Payment \ {p} : task'[q] = task[q] /\ result'[q] = result[q]
        /\ task[p] = "running" /\ task'[p] = "put"
        /\ result'[p] = service[p] /\ service[p] # "throws"
        /\ UNCHANGED <<paymentTypes, service, latch, caller, timely, read>>
    BY <1>5 DEF Put, PayTypes
  <2>4. TasksRight'
    BY <1>0, <2>2, <2>3 DEF TasksRight, Prepared
  <2>5. ReadsRight'
    BY <2>3 DEF PayTypes, ReadsRight
  <2> QED
    BY <2>1, <2>4, <2>5
<1>6. ASSUME NEW p \in Payment, CountDown(p)  PROVE PayInv'
  <2>1. PayTypes'
    BY <1>6 DEF CountDown, PayTypes
  <2>2. /\ \A q \in Payment \ {p} : task'[q] = task[q]
        /\ task[p] = "put" /\ task'[p] = "counted" /\ latch' = latch - 1
        /\ UNCHANGED <<paymentTypes, service, result, caller, timely, read>>
    BY <1>6 DEF CountDown, PayTypes
  <2>3. Prepared /\ p \in ToSet(paymentTypes)
    BY <2>2 DEF TasksRight
  <2>4. Uncounted' = Uncounted \ {p} /\ p \in Uncounted
    BY <1>0, <2>2, <2>3 DEF Uncounted
  <2>5. IsFiniteSet(Uncounted)
    BY <1>0, FS_Subset DEF Uncounted
  <2>6. latch' = Cardinality(Uncounted')
    BY <2>2, <2>3, <2>4, <2>5, FS_RemoveElement DEF TasksRight
  <2>7. TasksRight'
    BY <2>2, <2>3, <2>6 DEF TasksRight, Prepared
  <2>8. ReadsRight'
    BY <2>2 DEF PayTypes, ReadsRight
  <2> QED
    BY <2>1, <2>7, <2>8
<1>7. CASE WaitEnds
  <2>1. PayTypes'
    BY <1>7 DEF WaitEnds, PayTypes
  <2>2. Uncounted' = Uncounted
    BY <1>7, SameUncounted DEF WaitEnds
  <2>3. TasksRight'
    BY <1>7, <2>2 DEF WaitEnds, TasksRight, Prepared
  <2>4. ASSUME caller' = "answered"  PROVE ToSet(paymentTypes) \subseteq timely'
    <3>1. latch = 0 /\ latch = Cardinality(Uncounted)
      BY <1>7, <2>4 DEF WaitEnds, TasksRight, Prepared
    <3>2. Uncounted = {}
      BY <1>0, <3>1, FS_Subset, FS_EmptySet DEF Uncounted
    <3> QED
      BY <1>0, <1>7, <3>2 DEF Uncounted, WaitEnds
  <2>5. ReadsRight'
    BY <1>7, <2>4 DEF WaitEnds, ReadsRight
  <2> QED
    BY <2>1, <2>3, <2>5
<1>8. ASSUME NEW p \in Payment, Read(p)  PROVE PayInv'
  <2>1. PICK value \in IF p \in timely THEN {result[p]} ELSE {Timeout, result[p]} :
               read' = [read EXCEPT ![p] = value]
    BY <1>8 DEF Read
  <2>2. /\ caller \in {"answered", "timed out"} /\ p \in ToSet(paymentTypes)
        /\ UNCHANGED <<paymentTypes, service, task, result, latch, caller, timely>>
    BY <1>8 DEF Read
  <2>3. result[p] \in {Timeout, service[p]}
    BY <2>2 DEF TasksRight, Prepared
  <2>4. p \in timely => result[p] = service[p]
    BY DEF TasksRight, ReadsRight
  <2>5. value \in {Timeout, service[p]} /\ (p \in timely => value = service[p])
    BY <2>1, <2>3, <2>4
  <2>6. PayTypes'
    BY <2>1, <2>2, <2>5 DEF PayTypes, Answer
  <2>7. TasksRight'
    BY <2>2 DEF TasksRight, Prepared, Uncounted
  <2>8. \A q \in Payment \ {p} : read'[q] = read[q]
    BY <2>1 DEF PayTypes
  <2>9. read'[p] = value
    BY <2>1 DEF PayTypes
  <2>10. ReadsRight'
    BY <2>2, <2>5, <2>8, <2>9 DEF ReadsRight
  <2> QED
    BY <2>6, <2>7, <2>10
<1>9. CASE UNCHANGED payVars
  BY <1>9 DEF payVars, PayTypes, TasksRight, ReadsRight, Prepared, Uncounted
<1> QED
  BY <1>1, <1>2, <1>3, <1>4, <1>5, <1>6, <1>7, <1>8, <1>9 DEF PayNext

\* Whatever the services do and whenever their answers come, the caller reads
\* what a service has answered or the default, and an answer that was counted
\* before the end of the wait is never missed.
THEOREM TimelyAnswersAreRead == PaySpec => []PaymentRight
<1>1. PayInv => PaymentRight
  <2> SUFFICES ASSUME PayInv PROVE PaymentRight
    OBVIOUS
  <2> USE DEF PayInv
  <2>1. ToSet(paymentTypes) \subseteq Payment
    BY TypesOfList DEF PayTypes
  <2>2. ASSUME caller = "answered", NEW p \in ToSet(paymentTypes)
        PROVE  service[p] # "throws"
    BY <2>1, <2>2 DEF ReadsRight, TasksRight
  <2> QED
    BY <2>2 DEF ReadsRight, PaymentRight
<1> QED
  BY <1>1, PayInvInit, PayInvStep, PTL DEF PaySpec

-----------------------------------------------------------------------------
(* The singleton.                                                          *)

SingletonTypes ==
  /\ field \in {0, 1} /\ made \in {0, 1}
  /\ monitor \subseteq Loop
  /\ at \in [Loop -> {"checking", "locking", "making", "writing", "leaving", "reading",
                      "adding", "added", "counted"}]
  /\ got \in [Loop -> {0, 1}]
  /\ list \subseteq {1}
  /\ printed \in {0, 1}

\* The threads in the monitor are those past the lock; there is one at most.
MonitorRight ==
  /\ monitor = {t \in Loop : at[t] \in {"making", "writing", "leaving"}}
  /\ \A t, u \in monitor : t = u

\* The object is made while there is none, and the field is written by the one
\* who has made it before anybody goes on.
ObjectRight ==
  /\ field = 1 => made = 1
  /\ made # field => \E t \in Loop : at[t] = "writing"
  /\ \A t \in Loop :
       /\ at[t] = "making" => made = 0
       /\ at[t] = "writing" => field = 0 /\ made = 1 /\ got[t] = 1
       /\ at[t] \in {"leaving", "reading", "adding", "added", "counted"} => field = 1
       /\ at[t] \in {"adding", "added", "counted"} => got[t] = 1

SingletonInv == SingletonTypes /\ MonitorRight /\ ObjectRight

LEMMA SingletonInvInit == SingletonInit => SingletonInv
BY DEF SingletonInit, SingletonInv, SingletonTypes, MonitorRight, ObjectRight

\* Each step of a thread, and main's.
LEMMA SingletonInvStep == SingletonInv /\ [SingletonNext]_singletonVars => SingletonInv'
<1> SUFFICES ASSUME SingletonInv, [SingletonNext]_singletonVars PROVE SingletonInv'
  OBVIOUS
<1> USE DEF SingletonInv
<1>1. CASE PrintSize
  <2>1. Cardinality(list) \in {0, 1}
    <3>1. list = {} \/ list = {1}
      BY DEF SingletonTypes
    <3> QED
      BY <3>1, FS_EmptySet, FS_Singleton
  <2> QED
    BY <1>1, <2>1 DEF PrintSize, SingletonTypes, MonitorRight, ObjectRight
<1>2. ASSUME NEW t \in Loop, Check(t)  PROVE SingletonInv'
  <2>1. SingletonTypes'
    BY <1>2 DEF Check, Move, SingletonTypes
  <2>2. MonitorRight'
    BY <1>2 DEF Check, Move, SingletonTypes, MonitorRight
  <2>3. ObjectRight'
    BY <1>2 DEF Check, Move, SingletonTypes, ObjectRight
  <2> QED
    BY <2>1, <2>2, <2>3
<1>3. ASSUME NEW t \in Loop, Lock(t)  PROVE SingletonInv'
  <2>1. SingletonTypes'
    BY <1>3 DEF Lock, Move, SingletonTypes
  <2>2. MonitorRight'
    BY <1>3 DEF Lock, Move, SingletonTypes, MonitorRight
  <2>3. \A u \in Loop : at[u] # "writing"
    BY <1>3 DEF Lock, MonitorRight
  <2>4. made = field
    BY <2>3 DEF ObjectRight
  <2>5. ObjectRight'
    BY <1>3, <2>4 DEF Lock, Move, SingletonTypes, ObjectRight
  <2> QED
    BY <2>1, <2>2, <2>5
<1>4. ASSUME NEW t \in Loop, Make(t)  PROVE SingletonInv'
  <2>0. made = 0 /\ field = 0
    BY <1>4 DEF Make, Move, SingletonTypes, ObjectRight
  <2>1. /\ at[t] = "making" /\ at' = [at EXCEPT ![t] = "writing"]
        /\ made = 0 /\ made' = 1 /\ field = 0
        /\ got' = [got EXCEPT ![t] = 1]
        /\ UNCHANGED <<field, monitor, list, printed>>
    BY <1>4, <2>0 DEF Make, Move
  <2>2. SingletonTypes'
    BY <2>1 DEF SingletonTypes
  <2>3. MonitorRight'
    BY <2>1 DEF SingletonTypes, MonitorRight
  <2>4. \A u \in Loop \ {t} : at'[u] = at[u] /\ at[u] \notin {"making", "writing", "leaving"}
    BY <2>1 DEF SingletonTypes, MonitorRight
  <2>5. at'[t] = "writing" /\ got'[t] = 1 /\ \A u \in Loop \ {t} : got'[u] = got[u]
    BY <2>1 DEF SingletonTypes
  <2>6. ObjectRight'
    BY <2>1, <2>4, <2>5 DEF ObjectRight
  <2> QED
    BY <2>2, <2>3, <2>6
<1>5. ASSUME NEW t \in Loop, Write(t)  PROVE SingletonInv'
  <2>0. field = 0 /\ made = 1 /\ got[t] = 1
    BY <1>5 DEF Write, Move, SingletonTypes, ObjectRight
  <2>1. /\ at[t] = "writing" /\ at' = [at EXCEPT ![t] = "leaving"]
        /\ made = 1 /\ field' = 1
        /\ UNCHANGED <<made, monitor, got, list, printed>>
    BY <1>5, <2>0 DEF Write, Move
  <2>2. SingletonTypes'
    BY <2>1 DEF SingletonTypes
  <2>3. MonitorRight'
    BY <2>1 DEF SingletonTypes, MonitorRight
  <2>4. \A u \in Loop \ {t} : at'[u] = at[u] /\ at[u] \notin {"making", "writing", "leaving"}
    BY <2>1 DEF SingletonTypes, MonitorRight
  <2>5. at'[t] = "leaving"
    BY <2>1 DEF SingletonTypes
  <2>6. ObjectRight'
    BY <2>1, <2>4, <2>5 DEF ObjectRight
  <2> QED
    BY <2>2, <2>3, <2>6
<1>6. ASSUME NEW t \in Loop, Leave(t)  PROVE SingletonInv'
  <2>1. SingletonTypes'
    BY <1>6 DEF Leave, Move, SingletonTypes
  <2>2. MonitorRight'
    BY <1>6 DEF Leave, Move, SingletonTypes, MonitorRight
  <2>3. ObjectRight'
    BY <1>6 DEF Leave, Move, SingletonTypes, ObjectRight
  <2> QED
    BY <2>1, <2>2, <2>3
<1>7. ASSUME NEW t \in Loop, Return(t)  PROVE SingletonInv'
  <2>1. SingletonTypes'
    BY <1>7 DEF Return, Move, SingletonTypes
  <2>2. MonitorRight'
    BY <1>7 DEF Return, Move, SingletonTypes, MonitorRight
  <2>3. ObjectRight'
    BY <1>7 DEF Return, Move, SingletonTypes, ObjectRight
  <2> QED
    BY <2>1, <2>2, <2>3
<1>8. ASSUME NEW t \in Loop, Add(t)  PROVE SingletonInv'
  <2>1. got[t] = 1
    BY <1>8 DEF Add, Move, ObjectRight
  <2>2. SingletonTypes'
    BY <1>8, <2>1 DEF Add, Move, SingletonTypes
  <2>3. MonitorRight'
    BY <1>8 DEF Add, Move, SingletonTypes, MonitorRight
  <2>4. ObjectRight'
    BY <1>8 DEF Add, Move, SingletonTypes, ObjectRight
  <2> QED
    BY <2>2, <2>3, <2>4
<1>9. ASSUME NEW t \in Loop, CountThreadDown(t)  PROVE SingletonInv'
  <2>1. SingletonTypes'
    BY <1>9 DEF CountThreadDown, Move, SingletonTypes
  <2>2. MonitorRight'
    BY <1>9 DEF CountThreadDown, Move, SingletonTypes, MonitorRight
  <2>3. ObjectRight'
    BY <1>9 DEF CountThreadDown, Move, SingletonTypes, ObjectRight
  <2> QED
    BY <2>1, <2>2, <2>3
<1>10. CASE UNCHANGED singletonVars
  BY <1>10 DEF singletonVars, SingletonTypes, MonitorRight, ObjectRight
<1> QED
  BY <1>1, <1>2, <1>3, <1>4, <1>5, <1>6, <1>7, <1>8, <1>9, <1>10 DEF SingletonNext

\* However many threads ask at once, one object is made and each is given it.
THEOREM OneObjectForAll == SingletonSpec => []OneInstance
<1>1. SingletonInv => OneInstance
  BY DEF SingletonInv, SingletonTypes, ObjectRight, OneInstance
<1> QED
  BY <1>1, SingletonInvInit, SingletonInvStep, PTL DEF SingletonSpec

-----------------------------------------------------------------------------
(* The mutex.                                                              *)

MutexInv == MutexTypes /\ MutualExclusion

\* The labels of a holder.
Held == {"owning", "heading", "holding", "clearing", "freeing"}

LEMMA MutexInvInit == MutexInit => MutexInv
<1> SUFFICES ASSUME MutexInit PROVE MutexInv
  OBVIOUS
<1>1. MutexTypes
  BY DEF MutexInit, MutexTypes
<1>2. Holders = {}
  BY DEF MutexInit, Holders
<1>3. MutualExclusion
  BY <1>2 DEF MutexInit, MutualExclusion
<1> QED
  BY <1>1, <1>3 DEF MutexInv

\* A step that takes no thread among the holders nor out of them, and changes
\* neither the state nor the owner, keeps the exclusion.
LEMMA SameHolders ==
  ASSUME MutexInv, state' = state, owner' = owner,
         "unlock" \notin abused' => "unlock" \notin abused, MutexTypes',
         \A t \in Thread : (pc[t] \in Held \/ pc'[t] \in Held) =>
           \/ pc'[t] = pc[t]
           \/ pc[t] \in Held /\ pc'[t] \in {"clearing", "freeing"}
           \/ pc[t] = "heading" /\ pc'[t] = "holding"
  PROVE  MutualExclusion'
<1>1. Holders' = Holders
  BY DEF Holders, Held
<1>2. \A t \in Thread : pc'[t] \in {"heading", "holding"} => pc[t] \in {"heading", "holding"}
  BY DEF Held
<1> QED
  BY <1>1, <1>2 DEF MutexInv, MutualExclusion

LEMMA MutexInvStep == MutexInv /\ [MutexNext]_mutexVars => MutexInv'
<1> SUFFICES ASSUME MutexInv, [MutexNext]_mutexVars PROVE MutexInv'
  OBVIOUS
<1> USE DEF MutexInv
<1>1. ASSUME NEW t \in Thread, NEW m \in Method, Call(t, m)  PROVE MutexInv'
  <2>1. MutexTypes'
    BY <1>1 DEF Call, Goto, MutexTypes
  <2> QED
    BY <1>1, <2>1, SameHolders DEF Call, Goto, MutexTypes, Held
<1>2. ASSUME NEW t \in Thread, TryAcquire(t)  PROVE MutexInv'
  <2>1. MutexTypes'
    BY <1>2 DEF TryAcquire, Goto, Forget, MutexTypes
  <2>2. CASE state = 0
    <3>1. state' = 1 /\ pc' = [pc EXCEPT ![t] = "owning"] /\ UNCHANGED <<owner, abused>>
      BY <1>2, <2>2 DEF TryAcquire, Goto
    <3>2. "unlock" \notin abused => Holders' = {t} /\ Holders = {}
      BY <2>2, <3>1 DEF MutualExclusion, Holders, MutexTypes
    <3> QED
      BY <2>1, <3>1, <3>2 DEF MutualExclusion, Holders, MutexTypes
  <2>3. CASE state # 0
    BY <1>2, <2>1, <2>3, SameHolders DEF TryAcquire, Goto, MutexTypes, Held
  <2> QED
    BY <2>2, <2>3
<1>3. ASSUME NEW t \in Thread, SetOwner(t)  PROVE MutexInv'
  <2>1. MutexTypes'
    BY <1>3 DEF SetOwner, Goto, MutexTypes
  <2>2. Holders' = Holders /\ t \in Holders
    BY <1>3 DEF SetOwner, Goto, Holders, MutexTypes
  <2> QED
    BY <1>3, <2>1, <2>2 DEF SetOwner, MutualExclusion, Holders
<1>4. ASSUME NEW t \in Thread, Enter(t) \/ Retry(t) \/ GiveUp(t) \/ AwaitEnds(t)
      PROVE  MutexInv'
  <2>1. MutexTypes'
    BY <1>4 DEF Enter, Retry, GiveUp, AwaitEnds, Goto, MutexTypes
  <2> QED
    BY <1>4, <2>1, SameHolders DEF Enter, Retry, GiveUp, AwaitEnds, Goto, MutexTypes, Held
<1>5. ASSUME NEW t \in Thread, LeaveQueue(t)  PROVE MutexInv'
  <2>1. MutexTypes'
    BY <1>5 DEF LeaveQueue, Goto, MutexTypes
  <2> QED
    BY <1>5, <2>1, SameHolders DEF LeaveQueue, Goto, MutexTypes, Held
<1>6. ASSUME NEW t \in Thread, Unlock(t)  PROVE MutexInv'
  <2>1. MutexTypes'
    BY <1>6 DEF Unlock, Record, Goto, MutexTypes
  <2>2. CASE "unlock" \in abused'
    BY <2>1, <2>2 DEF MutualExclusion
  <2>3. CASE "unlock" \notin abused'
    <3>1. "unlock" \notin abused /\ (pc[t] = "idle" => state = 0)
      BY <1>6, <2>3 DEF Unlock, Record
    <3>2. pc[t] = "holding" => state = 1
      BY <3>1 DEF MutualExclusion, Holders
    <3>3. \A u \in Thread : pc'[u] = pc[u] \/ (pc[u] = "holding" /\ pc'[u] = "clearing")
      <4>1. CASE pc[t] = "idle"
        BY <1>6, <3>1, <4>1 DEF Unlock, Goto, MutexTypes
      <4>2. CASE pc[t] = "holding"
        BY <1>6, <3>2, <4>2 DEF Unlock, Goto, MutexTypes
      <4> QED
        BY <1>6, <4>1, <4>2 DEF Unlock
    <3>4. state' = state /\ owner' = owner
      BY <1>6 DEF Unlock
    <3>5. \A u \in Thread : (pc[u] \in Held \/ pc'[u] \in Held) =>
            pc'[u] = pc[u] \/ (pc[u] \in Held /\ pc'[u] \in {"clearing", "freeing"})
      BY <3>3 DEF MutexTypes, Held
    <3> QED
      BY <2>1, <3>1, <3>4, <3>5, SameHolders
  <2> QED
    BY <2>2, <2>3
<1>7. ASSUME NEW t \in Thread, Await(t)  PROVE MutexInv'
  <2>1. MutexTypes'
    BY <1>7 DEF Await, Record, Goto, MutexTypes
  <2>2. CASE "unlock" \in abused'
    BY <2>1, <2>2 DEF MutualExclusion
  <2>3. CASE "unlock" \notin abused'
    <3>1. pc[t] = "holding" /\ abused' = abused
      BY <1>7, <2>3 DEF Await, Record
    <3> QED
      BY <1>7, <2>1, <3>1, SameHolders DEF Await, Goto, MutexTypes, Held
  <2> QED
    BY <2>2, <2>3
<1>8. ASSUME NEW t \in Thread, ClearOwner(t)  PROVE MutexInv'
  <2>1. MutexTypes'
    BY <1>8 DEF ClearOwner, Goto, MutexTypes
  <2>2. Holders' = Holders /\ t \in Holders /\ pc'[t] = "freeing"
    BY <1>8 DEF ClearOwner, Goto, Holders, MutexTypes
  <2> QED
    BY <1>8, <2>1, <2>2 DEF ClearOwner, MutualExclusion, Holders
<1>9. ASSUME NEW t \in Thread, FreeState(t)  PROVE MutexInv'
  <2>1. MutexTypes'
    BY <1>9 DEF FreeState, Goto, MutexTypes
  <2>2. t \in Holders /\ Holders' = Holders \ {t}
    BY <1>9 DEF FreeState, Goto, Holders, MutexTypes
  <2>3. "unlock" \notin abused => Holders' = {}
    BY <2>2 DEF MutualExclusion
  <2> QED
    BY <1>9, <2>1, <2>3 DEF FreeState, MutualExclusion, Holders
<1>10. ASSUME NEW t \in Thread, Signal(t)  PROVE MutexInv'
  <2>1. MutexTypes'
    BY <1>10 DEF Signal, Goto, MutexTypes
  <2> QED
    BY <1>10, <2>1, SameHolders DEF Signal, Goto, MutexTypes, Held
<1>11. ASSUME NEW t \in Thread, SignalCondition(t)  PROVE MutexInv'
  <2>1. MutexTypes'
    BY <1>11 DEF SignalCondition, Record, Goto, MutexTypes
  <2> QED
    BY <1>11, <2>1, SameHolders DEF SignalCondition, Record, Goto, MutexTypes, Held
<1>13. ASSUME NEW t \in Thread, DoSignal(t)  PROVE MutexInv'
  <2>1. \A u \in Thread : \/ pc'[u] = pc[u]
                          \/ pc[u] = "notifying" /\ pc'[u] = "idle"
                          \/ pc[u] = "waiting" /\ pc'[u] = "parked"
    BY <1>13 DEF DoSignal, MutexTypes
  <2>2. DOMAIN pc' = Thread
    BY <1>13 DEF DoSignal
  <2>3. pc' = [u \in Thread |-> pc'[u]]
    BY <1>13 DEF DoSignal
  <2>4. MutexTypes'
    BY <1>13, <2>1, <2>2, <2>3 DEF DoSignal, MutexTypes
  <2>5. \A u \in Thread : (pc[u] \in Held \/ pc'[u] \in Held) => pc'[u] = pc[u]
    BY <2>1 DEF Held
  <2> QED
    BY <1>13, <2>4, <2>5, SameHolders DEF DoSignal
<1>12. CASE UNCHANGED mutexVars
  BY <1>12 DEF mutexVars, MutexTypes, MutualExclusion, Holders
<1> QED
  BY <1>1, <1>2, <1>3, <1>4, <1>5, <1>6, <1>7, <1>8, <1>9, <1>10, <1>11, <1>12,
     <1>13
  DEF MutexNext, Proceed, MayDo

\* For every set of threads: one at most holds the lock and is its owner, while
\* the state says so, until somebody unlocks, or waits for the condition of, what
\* it does not hold.
THEOREM MutexExcludes == MutexSpec => []MutualExclusion
<1>1. MutexInv => MutualExclusion
  BY DEF MutexInv
<1> QED
  BY <1>1, MutexInvInit, MutexInvStep, PTL DEF MutexSpec

-----------------------------------------------------------------------------
(* The search tree.                                                        *)

\* That the recursive functions of the module are what their definitions say:
\* the function is put together from its approximations up to n, for each n.
LEMMA TreeIs ==
  /\ Tree = [n \in Nat |-> IF n = 0 THEN {Nil} ELSE
        {Nil} \cup [left : Tree[n - 1], value : Value, right : Tree[n - 1], height : Int]]
<1> DEFINE F(n, prev) == IF n = 0 THEN {Nil} ELSE {Nil} \cup [left : prev, value : Value, right : prev, height : Int]
           Ap(n, g) == g = [k \in 0 .. n |-> F(k, g[k - 1])]
           A(n) == CHOOSE g : Ap(n, g)
           G == [n \in Nat |-> A(n)[n]]
<1> SUFFICES \E g : g = [n \in Nat |-> F(n, g[n - 1])]
  BY DEF Tree
<1>1. \A x, y : F(0, x) = F(0, y)
  OBVIOUS
<1> HIDE DEF F
<1>2. \A n \in Nat : \A g : Ap(n, g) => \A k \in 0 .. n : g[k] = F(k, g[k - 1])
  BY Zenon
<1>3. \A n \in Nat : \E g : Ap(n, g)
  <2> DEFINE S == {n \in Nat : \E g : Ap(n, g)}
  <2>1. 0 \in S
    <3> DEFINE h == [k \in 0 .. 0 |-> F(0, 0)]
    <3>1. Ap(0, h)
      BY <1>1
    <3> QED
      BY <3>1
  <2>2. ASSUME NEW n \in Nat, n \in S  PROVE n + 1 \in S
    <3>1. PICK g : Ap(n, g)
      BY <2>2
    <3> DEFINE h == [k \in 0 .. n + 1 |-> IF k <= n THEN g[k] ELSE F(k, g[n])]
    <3>2. ASSUME NEW k \in 0 .. n + 1  PROVE h[k] = F(k, h[k - 1])
      <4>1. CASE k = 0
        BY <1>1, <1>2, <3>1, <4>1
      <4>2. CASE k # 0
        BY <1>2, <3>1, <4>2
      <4> QED
        BY <4>1, <4>2
    <3>3. Ap(n + 1, h)
      BY <3>2
    <3> HIDE DEF h, Ap
    <3> QED
      BY <3>3
  <2> HIDE DEF S
  <2>3. \A n \in Nat : n \in S
    BY <2>1, <2>2, NatSetInduction
  <2> QED
    BY <2>3 DEF S
<1> HIDE DEF Ap
<1>4. \A n \in Nat : Ap(n, A(n))
  BY <1>3, Zenon
<1> HIDE DEF A
<1>5. \A n \in Nat : \A k \in 0 .. n : A(n)[k] = F(k, A(n)[k - 1])
  BY <1>2, <1>4
<1>6. ASSUME NEW n \in Nat, NEW m \in Nat
      PROVE \A k \in Nat : k <= n /\ k <= m => A(n)[k] = A(m)[k]
  <2> DEFINE S == {k \in Nat : k <= n /\ k <= m => A(n)[k] = A(m)[k]}
  <2>1. 0 \in S
    BY <1>1, <1>5
  <2>2. ASSUME NEW k \in Nat, k \in S  PROVE k + 1 \in S
    <3>1. CASE k + 1 <= n /\ k + 1 <= m
      <4>1. A(n)[k] = A(m)[k]
        BY <2>2, <3>1
      <4>2. A(n)[k + 1] = F(k + 1, A(n)[k]) /\ A(m)[k + 1] = F(k + 1, A(m)[k])
        BY <1>5, <3>1, (k + 1) - 1 = k
      <4> QED
        BY <4>1, <4>2
    <3> QED
      BY <3>1
  <2> HIDE DEF S
  <2>3. \A k \in Nat : k \in S
    BY <2>1, <2>2, NatSetInduction
  <2> QED
    BY <2>3 DEF S
<1>7. ASSUME NEW n \in Nat  PROVE G[n] = F(n, G[n - 1])
  <2>1. A(n)[n] = F(n, A(n)[n - 1])
    BY <1>5
  <2>2. CASE n # 0
    BY <1>6, <2>1, <2>2
  <2>3. CASE n = 0
    BY <1>1, <2>1, <2>3
  <2> QED
    BY <2>2, <2>3
<1>8. G = [n \in Nat |-> F(n, G[n - 1])]
  BY <1>7
<1> HIDE DEF G
<1> QED
  BY <1>8

LEMMA TreeLevels ==
  /\ Tree[0] = {Nil}
  /\ \A n \in Nat : Tree[n + 1] =
       {Nil} \cup [left : Tree[n], value : Value, right : Tree[n], height : Int]
<1> DEFINE F(n, prev) == IF n = 0 THEN {Nil} ELSE {Nil} \cup [left : prev, value : Value, right : prev, height : Int]
<1>1. Tree = [n \in Nat |-> F(n, Tree[n - 1])]
  BY TreeIs
<1> HIDE DEF F
<1>2. \A n \in Nat : Tree[n] = F(n, Tree[n - 1])
  BY <1>1, Zenon
<1>3. Tree[0] = F(0, Tree[0 - 1])
  BY <1>2
<1>4. ASSUME NEW n \in Nat  PROVE Tree[n + 1] = F(n + 1, Tree[n])
  BY <1>2, (n + 1) - 1 = n
<1>5. Tree[0] = {Nil}
  BY <1>3 DEF F
<1>6. ASSUME NEW n \in Nat
      PROVE  Tree[n + 1] = {Nil} \cup [left : Tree[n], value : Value, right : Tree[n], height : Int]
  <2>1. n + 1 # 0
    OBVIOUS
  <2>2. Tree[n + 1] = F(n + 1, Tree[n])
    BY <1>4
  <2> DEFINE A == Tree[n]
             B == Tree[n + 1]
             m == n + 1
  <2>3. m # 0 /\ B = F(m, A)
    BY <2>1, <2>2
  <2> HIDE DEF A, B, m
  <2>4. B = {Nil} \cup [left : A, value : Value, right : A, height : Int]
    BY <2>3 DEF F
  <2> QED
    BY <2>4 DEF A, B
<1> HIDE DEF F
<1> QED
  BY <1>5, <1>6

LEMMA TreeStep ==
  ASSUME NEW n \in Nat
  PROVE  Tree[n] \subseteq Tree[n + 1]
<1> DEFINE S == {k \in Nat : Tree[k] \subseteq Tree[k + 1]}
<1>1. 0 \in S
  BY TreeLevels
<1>2. ASSUME NEW k \in Nat, k \in S  PROVE k + 1 \in S
  <2> DEFINE A == Tree[k]
             B == Tree[k + 1]
             C == Tree[(k + 1) + 1]
  <2>1. A \subseteq B
    BY <1>2
  <2>2. /\ B = {Nil} \cup [left : A, value : Value, right : A, height : Int]
        /\ C = {Nil} \cup [left : B, value : Value, right : B, height : Int]
    BY TreeLevels
  <2> HIDE DEF A, B, C
  <2>3. B \subseteq C
    BY <2>1, <2>2
  <2> QED
    BY <2>3 DEF B, C
<1> HIDE DEF S
<1>3. n \in S
  BY <1>1, <1>2, NatSetInduction
<1> QED
  BY <1>3 DEF S

\* A tree has room among the higher ones.
LEMMA TreeGrows ==
  ASSUME NEW n \in Nat, NEW m \in Nat, n <= m
  PROVE  Tree[n] \subseteq Tree[m]
<1> DEFINE S == {k \in Nat : n <= k => Tree[n] \subseteq Tree[k]}
<1>1. 0 \in S
  OBVIOUS
<1>2. ASSUME NEW k \in Nat, k \in S  PROVE k + 1 \in S
  <2>1. Tree[k] \subseteq Tree[k + 1]
    BY TreeStep
  <2>2. CASE n = k + 1
    BY <2>2
  <2>3. CASE n <= k
    BY <1>2, <2>1, <2>3
  <2> QED
    BY <2>2, <2>3
<1> HIDE DEF S
<1>3. m \in S
  BY <1>1, <1>2, NatSetInduction
<1> QED
  BY <1>3 DEF S

\* What a tree that is not null consists of.
LEMMA TreeParts ==
  ASSUME NEW n \in Nat, NEW t \in Tree[n], t # Nil
  PROVE  /\ n # 0 /\ n - 1 \in Nat
         /\ t.left \in Tree[n - 1] /\ t.right \in Tree[n - 1]
         /\ t.value \in Value /\ t.height \in Int
         /\ t = Node(t.left, t.value, t.right, t.height)
<1>1. n # 0 /\ n - 1 \in Nat
  BY TreeLevels
<1>2. t \in [left : Tree[n - 1], value : Value, right : Tree[n - 1], height : Int]
  BY <1>1, TreeLevels, (n - 1) + 1 = n
<1> QED
  BY <1>1, <1>2 DEF Node

\* What is read from a node, and what assigning a field makes of it.
LEMMA NodeFields ==
  ASSUME NEW l, NEW v, NEW r, NEW h
  PROVE  /\ Node(l, v, r, h) # Nil
         /\ Node(l, v, r, h).left = l /\ Node(l, v, r, h).value = v
         /\ Node(l, v, r, h).right = r /\ Node(l, v, r, h).height = h
         /\ Measured(Node(l, v, r, h)) = Node(l, v, r, Higher(l, r) + 1)
         /\ \A x : [Node(l, v, r, h) EXCEPT !.left = x] = Node(x, v, r, h)
         /\ \A x : [Node(l, v, r, h) EXCEPT !.right = x] = Node(l, v, x, h)
BY DEF Node, Nil, Measured

LEMMA SubtreesAre ==
  Subtrees = [n \in Nat |-> [node \in Tree[n] |->
     IF node = Nil THEN {}
     ELSE {node} \cup Subtrees[n - 1][node.left] \cup Subtrees[n - 1][node.right]]]
<1> DEFINE F(n, prev) == [node \in Tree[n] |->
             IF node = Nil THEN {} ELSE {node} \cup prev[node.left] \cup prev[node.right]]
           Ap(n, g) == g = [k \in 0 .. n |-> F(k, g[k - 1])]
           A(n) == CHOOSE g : Ap(n, g)
           G == [n \in Nat |-> A(n)[n]]
<1> SUFFICES \E g : g = [n \in Nat |-> F(n, g[n - 1])]
  BY DEF Subtrees
<1>1. \A x, y : F(0, x) = F(0, y)
  BY TreeLevels
<1> HIDE DEF F
<1>2. \A n \in Nat : \A g : Ap(n, g) => \A k \in 0 .. n : g[k] = F(k, g[k - 1])
  BY Zenon
<1>3. \A n \in Nat : \E g : Ap(n, g)
  <2> DEFINE S == {n \in Nat : \E g : Ap(n, g)}
  <2>1. 0 \in S
    <3> DEFINE h == [k \in 0 .. 0 |-> F(0, 0)]
    <3>1. Ap(0, h)
      BY <1>1
    <3> QED
      BY <3>1
  <2>2. ASSUME NEW n \in Nat, n \in S  PROVE n + 1 \in S
    <3>1. PICK g : Ap(n, g)
      BY <2>2
    <3> DEFINE h == [k \in 0 .. n + 1 |-> IF k <= n THEN g[k] ELSE F(k, g[n])]
    <3>2. ASSUME NEW k \in 0 .. n + 1  PROVE h[k] = F(k, h[k - 1])
      <4>1. CASE k = 0
        BY <1>1, <1>2, <3>1, <4>1
      <4>2. CASE k # 0
        BY <1>2, <3>1, <4>2
      <4> QED
        BY <4>1, <4>2
    <3>3. Ap(n + 1, h)
      BY <3>2
    <3> HIDE DEF h, Ap
    <3> QED
      BY <3>3
  <2> HIDE DEF S
  <2>3. \A n \in Nat : n \in S
    BY <2>1, <2>2, NatSetInduction
  <2> QED
    BY <2>3 DEF S
<1> HIDE DEF Ap
<1>4. \A n \in Nat : Ap(n, A(n))
  BY <1>3, Zenon
<1> HIDE DEF A
<1>5. \A n \in Nat : \A k \in 0 .. n : A(n)[k] = F(k, A(n)[k - 1])
  BY <1>2, <1>4
<1>6. ASSUME NEW n \in Nat, NEW m \in Nat
      PROVE \A k \in Nat : k <= n /\ k <= m => A(n)[k] = A(m)[k]
  <2> DEFINE S == {k \in Nat : k <= n /\ k <= m => A(n)[k] = A(m)[k]}
  <2>1. 0 \in S
    BY <1>1, <1>5
  <2>2. ASSUME NEW k \in Nat, k \in S  PROVE k + 1 \in S
    <3>1. CASE k + 1 <= n /\ k + 1 <= m
      <4>1. A(n)[k] = A(m)[k]
        BY <2>2, <3>1
      <4>2. A(n)[k + 1] = F(k + 1, A(n)[k]) /\ A(m)[k + 1] = F(k + 1, A(m)[k])
        BY <1>5, <3>1, (k + 1) - 1 = k
      <4> QED
        BY <4>1, <4>2
    <3> QED
      BY <3>1
  <2> HIDE DEF S
  <2>3. \A k \in Nat : k \in S
    BY <2>1, <2>2, NatSetInduction
  <2> QED
    BY <2>3 DEF S
<1>7. ASSUME NEW n \in Nat  PROVE G[n] = F(n, G[n - 1])
  <2>1. A(n)[n] = F(n, A(n)[n - 1])
    BY <1>5
  <2>2. CASE n # 0
    BY <1>6, <2>1, <2>2
  <2>3. CASE n = 0
    BY <1>1, <2>1, <2>3
  <2> QED
    BY <2>2, <2>3
<1>8. G = [n \in Nat |-> F(n, G[n - 1])]
  BY <1>7
<1> HIDE DEF G
<1> QED
  BY <1>8

LEMMA SubtreesParts ==
  ASSUME NEW n \in Nat, NEW t \in Tree[n]
  PROVE  Subtrees[n][t] = IF t = Nil THEN {} ELSE
           {t} \cup Subtrees[n - 1][t.left] \cup Subtrees[n - 1][t.right]
<1> DEFINE F(k, prev) == [node \in Tree[k] |->
             IF node = Nil THEN {} ELSE {node} \cup prev[node.left] \cup prev[node.right]]
<1>1. Subtrees = [k \in Nat |-> F(k, Subtrees[k - 1])]
  BY SubtreesAre
<1> HIDE DEF F
<1>2. Subtrees[n] = F(n, Subtrees[n - 1])
  BY <1>1
<1> QED
  BY <1>2 DEF F

LEMMA SubtreesStep ==
  ASSUME NEW n \in Nat
  PROVE  \A t \in Tree[n] : Subtrees[n + 1][t] = Subtrees[n][t]
<1> DEFINE S == {k \in Nat : \A t \in Tree[k] : Subtrees[k + 1][t] = Subtrees[k][t]}
<1>1. 0 \in S
  <2>1. Tree[0] = {Nil} /\ Nil \in Tree[1]
    BY TreeLevels
  <2>2. Subtrees[0][Nil] = {} /\ Subtrees[1][Nil] = {}
    BY <2>1, SubtreesParts
  <2>3. 0 + 1 = 1
    OBVIOUS
  <2>4. \A t \in Tree[0] : Subtrees[0 + 1][t] = Subtrees[0][t]
    BY <2>1, <2>2, <2>3, Zenon
  <2> QED
    BY <2>4
<1>2. ASSUME NEW k \in Nat, k \in S  PROVE k + 1 \in S
  <2> SUFFICES ASSUME NEW t \in Tree[k + 1]
               PROVE  Subtrees[(k + 1) + 1][t] = Subtrees[k + 1][t]
    OBVIOUS
  <2>1. t \in Tree[(k + 1) + 1]
    BY TreeStep
  <2>2. /\ Subtrees[k + 1][t] = IF t = Nil THEN {} ELSE
             {t} \cup Subtrees[k][t.left] \cup Subtrees[k][t.right]
        /\ Subtrees[(k + 1) + 1][t] = IF t = Nil THEN {} ELSE
             {t} \cup Subtrees[k + 1][t.left] \cup Subtrees[k + 1][t.right]
    BY <2>1, SubtreesParts, (k + 1) - 1 = k, ((k + 1) + 1) - 1 = k + 1
  <2>3. t # Nil => t.left \in Tree[k] /\ t.right \in Tree[k]
    BY TreeParts, (k + 1) - 1 = k
  <2> QED
    BY <1>2, <2>2, <2>3
<1> HIDE DEF S
<1>3. n \in S
  BY <1>1, <1>2, NatSetInduction
<1> QED
  BY <1>3 DEF S

\* The bound on the height does not matter to what is below a node.
LEMMA SubtreesSame ==
  ASSUME NEW n \in Nat, NEW m \in Nat, n <= m, NEW t \in Tree[n]
  PROVE  Subtrees[m][t] = Subtrees[n][t]
<1> DEFINE S == {k \in Nat : n <= k => Subtrees[k][t] = Subtrees[n][t]}
<1>1. 0 \in S
  OBVIOUS
<1>2. ASSUME NEW k \in Nat, k \in S  PROVE k + 1 \in S
  <2>1. CASE n <= k
    <3>1. t \in Tree[k]
      BY <2>1, TreeGrows
    <3>2. Subtrees[k + 1][t] = Subtrees[k][t]
      BY <3>1, SubtreesStep
    <3> QED
      BY <1>2, <2>1, <3>2
  <2>2. CASE ~(n <= k)
    BY <2>2
  <2> QED
    BY <2>1, <2>2
<1> HIDE DEF S
<1>3. m \in S
  BY <1>1, <1>2, NatSetInduction
<1> QED
  BY <1>3 DEF S

\* One call of insert(), where prev are the calls below it.
Called(value, node, prev) ==
  IF node = Nil THEN Node(Nil, value, Nil, 0)
  ELSE LET first == IF value < node.value
                    THEN BalanceLeft(value, [node EXCEPT !.left = prev[@]])
                    ELSE node
           second == IF value > first.value
                     THEN BalanceRight(value, [first EXCEPT !.right = prev[@]])
                     ELSE first
       IN  Measured(second)

\* InsertInto is the function of which Called is one call.
LEMMA InsertIs ==
  ASSUME NEW value
  PROVE  InsertInto(value) =
           [n \in Nat |-> [node \in Tree[n] |->
              Called(value, node, InsertInto(value)[n - 1])]]
<1> DEFINE F(n, prev) == [node \in Tree[n] |-> Called(value, node, prev)]
           Ap(n, g) == g = [k \in 0 .. n |-> F(k, g[k - 1])]
           A(n) == CHOOSE g : Ap(n, g)
           G == [n \in Nat |-> A(n)[n]]
<1> SUFFICES \E g : g = [n \in Nat |-> F(n, g[n - 1])]
  BY DEF InsertInto, Called
<1>1. \A x, y : F(0, x) = F(0, y)
  BY TreeLevels DEF Called
<1> HIDE DEF F
<1>2. \A n \in Nat : \A g : Ap(n, g) => \A k \in 0 .. n : g[k] = F(k, g[k - 1])
  BY Zenon
<1>3. \A n \in Nat : \E g : Ap(n, g)
  <2> DEFINE S == {n \in Nat : \E g : Ap(n, g)}
  <2>1. 0 \in S
    <3> DEFINE h == [k \in 0 .. 0 |-> F(0, 0)]
    <3>1. Ap(0, h)
      BY <1>1
    <3> QED
      BY <3>1
  <2>2. ASSUME NEW n \in Nat, n \in S  PROVE n + 1 \in S
    <3>1. PICK g : Ap(n, g)
      BY <2>2
    <3> DEFINE h == [k \in 0 .. n + 1 |-> IF k <= n THEN g[k] ELSE F(k, g[n])]
    <3>2. ASSUME NEW k \in 0 .. n + 1  PROVE h[k] = F(k, h[k - 1])
      <4>1. CASE k = 0
        BY <1>1, <1>2, <3>1, <4>1
      <4>2. CASE k # 0
        BY <1>2, <3>1, <4>2
      <4> QED
        BY <4>1, <4>2
    <3>3. Ap(n + 1, h)
      BY <3>2
    <3> HIDE DEF h, Ap
    <3> QED
      BY <3>3
  <2> HIDE DEF S
  <2>3. \A n \in Nat : n \in S
    BY <2>1, <2>2, NatSetInduction
  <2> QED
    BY <2>3 DEF S
<1> HIDE DEF Ap
<1>4. \A n \in Nat : Ap(n, A(n))
  BY <1>3, Zenon
<1> HIDE DEF A
<1>5. \A n \in Nat : \A k \in 0 .. n : A(n)[k] = F(k, A(n)[k - 1])
  BY <1>2, <1>4
<1>6. ASSUME NEW n \in Nat, NEW m \in Nat
      PROVE \A k \in Nat : k <= n /\ k <= m => A(n)[k] = A(m)[k]
  <2> DEFINE S == {k \in Nat : k <= n /\ k <= m => A(n)[k] = A(m)[k]}
  <2>1. 0 \in S
    BY <1>1, <1>5
  <2>2. ASSUME NEW k \in Nat, k \in S  PROVE k + 1 \in S
    <3>1. CASE k + 1 <= n /\ k + 1 <= m
      <4>1. A(n)[k] = A(m)[k]
        BY <2>2, <3>1
      <4>2. A(n)[k + 1] = F(k + 1, A(n)[k]) /\ A(m)[k + 1] = F(k + 1, A(m)[k])
        BY <1>5, <3>1, (k + 1) - 1 = k
      <4> QED
        BY <4>1, <4>2
    <3> QED
      BY <3>1
  <2> HIDE DEF S
  <2>3. \A k \in Nat : k \in S
    BY <2>1, <2>2, NatSetInduction
  <2> QED
    BY <2>3 DEF S
<1>7. ASSUME NEW n \in Nat  PROVE G[n] = F(n, G[n - 1])
  <2>1. A(n)[n] = F(n, A(n)[n - 1])
    BY <1>5
  <2>2. CASE n # 0
    BY <1>6, <2>1, <2>2
  <2>3. CASE n = 0
    BY <1>1, <2>1, <2>3
  <2> QED
    BY <2>2, <2>3
<1>8. G = [n \in Nat |-> F(n, G[n - 1])]
  BY <1>7
<1> HIDE DEF G
<1> QED
  BY <1>8

LEMMA InsertParts ==
  ASSUME NEW value, NEW n \in Nat, NEW t \in Tree[n]
  PROVE  InsertInto(value)[n][t] = Called(value, t, InsertInto(value)[n - 1])
<1> DEFINE F(k, prev) == [node \in Tree[k] |-> Called(value, node, prev)]
           into == InsertInto(value)
<1>1. into = [k \in Nat |-> F(k, into[k - 1])]
  BY InsertIs
<1> HIDE DEF F, into
<1>2. into[n] = F(n, into[n - 1])
  BY <1>1
<1> QED
  BY <1>2 DEF F, into

\* A tree that is right at each of its nodes.
Good(t) ==
  /\ t.height + 1 \in Nat /\ t.height \in Int
  /\ t \in Tree[t.height + 1]
  /\ \A s \in Nodes(t) : Placed(s)

LEMMA NilIsGood ==
  Good(Nil) /\ Nil.height = -1 /\ Nodes(Nil) = {} /\ Values(Nil) = {}
<1>1. Nil.height = -1
  BY DEF Nil
<1>2. Nil \in Tree[0]
  BY TreeLevels
<1>3. Subtrees[0][Nil] = {}
  BY <1>2, SubtreesParts
<1>4. Nodes(Nil) = {}
  BY <1>1, <1>3 DEF Nodes
<1> QED
  BY <1>1, <1>2, <1>4 DEF Good, Values

LEMMA SubtreesUp ==
  ASSUME NEW n \in Nat, NEW t \in Tree[n + 1], t # Nil
  PROVE  Subtrees[n + 1][t] = {t} \cup Subtrees[n][t.left] \cup Subtrees[n][t.right]
<1> DEFINE m == n + 1
<1>1. m \in Nat /\ m - 1 = n /\ t \in Tree[m]
  OBVIOUS
<1> HIDE DEF m
<1>2. Subtrees[m][t] = {t} \cup Subtrees[m - 1][t.left] \cup Subtrees[m - 1][t.right]
  BY <1>1, SubtreesParts
<1>3. Subtrees[m][t] = {t} \cup Subtrees[n][t.left] \cup Subtrees[n][t.right]
  BY <1>1, <1>2
<1> QED
  BY <1>3 DEF m

LEMMA HigherIs ==
  ASSUME NEW a, NEW b, a.height \in Int, b.height \in Int
  PROVE  /\ Higher(a, b) \in Int
         /\ Higher(a, b) = IF a.height >= b.height THEN a.height ELSE b.height
BY DEF Higher

\* A tree that is right at each node is lower than its bound, and stays the
\* same below any other bound that is large enough.
LEMMA GoodLow ==
  ASSUME NEW n \in Nat, NEW t \in Tree[n], \A s \in Subtrees[n][t] : Placed(s)
  PROVE  Good(t) /\ t.height < n /\ Nodes(t) = Subtrees[n][t]
<1> DEFINE S == {k \in Nat : \A u \in Tree[k] : (\A s \in Subtrees[k][u] : Placed(s)) =>
                   u.height \in Int /\ u.height + 1 \in Nat /\ u.height < k /\ u \in Tree[u.height + 1]}
<1>1. 0 \in S
  BY NilIsGood, TreeLevels
<1>2. ASSUME NEW k \in Nat, k \in S  PROVE k + 1 \in S
  <2> SUFFICES ASSUME NEW u \in Tree[k + 1], \A s \in Subtrees[k + 1][u] : Placed(s)
               PROVE  u.height \in Int /\ u.height + 1 \in Nat /\ u.height < k + 1 /\ u \in Tree[u.height + 1]
    OBVIOUS
  <2>1. CASE u = Nil
    BY <2>1, NilIsGood, TreeLevels
  <2>2. CASE u # Nil
    <3> DEFINE l == u.left
               r == u.right
               h == u.height
    <3>1. /\ l \in Tree[k] /\ r \in Tree[k] /\ u.value \in Value /\ h \in Int
          /\ u = Node(l, u.value, r, h)
      BY <2>2, TreeParts, (k + 1) - 1 = k, k + 1 \in Nat
    <3>2. Subtrees[k + 1][u] = {u} \cup Subtrees[k][l] \cup Subtrees[k][r]
      BY <2>2, SubtreesUp
    <3>3. /\ l.height \in Int /\ l.height + 1 \in Nat /\ l.height < k /\ l \in Tree[l.height + 1]
          /\ r.height \in Int /\ r.height + 1 \in Nat /\ r.height < k /\ r \in Tree[r.height + 1]
      BY <1>2, <3>1, <3>2
    <3>4. h = Higher(l, r) + 1
      BY <3>2 DEF Placed
    <3>5. h \in Nat /\ h < k + 1 /\ l.height + 1 <= h /\ r.height + 1 <= h
      BY <3>3, <3>4, HigherIs
    <3>6. l \in Tree[h] /\ r \in Tree[h]
      BY <3>3, <3>5, TreeGrows
    <3>7. u \in [left : Tree[h], value : Value, right : Tree[h], height : Int]
      BY <3>1, <3>6 DEF Node
    <3>8. u \in Tree[h + 1]
      BY <3>5, <3>7, TreeLevels
    <3> QED
      BY <3>5, <3>8
  <2> QED
    BY <2>1, <2>2
<1> HIDE DEF S
<1>3. n \in S
  BY <1>1, <1>2, NatSetInduction
<1>4. t.height \in Int /\ t.height + 1 \in Nat /\ t.height < n /\ t \in Tree[t.height + 1]
  BY <1>3 DEF S
<1>5. Subtrees[n][t] = Subtrees[t.height + 1][t]
  BY <1>4, SubtreesSame
<1> QED
  BY <1>4, <1>5 DEF Good, Nodes

LEMMA GoodValues ==
  ASSUME NEW t, Good(t)
  PROVE  Values(t) \subseteq Value
<1> DEFINE S == {k \in Nat : \A u \in Tree[k] : \A s \in Subtrees[k][u] : s.value \in Value}
<1>1. 0 \in S
  BY TreeLevels, SubtreesParts
<1>2. ASSUME NEW k \in Nat, k \in S  PROVE k + 1 \in S
  <2> SUFFICES ASSUME NEW u \in Tree[k + 1], NEW s \in Subtrees[k + 1][u]
               PROVE  s.value \in Value
    OBVIOUS
  <2>1. u # Nil
    BY SubtreesParts, k + 1 \in Nat
  <2>2. u.left \in Tree[k] /\ u.right \in Tree[k] /\ u.value \in Value
    BY <2>1, TreeParts, (k + 1) - 1 = k, k + 1 \in Nat
  <2>3. Subtrees[k + 1][u] = {u} \cup Subtrees[k][u.left] \cup Subtrees[k][u.right]
    BY <2>1, SubtreesUp
  <2> QED
    BY <1>2, <2>2, <2>3
<1> HIDE DEF S
<1>3. t.height + 1 \in S
  BY <1>1, <1>2, NatSetInduction DEF Good
<1> QED
  BY <1>3 DEF S, Good, Values, Nodes

\* A node over two trees that are right, between their values.
LEMMA GoodNode ==
  ASSUME NEW l, NEW v \in Value, NEW r, NEW h, Good(l), Good(r),
         \A x \in Values(l) : x < v, \A x \in Values(r) : x > v,
         h = Higher(l, r) + 1, l.height - r.height \in -1 .. 1
  PROVE  /\ Good(Node(l, v, r, h))
         /\ Values(Node(l, v, r, h)) = Values(l) \cup {v} \cup Values(r)
<1> DEFINE t == Node(l, v, r, h)
<1>1. /\ l.height + 1 \in Nat /\ l \in Tree[l.height + 1] /\ l.height \in Int
      /\ r.height + 1 \in Nat /\ r \in Tree[r.height + 1] /\ r.height \in Int
  BY DEF Good
<1>2. h \in Nat /\ h \in Int /\ h + 1 \in Nat /\ l.height + 1 <= h /\ r.height + 1 <= h
  BY <1>1, HigherIs
<1>3. l \in Tree[h] /\ r \in Tree[h]
  BY <1>1, <1>2, TreeGrows
<1>4. t \in Tree[h + 1]
  <2>1. t \in [left : Tree[h], value : Value, right : Tree[h], height : Int]
    BY <1>2, <1>3 DEF Node
  <2> QED
    BY <1>2, <2>1, TreeLevels
<1>5. t # Nil /\ t.left = l /\ t.right = r /\ t.value = v /\ t.height = h
  BY NodeFields
<1> HIDE DEF t
<1>6. Subtrees[h + 1][t] = {t} \cup Subtrees[h][l] \cup Subtrees[h][r]
  BY <1>2, <1>4, <1>5, SubtreesParts, (h + 1) - 1 = h
<1>7. Subtrees[h][l] = Nodes(l) /\ Subtrees[h][r] = Nodes(r)
  BY <1>1, <1>2, SubtreesSame DEF Nodes
<1>8. Nodes(t) = {t} \cup Nodes(l) \cup Nodes(r)
  BY <1>5, <1>6, <1>7 DEF Nodes
<1>9. Values(t) = Values(l) \cup {v} \cup Values(r)
  BY <1>5, <1>8 DEF Values
<1>10. Placed(t)
  BY <1>5 DEF Placed
<1>11. Good(t)
  BY <1>2, <1>4, <1>5, <1>8, <1>10 DEF Good
<1> QED
  BY <1>9, <1>11 DEF t

\* And the converse.
LEMMA GoodParts ==
  ASSUME NEW t, Good(t), t # Nil
  PROVE  /\ t = Node(t.left, t.value, t.right, t.height)
         /\ Good(t.left) /\ Good(t.right) /\ t.value \in Value
         /\ \A x \in Values(t.left) : x < t.value
         /\ \A x \in Values(t.right) : x > t.value
         /\ t.height = Higher(t.left, t.right) + 1
         /\ t.left.height - t.right.height \in -1 .. 1
         /\ t.height \in Nat
         /\ Values(t) = Values(t.left) \cup {t.value} \cup Values(t.right)
<1> DEFINE n == t.height + 1
<1>1. n \in Nat /\ t.height \in Int /\ t \in Tree[n] /\ \A s \in Subtrees[n][t] : Placed(s)
  BY DEF Good, Nodes
<1>2. n = t.height + 1
  OBVIOUS
<1> HIDE DEF n
<1>3. /\ n # 0 /\ n - 1 \in Nat
      /\ t.left \in Tree[n - 1] /\ t.right \in Tree[n - 1]
      /\ t.value \in Value /\ t = Node(t.left, t.value, t.right, t.height)
  BY <1>1, TreeParts
<1>4. Subtrees[n][t] = {t} \cup Subtrees[n - 1][t.left] \cup Subtrees[n - 1][t.right]
  BY <1>1, SubtreesParts
<1>5. /\ Good(t.left) /\ Nodes(t.left) = Subtrees[n - 1][t.left]
      /\ Good(t.right) /\ Nodes(t.right) = Subtrees[n - 1][t.right]
  <2>1. /\ \A s \in Subtrees[n - 1][t.left] : Placed(s)
        /\ \A s \in Subtrees[n - 1][t.right] : Placed(s)
    BY <1>1, <1>4
  <2> QED
    BY <1>3, <2>1, GoodLow
<1>6. Placed(t)
  BY <1>1, <1>4
<1>7. Nodes(t) = {t} \cup Nodes(t.left) \cup Nodes(t.right)
  BY <1>2, <1>4, <1>5 DEF Nodes
<1>8. Values(t) = Values(t.left) \cup {t.value} \cup Values(t.right)
  BY <1>7 DEF Values
<1>9. t.height \in Nat
  BY <1>1, <1>2, <1>3
<1> QED
  BY <1>3, <1>5, <1>6, <1>8, <1>9 DEF Placed

\* What right() makes of two nodes.
LEMMA RotatesRight ==
  ASSUME NEW a, NEW v1, NEW b, NEW h1, NEW v, NEW r, NEW h
  PROVE  RotateRight(Node(Node(a, v1, b, h1), v, r, h)) =
           Node(a, v1, Node(b, v, r, Higher(b, r) + 1), Higher(a, r) + 1)
<1> DEFINE c == Node(a, v1, b, h1)
           n == Node(c, v, r, h)
           low == Node(b, v, r, h)
<1>1. n.left = c /\ c.left = a /\ c.value = v1 /\ c.right = b /\ low.right = r
  BY NodeFields
<1>2. [n EXCEPT !.left = b] = low
  BY NodeFields
<1>3. Measured(low) = Node(b, v, r, Higher(b, r) + 1)
  BY NodeFields
<1> HIDE DEF c, n, low
<1>4. RotateRight(n) = Node(a, v1, Measured(low), Higher(a, r) + 1)
  BY <1>1, <1>2, Zenon DEF RotateRight
<1> QED
  BY <1>3, <1>4 DEF n, c

\* What left() makes of two nodes.
LEMMA RotatesLeft ==
  ASSUME NEW l, NEW v, NEW a, NEW v1, NEW b, NEW h1, NEW h
  PROVE  RotateLeft(Node(l, v, Node(a, v1, b, h1), h)) =
           Node(Node(l, v, a, Higher(l, a) + 1), v1, b, Higher(Node(l, v, a, h), a) + 1)
<1> DEFINE c == Node(a, v1, b, h1)
           n == Node(l, v, c, h)
           low == Node(l, v, a, h)
<1>1. n.right = c /\ c.left = a /\ c.value = v1 /\ c.right = b /\ low.right = a
  BY NodeFields
<1>2. [n EXCEPT !.right = a] = low
  BY NodeFields
<1>3. Measured(low) = Node(l, v, a, Higher(l, a) + 1)
  BY NodeFields
<1> HIDE DEF c, n, low
<1>4. RotateLeft(n) = Node(Measured(low), v1, b, Higher(low, a) + 1)
  BY <1>1, <1>2, Zenon DEF RotateLeft
<1> QED
  BY <1>3, <1>4 DEF n, c, low

\* What insert() makes of a tree that is right.
Inserted(t, x, u) ==
  /\ Good(u) /\ u # Nil /\ Values(u) = Values(t) \cup {x}
  /\ u.height \in {t.height, t.height + 1}
  /\ x \in Values(t) => u = t
  /\ t # Nil /\ u.height = t.height + 1 =>
       /\ x # u.value
       /\ x < u.value => u.left.height = u.right.height + 1
       /\ x > u.value => u.right.height = u.left.height + 1

LEMMA InsertsNil ==
  ASSUME NEW x \in Value, NEW prev
  PROVE  Inserted(Nil, x, Called(x, Nil, prev))
<1>1. Called(x, Nil, prev) = Node(Nil, x, Nil, 0)
  BY DEF Called
<1>2. Higher(Nil, Nil) + 1 = 0 /\ Nil.height - Nil.height \in -1 .. 1
  BY NilIsGood, HigherIs
<1>3. Good(Node(Nil, x, Nil, 0)) /\ Values(Node(Nil, x, Nil, 0)) = {x}
  BY <1>2, NilIsGood, GoodNode
<1>4. Node(Nil, x, Nil, 0).height = Nil.height + 1 /\ Node(Nil, x, Nil, 0) # Nil
  BY NodeFields, NilIsGood
<1> QED
  BY <1>1, <1>3, <1>4, NilIsGood DEF Inserted

\* The value is at the root.
LEMMA InsertsSame ==
  ASSUME NEW t, Good(t), t # Nil, NEW x \in Value, x = t.value, NEW prev
  PROVE  Inserted(t, x, Called(x, t, prev))
<1>1. x \in Int
  BY ValueAssumption
<1>2. Called(x, t, prev) = Measured(t)
  BY <1>1 DEF Called
<1>3. Measured(t) = t
  BY GoodParts, NodeFields
<1>4. x \in Values(t)
  BY GoodParts
<1> QED
  BY <1>2, <1>3, <1>4, GoodParts DEF Inserted

LEMMA GoodHeight ==
  ASSUME NEW t, Good(t)
  PROVE  /\ t.height \in Int /\ t.height >= -1
         /\ t.height >= 0 => t # Nil
BY NilIsGood DEF Good

LEMMA GoodInts ==
  ASSUME NEW t, Good(t)
  PROVE  Values(t) \subseteq Int
BY GoodValues, ValueAssumption

\* What a double rotation leaves: the trees a to b, with p, m and s between
\* them, under e and f, and these under u.
Joins(a, p, c, m, d, s, b, e, f, u) ==
  /\ Good(a) /\ Good(c) /\ Good(d) /\ Good(b)
  /\ p \in Value /\ m \in Value /\ s \in Value /\ p < m /\ m < s
  /\ \A y \in Values(a) : y < p
  /\ \A y \in Values(c) : y > p /\ y < m
  /\ \A y \in Values(d) : y > m /\ y < s
  /\ \A y \in Values(b) : y > s
  /\ a.height = b.height
  /\ c.height \in {a.height - 1, a.height}
  /\ d.height \in {a.height - 1, a.height}
  /\ e = Node(a, p, c, Higher(a, c) + 1)
  /\ f = Node(d, s, b, Higher(d, b) + 1)
  /\ u = Node(e, m, f, Higher(e, f) + 1)

\* The heights, the order and the values after a double rotation.
LEMMA JoinsFour ==
  ASSUME NEW a, NEW p, NEW c, NEW m, NEW d, NEW s, NEW b, NEW e, NEW f, NEW u,
         Joins(a, p, c, m, d, s, b, e, f, u)
  PROVE  /\ Good(e) /\ e.height = a.height + 1
         /\ Good(f) /\ f.height = a.height + 1
         /\ Good(u) /\ u.height = a.height + 2
         /\ Values(f) = Values(d) \cup {s} \cup Values(b)
         /\ Values(u) = Values(a) \cup {p} \cup Values(c) \cup {m} \cup Values(d) \cup {s} \cup Values(b)
<1>1. /\ a.height \in Int /\ b.height \in Int /\ c.height \in Int /\ d.height \in Int
  BY GoodHeight DEF Joins
<1>2. /\ Values(a) \subseteq Int /\ Values(b) \subseteq Int
      /\ Values(c) \subseteq Int /\ Values(d) \subseteq Int
      /\ p \in Int /\ m \in Int /\ s \in Int
  BY GoodInts, ValueAssumption DEF Joins
<1>3. /\ Higher(a, c) = a.height /\ a.height - c.height \in -1 .. 1
      /\ Higher(d, b) = a.height /\ d.height - b.height \in -1 .. 1
  BY <1>1, HigherIs DEF Joins
<1>4. Good(e) /\ Values(e) = Values(a) \cup {p} \cup Values(c) /\ e.height = a.height + 1
  BY <1>3, GoodNode, NodeFields DEF Joins
<1>5. Good(f) /\ Values(f) = Values(d) \cup {s} \cup Values(b) /\ f.height = a.height + 1
  BY <1>3, GoodNode, NodeFields DEF Joins
<1>6. \A y \in Values(e) : y < m
  BY <1>2, <1>4 DEF Joins
<1>7. \A y \in Values(f) : y > m
  BY <1>2, <1>5 DEF Joins
<1>8. Higher(e, f) = a.height + 1 /\ e.height - f.height \in -1 .. 1
  BY <1>1, <1>4, <1>5, HigherIs
<1>9. Good(u) /\ Values(u) = Values(e) \cup {m} \cup Values(f)
  BY <1>4, <1>5, <1>6, <1>7, <1>8, GoodNode DEF Joins
<1>10. u.height = a.height + 2
  BY <1>1, <1>8, NodeFields DEF Joins
<1> QED
  BY <1>4, <1>5, <1>9, <1>10

\* doubleLeft() and doubleRight() bring the middle one of three nodes up; the
\* height that is stored in it is computed anew at the end of insert().
LEMMA RotatesTwiceLeft ==
  ASSUME NEW l, NEW v, NEW c, NEW m, NEW d, NEW h2, NEW w, NEW b, NEW h1, NEW h
  PROVE  \E g : DoubleLeft(Node(l, v, Node(Node(c, m, d, h2), w, b, h1), h)) =
           Node(Node(l, v, c, Higher(l, c) + 1), m, Node(d, w, b, Higher(d, b) + 1), g)
<1> DEFINE q == Node(Node(c, m, d, h2), w, b, h1)
           n == Node(l, v, q, h)
           f == Node(d, w, b, Higher(d, b) + 1)
           k == Higher(c, b) + 1
<1>1. RotateRight(q) = Node(c, m, f, k)
  BY RotatesRight
<1>2. n.right = q /\ \A y : [n EXCEPT !.right = y] = Node(l, v, y, h)
  BY NodeFields
<1>3. RotateLeft(Node(l, v, Node(c, m, f, k), h)) =
        Node(Node(l, v, c, Higher(l, c) + 1), m, f, Higher(Node(l, v, c, h), c) + 1)
  BY RotatesLeft
<1> HIDE DEF q, n, f, k
<1>4. DoubleLeft(n) = RotateLeft(Node(l, v, Node(c, m, f, k), h))
  BY <1>1, <1>2, Zenon DEF DoubleLeft
<1> QED
  BY <1>3, <1>4 DEF n, q, f

LEMMA RotatesTwiceRight ==
  ASSUME NEW a, NEW w, NEW c, NEW m, NEW d, NEW h2, NEW h1, NEW v, NEW r, NEW h
  PROVE  \E g : DoubleRight(Node(Node(a, w, Node(c, m, d, h2), h1), v, r, h)) =
           Node(Node(a, w, c, Higher(a, c) + 1), m, Node(d, v, r, Higher(d, r) + 1), g)
<1> DEFINE q == Node(a, w, Node(c, m, d, h2), h1)
           n == Node(q, v, r, h)
           e == Node(a, w, c, Higher(a, c) + 1)
           k == Higher(Node(a, w, c, h1), c) + 1
<1>1. RotateLeft(q) = Node(e, m, d, k)
  BY RotatesLeft
<1>2. n.left = q /\ \A y : [n EXCEPT !.left = y] = Node(y, v, r, h)
  BY NodeFields
<1>3. RotateRight(Node(Node(e, m, d, k), v, r, h)) =
        Node(e, m, Node(d, v, r, Higher(d, r) + 1), Higher(e, r) + 1)
  BY RotatesRight
<1> HIDE DEF q, n, e, k
<1>4. DoubleRight(n) = RotateRight(Node(Node(e, m, d, k), v, r, h))
  BY <1>1, <1>2, Zenon DEF DoubleRight
<1> QED
  BY <1>3, <1>4 DEF n, q, e

LEMMA CalledRight ==
  ASSUME NEW l, NEW v \in Int, NEW r, NEW h, NEW x \in Int, x > v, NEW prev
  PROVE  Called(x, Node(l, v, r, h), prev) = Measured(BalanceRight(x, Node(l, v, prev[r], h)))
<1> DEFINE n == Node(l, v, r, h)
<1>1. n # Nil /\ n.value = v /\ n.right = r /\ \A y : [n EXCEPT !.right = y] = Node(l, v, y, h)
  BY NodeFields
<1>2. ~(x < v)
  OBVIOUS
<1> HIDE DEF n
<1>3. Called(x, n, prev) = Measured(BalanceRight(x, [n EXCEPT !.right = prev[n.right]]))
  BY <1>1, <1>2, Zenon DEF Called
<1>4. Called(x, n, prev) = Measured(BalanceRight(x, Node(l, v, prev[r], h)))
  BY <1>1, <1>3, Zenon
<1> QED
  BY <1>4 DEF n

\* What the second of the two tests of insert() does with what the first leaves.
Second(x, first, prev) ==
  IF x > first.value THEN BalanceRight(x, [first EXCEPT !.right = prev[first.right]]) ELSE first

LEMMA CalledLeft ==
  ASSUME NEW l, NEW v \in Int, NEW r, NEW h, NEW x \in Int, x < v, NEW prev
  PROVE  Called(x, Node(l, v, r, h), prev) =
           Measured(Second(x, BalanceLeft(x, Node(prev[l], v, r, h)), prev))
<1> DEFINE n == Node(l, v, r, h)
           first == BalanceLeft(x, Node(prev[l], v, r, h))
<1>1. n # Nil /\ n.value = v /\ n.left = l /\ \A y : [n EXCEPT !.left = y] = Node(y, v, r, h)
  BY NodeFields
<1> HIDE DEF n
<1>2. first = BalanceLeft(x, [n EXCEPT !.left = prev[n.left]])
  BY <1>1, Zenon
<1> HIDE DEF first
<1>3. Called(x, n, prev) = Measured(Second(x, first, prev))
  BY <1>1, <1>2, Zenon DEF Called, Second
<1> QED
  BY <1>3 DEF n, first

LEMMA MeasuredNode ==
  ASSUME NEW l, NEW v, NEW r, NEW h
  PROVE  Measured(Node(l, v, r, h)) = Node(l, v, r, Higher(l, r) + 1)
BY NodeFields

\* A value greater than that of the root: it goes to the right, and the tree is
\* rotated if this side has become too high.  The rotation is the one that the
\* higher side of the right child asks for, as the value has gone there.
LEMMA InsertsRight ==
  ASSUME NEW t, Good(t), t # Nil, NEW x \in Value, x > t.value, NEW prev,
         Inserted(t.right, x, prev[t.right])
  PROVE  Inserted(t, x, Called(x, t, prev))
<1> DEFINE l == t.left
           v == t.value
           r == t.right
           q == prev[r]
           h == t.height
           u == Called(x, t, prev)
           n == Node(l, v, q, h)
<1>1. /\ Good(l) /\ Good(r) /\ v \in Value /\ t = Node(l, v, r, h)
      /\ \A y \in Values(l) : y < v
      /\ \A y \in Values(r) : y > v
      /\ h = Higher(l, r) + 1 /\ l.height - r.height \in -1 .. 1
      /\ Values(t) = Values(l) \cup {v} \cup Values(r)
  BY GoodParts
<1>2. /\ Good(q) /\ q # Nil /\ Values(q) = Values(r) \cup {x}
      /\ q.height \in {r.height, r.height + 1}
      /\ x \in Values(r) => q = r
      /\ r # Nil /\ q.height = r.height + 1 =>
           /\ x # q.value
           /\ x < q.value => q.left.height = q.right.height + 1
           /\ x > q.value => q.right.height = q.left.height + 1
  BY DEF Inserted
<1>3. v \in Int /\ x \in Int /\ x > v
  BY <1>1, ValueAssumption
<1>4. /\ l.height \in Int /\ r.height \in Int /\ q.height \in Int /\ h \in Int /\ l.height >= -1
      /\ r.height >= 0 => r # Nil
  BY <1>1, <1>2, GoodHeight
<1>5. \A y \in Values(q) : y > v
  BY <1>1, <1>2, <1>3
<1>6. x \in Values(t) => q = r
  <2>1. ~(x \in Values(l)) /\ x # v
    BY <1>1, <1>3
  <2> QED
    BY <1>1, <1>2, <2>1
<1>7. u = Measured(BalanceRight(x, n))
  BY <1>1, <1>3, CalledRight
<1>8. /\ n.left = l /\ n.right = q /\ n.value = v
  BY NodeFields
<1>9. Values(t) \cup {x} = Values(l) \cup {v} \cup Values(q)
  BY <1>1, <1>2
<1>10. t # Nil /\ t.height = h
  OBVIOUS
<1> SUFFICES Inserted(t, x, u)
  OBVIOUS
<1> HIDE DEF l, v, r, q, h, u, n
<1>11. CASE q.height - l.height <= 1
  <2>1. u = Node(l, v, q, Higher(l, q) + 1)
    BY <1>7, <1>8, <1>11, MeasuredNode DEF BalanceRight, n
  <2>2. l.height - q.height \in -1 .. 1
    BY <1>1, <1>2, <1>4, <1>11
  <2>3. Good(u) /\ Values(u) = Values(t) \cup {x}
    BY <1>1, <1>2, <1>5, <1>9, <2>1, <2>2, GoodNode
  <2>4. /\ u.left = l /\ u.value = v /\ u.right = q /\ u.height = Higher(l, q) + 1 /\ u # Nil
    BY <2>1, NodeFields
  <2>5. u.height \in {h, h + 1} /\ (u.height = h + 1 => q.height = l.height + 1)
    BY <1>1, <1>2, <1>4, <1>11, <2>4, HigherIs
  <2>6. x \in Values(t) => u = t
    BY <1>1, <1>6, <2>1
  <2> QED
    BY <1>3, <1>10, <2>3, <2>4, <2>5, <2>6 DEF Inserted
<1>12. CASE q.height - l.height > 1
  <2>1. /\ q.height = r.height + 1 /\ r.height = l.height + 1 /\ r.height >= 0 /\ h = l.height + 2
    BY <1>1, <1>2, <1>4, <1>12, HigherIs
  <2>2. r # Nil
    BY <1>4, <2>1
  <2> DEFINE a == q.left
             w == q.value
             b == q.right
             k == q.height
  <2>3. /\ Good(a) /\ Good(b) /\ w \in Value /\ q = Node(a, w, b, k)
        /\ \A y \in Values(a) : y < w
        /\ \A y \in Values(b) : y > w
        /\ k = Higher(a, b) + 1 /\ a.height - b.height \in -1 .. 1
        /\ Values(q) = Values(a) \cup {w} \cup Values(b)
    BY <1>2, GoodParts
  <2>4. /\ x # w
        /\ x < w => a.height = b.height + 1
        /\ x > w => b.height = a.height + 1
    BY <1>2, <2>1, <2>2
  <2>5. ~(x \in Values(t))
    BY <1>4, <1>6, <2>1
  <2>6. n = Node(l, v, Node(a, w, b, k), h)
    BY <2>3 DEF n
  <2>7. k = q.height /\ w = q.value
    OBVIOUS
  <2> HIDE DEF a, w, b, k
  <2>8. /\ a.height \in Int /\ b.height \in Int /\ k \in Int /\ w \in Int
    BY <1>4, <2>3, <2>7, GoodHeight, ValueAssumption
  <2>9. w > v
    BY <1>5, <2>3
  <2>10. CASE x > w
    <3>1. b.height = l.height + 1 /\ a.height = l.height
      BY <1>4, <2>1, <2>3, <2>4, <2>7, <2>8, <2>10, HigherIs
    <3> DEFINE f == Node(l, v, a, Higher(l, a) + 1)
               g == Higher(Node(l, v, a, h), a) + 1
    <3>2. BalanceRight(x, n) = Node(f, w, b, g)
      <4>1. RotateLeft(n) = Node(f, w, b, g)
        BY <2>6, RotatesLeft
      <4>2. BalanceRight(x, n) = RotateLeft(n)
        BY <1>4, <1>8, <1>12, <2>7, <2>8, <2>10 DEF BalanceRight
      <4> QED
        BY <4>1, <4>2
    <3>3. /\ Good(f) /\ Values(f) = Values(l) \cup {v} \cup Values(a) /\ f.height = l.height + 1
      <4>1. Higher(l, a) = l.height /\ l.height - a.height \in -1 .. 1
        BY <1>4, <2>8, <3>1, HigherIs
      <4>2. \A y \in Values(a) : y > v
        BY <1>5, <2>3
      <4> QED
        BY <1>1, <2>3, <4>1, <4>2, GoodNode, NodeFields
    <3> HIDE DEF f, g
    <3>4. u = Node(f, w, b, Higher(f, b) + 1)
      BY <1>7, <3>2, MeasuredNode
    <3>5. Higher(f, b) = l.height + 1 /\ f.height - b.height \in -1 .. 1
      BY <1>4, <3>1, <3>3, HigherIs
    <3>6. \A y \in Values(f) : y < w
      <4>1. Values(l) \subseteq Int
        BY <1>1, GoodInts
      <4> QED
        BY <1>1, <1>3, <2>3, <2>8, <2>9, <3>3, <4>1
    <3>7. Good(u) /\ Values(u) = Values(f) \cup {w} \cup Values(b)
      BY <2>3, <3>3, <3>4, <3>5, <3>6, GoodNode
    <3>8. Values(u) = Values(t) \cup {x}
      BY <1>9, <2>3, <3>3, <3>7
    <3>9. u # Nil /\ u.height = h
      BY <1>4, <2>1, <3>4, <3>5, NodeFields
    <3> QED
      BY <1>4, <1>10, <2>5, <3>7, <3>8, <3>9 DEF Inserted
  <2>11. CASE x < w
    <3>1. b.height = l.height /\ a.height = l.height + 1 /\ a # Nil
      BY <1>4, <2>1, <2>3, <2>4, <2>7, <2>8, <2>11, HigherIs, GoodHeight
    <3> DEFINE c == a.left
               m == a.value
               d == a.right
               j == a.height
               e == Node(l, v, c, Higher(l, c) + 1)
               f == Node(d, w, b, Higher(d, b) + 1)
    <3>2. /\ Good(c) /\ Good(d) /\ m \in Value /\ a = Node(c, m, d, j)
          /\ \A y \in Values(c) : y < m
          /\ \A y \in Values(d) : y > m
          /\ j = Higher(c, d) + 1 /\ c.height - d.height \in -1 .. 1
          /\ Values(a) = Values(c) \cup {m} \cup Values(d)
      BY <2>3, <3>1, GoodParts
    <3>3. j = a.height
      OBVIOUS
    <3>4. PICK g : BalanceRight(x, n) = Node(e, m, f, g)
      <4>1. \E g : DoubleLeft(n) = Node(e, m, f, g)
        <5> HIDE DEF c, m, d, j
        <5> QED
          BY <2>6, <3>2, RotatesTwiceLeft
      <4>2. BalanceRight(x, n) = DoubleLeft(n)
        <5> HIDE DEF c, m, d, j, e, f
        <5> QED
          BY <1>3, <1>4, <1>8, <1>12, <2>7, <2>8, <2>11 DEF BalanceRight
      <4> QED
        BY <4>1, <4>2
    <3> HIDE DEF c, m, d, j
    <3>5. u = Node(e, m, f, Higher(e, f) + 1)
      BY <1>7, <3>4, MeasuredNode
    <3>6. c.height \in {l.height - 1, l.height} /\ d.height \in {l.height - 1, l.height}
      <4>1. c.height \in Int /\ d.height \in Int
        BY <3>2, GoodHeight
      <4> QED
        BY <1>4, <3>1, <3>2, <3>3, <4>1, HigherIs
    <3>7. m \in Values(a) /\ m \in Values(q) /\ m < w /\ m > v /\ m \in Int
      BY <1>5, <2>3, <3>2, ValueAssumption
    <3>8. /\ \A y \in Values(c) : y > v
          /\ \A y \in Values(d) : y < w
      BY <1>5, <2>3, <3>2
    <3>9. /\ Good(u) /\ u.height = l.height + 2
          /\ Values(u) = Values(l) \cup {v} \cup Values(c) \cup {m} \cup Values(d) \cup {w} \cup Values(b)
      <4>1. v < m
        BY <1>3, <3>7
      <4>2. e = Node(l, v, c, Higher(l, c) + 1) /\ f = Node(d, w, b, Higher(d, b) + 1)
        OBVIOUS
      <4> HIDE DEF e, f
      <4>3. Joins(l, v, c, m, d, w, b, e, f, u)
        BY <1>1, <2>3, <3>1, <3>2, <3>5, <3>6, <3>7, <3>8, <4>1, <4>2 DEF Joins
      <4> QED
        BY <4>3, JoinsFour
    <3>10. Values(u) = Values(t) \cup {x}
      BY <1>9, <2>3, <3>2, <3>9
    <3>11. u # Nil
      BY <3>5, NodeFields
    <3> QED
      BY <1>4, <1>10, <2>1, <2>5, <3>9, <3>10, <3>11 DEF Inserted
  <2> QED
    BY <1>3, <2>4, <2>8, <2>10, <2>11
<1> QED
  BY <1>4, <1>11, <1>12

\* A smaller value, likewise.  After a double rotation it may be greater than
\* that of the new root; it is then inserted a second time, into a subtree that
\* holds it and does not change.
LEMMA InsertsLeft ==
  ASSUME NEW t, Good(t), t # Nil, NEW x \in Value, x < t.value, NEW prev,
         \A s : Good(s) /\ s.height < t.height => Inserted(s, x, prev[s])
  PROVE  Inserted(t, x, Called(x, t, prev))
<1> DEFINE l == t.left
           v == t.value
           r == t.right
           q == prev[l]
           h == t.height
           u == Called(x, t, prev)
           n == Node(q, v, r, h)
           first == BalanceLeft(x, n)
<1>1. /\ Good(l) /\ Good(r) /\ v \in Value /\ t = Node(l, v, r, h)
      /\ \A y \in Values(l) : y < v
      /\ \A y \in Values(r) : y > v
      /\ h = Higher(l, r) + 1 /\ l.height - r.height \in -1 .. 1
      /\ Values(t) = Values(l) \cup {v} \cup Values(r)
  BY GoodParts
<1>2. v \in Int /\ x \in Int /\ x < v
  BY <1>1, ValueAssumption
<1>3. /\ l.height \in Int /\ r.height \in Int /\ h \in Int /\ r.height >= -1
      /\ l.height >= 0 => l # Nil
  BY <1>1, GoodHeight
<1>4. l.height < h
  BY <1>1, <1>3, HigherIs
<1>5. /\ Good(q) /\ q # Nil /\ Values(q) = Values(l) \cup {x}
      /\ q.height \in {l.height, l.height + 1}
      /\ x \in Values(l) => q = l
      /\ l # Nil /\ q.height = l.height + 1 =>
           /\ x # q.value
           /\ x < q.value => q.left.height = q.right.height + 1
           /\ x > q.value => q.right.height = q.left.height + 1
  <2>1. Inserted(l, x, q)
    BY <1>1, <1>4
  <2> QED
    BY <2>1 DEF Inserted
<1>6. q.height \in Int
  BY <1>5, GoodHeight
<1>7. \A y \in Values(q) : y < v
  BY <1>1, <1>2, <1>5
<1>8. x \in Values(t) => q = l
  <2>1. ~(x \in Values(r)) /\ x # v
    BY <1>1, <1>2
  <2> QED
    BY <1>1, <1>5, <2>1
<1>9. u = Measured(Second(x, first, prev))
  BY <1>1, <1>2, CalledLeft
<1>10. /\ n.left = q /\ n.right = r /\ n.value = v
  BY NodeFields
<1>11. Values(t) \cup {x} = Values(q) \cup {v} \cup Values(r)
  BY <1>1, <1>5
<1>12. /\ t # Nil /\ t.height = h /\ first = BalanceLeft(x, n)
       /\ \A s : Good(s) /\ s.height < h => Inserted(s, x, prev[s])
  OBVIOUS
<1> SUFFICES Inserted(t, x, u)
  OBVIOUS
<1> HIDE DEF l, v, r, q, h, u, n, first
<1>13. CASE q.height - r.height <= 1
  <2>1. u = Node(q, v, r, Higher(q, r) + 1)
    <3>1. first = n
      BY <1>10, <1>12, <1>13 DEF BalanceLeft
    <3>2. ~(x > first.value)
      BY <1>2, <1>10, <3>1
    <3>3. u = Measured(n)
      BY <1>9, <3>1, <3>2 DEF Second
    <3> QED
      BY <3>3, MeasuredNode DEF n
  <2>2. q.height - r.height \in -1 .. 1
    BY <1>1, <1>3, <1>5, <1>6, <1>13
  <2>3. Good(u) /\ Values(u) = Values(t) \cup {x}
    BY <1>1, <1>5, <1>7, <1>11, <2>1, <2>2, GoodNode
  <2>4. /\ u.left = q /\ u.value = v /\ u.right = r /\ u.height = Higher(q, r) + 1 /\ u # Nil
    BY <2>1, NodeFields
  <2>5. u.height \in {h, h + 1} /\ (u.height = h + 1 => q.height = r.height + 1)
    BY <1>1, <1>3, <1>5, <1>6, <1>13, <2>4, HigherIs
  <2>6. x \in Values(t) => u = t
    BY <1>1, <1>8, <2>1
  <2> QED
    BY <1>2, <1>12, <2>3, <2>4, <2>5, <2>6 DEF Inserted
<1>14. CASE q.height - r.height > 1
  <2>1. /\ q.height = l.height + 1 /\ l.height = r.height + 1 /\ l.height >= 0 /\ h = r.height + 2
    BY <1>1, <1>3, <1>5, <1>6, <1>14, HigherIs
  <2>2. l # Nil
    BY <1>3, <2>1
  <2> DEFINE a == q.left
             w == q.value
             b == q.right
             k == q.height
  <2>3. /\ Good(a) /\ Good(b) /\ w \in Value /\ q = Node(a, w, b, k)
        /\ \A y \in Values(a) : y < w
        /\ \A y \in Values(b) : y > w
        /\ k = Higher(a, b) + 1 /\ a.height - b.height \in -1 .. 1
        /\ Values(q) = Values(a) \cup {w} \cup Values(b)
    BY <1>5, GoodParts
  <2>4. /\ x # w
        /\ x < w => a.height = b.height + 1
        /\ x > w => b.height = a.height + 1
    BY <1>5, <2>1, <2>2
  <2>5. ~(x \in Values(t))
    BY <1>3, <1>8, <2>1
  <2>6. n = Node(Node(a, w, b, k), v, r, h)
    BY <2>3 DEF n
  <2>7. k = q.height /\ w = q.value
    OBVIOUS
  <2> HIDE DEF a, w, b, k
  <2>8. /\ a.height \in Int /\ b.height \in Int /\ k \in Int /\ w \in Int
    BY <1>6, <2>3, <2>7, GoodHeight, ValueAssumption
  <2>9. w < v
    BY <1>7, <2>3
  <2>10. CASE x < w
    <3>1. a.height = r.height + 1 /\ b.height = r.height
      BY <1>3, <2>1, <2>3, <2>4, <2>7, <2>8, <2>10, HigherIs
    <3> DEFINE f == Node(b, v, r, Higher(b, r) + 1)
               g == Higher(a, r) + 1
    <3>2. first = Node(a, w, f, g)
      <4>1. RotateRight(n) = Node(a, w, f, g)
        BY <2>6, RotatesRight
      <4>2. first = RotateRight(n)
        BY <1>3, <1>10, <1>12, <1>14, <2>7, <2>8, <2>10 DEF BalanceLeft
      <4> QED
        BY <4>1, <4>2
    <3>3. /\ Good(f) /\ Values(f) = Values(b) \cup {v} \cup Values(r) /\ f.height = r.height + 1
      <4>1. Higher(b, r) = r.height /\ b.height - r.height \in -1 .. 1
        BY <1>3, <2>8, <3>1, HigherIs
      <4>2. \A y \in Values(b) : y < v
        BY <1>7, <2>3
      <4> QED
        BY <1>1, <2>3, <4>1, <4>2, GoodNode, NodeFields
    <3> HIDE DEF f, g
    <3>4. u = Node(a, w, f, Higher(a, f) + 1)
      <4>1. ~(x > first.value)
        BY <1>2, <2>8, <2>10, <3>2, NodeFields
      <4>2. u = Measured(first)
        BY <1>9, <4>1 DEF Second
      <4> QED
        BY <3>2, <4>2, MeasuredNode
    <3>5. Higher(a, f) = r.height + 1 /\ a.height - f.height \in -1 .. 1
      BY <1>3, <3>1, <3>3, HigherIs
    <3>6. \A y \in Values(f) : y > w
      <4>1. Values(r) \subseteq Int
        BY <1>1, GoodInts
      <4> QED
        BY <1>1, <1>2, <2>3, <2>8, <2>9, <3>3, <4>1
    <3>7. Good(u) /\ Values(u) = Values(a) \cup {w} \cup Values(f)
      BY <2>3, <3>3, <3>4, <3>5, <3>6, GoodNode
    <3>8. Values(u) = Values(t) \cup {x}
      BY <1>11, <2>3, <3>3, <3>7
    <3>9. u # Nil /\ u.height = h
      BY <1>3, <2>1, <3>4, <3>5, NodeFields
    <3> QED
      BY <1>3, <1>12, <2>5, <3>7, <3>8, <3>9 DEF Inserted
  <2>11. CASE x > w
    <3>1. a.height = r.height /\ b.height = r.height + 1 /\ b # Nil
      BY <1>3, <2>1, <2>3, <2>4, <2>7, <2>8, <2>11, HigherIs, GoodHeight
    <3> DEFINE c == b.left
               m == b.value
               d == b.right
               j == b.height
               e == Node(a, w, c, Higher(a, c) + 1)
               f == Node(d, v, r, Higher(d, r) + 1)
    <3>2. /\ Good(c) /\ Good(d) /\ m \in Value /\ b = Node(c, m, d, j)
          /\ \A y \in Values(c) : y < m
          /\ \A y \in Values(d) : y > m
          /\ j = Higher(c, d) + 1 /\ c.height - d.height \in -1 .. 1
          /\ Values(b) = Values(c) \cup {m} \cup Values(d)
      BY <2>3, <3>1, GoodParts
    <3>3. j = b.height
      OBVIOUS
    <3>4. PICK g : first = Node(e, m, f, g)
      <4>1. \E g : DoubleRight(n) = Node(e, m, f, g)
        <5> HIDE DEF c, m, d, j
        <5> QED
          BY <2>6, <3>2, RotatesTwiceRight
      <4>2. first = DoubleRight(n)
        <5> HIDE DEF c, m, d, j, e, f
        <5> QED
          BY <1>2, <1>3, <1>10, <1>12, <1>14, <2>7, <2>8, <2>11 DEF BalanceLeft
      <4> QED
        BY <4>1, <4>2
    <3> HIDE DEF c, m, d, j
    <3> DEFINE z == Node(e, m, f, Higher(e, f) + 1)
    <3>5. c.height \in {r.height - 1, r.height} /\ d.height \in {r.height - 1, r.height}
      <4>1. c.height \in Int /\ d.height \in Int
        BY <3>2, GoodHeight
      <4> QED
        BY <1>3, <3>1, <3>2, <3>3, <4>1, HigherIs
    <3>6. m \in Values(b) /\ m \in Values(q) /\ m > w /\ m < v /\ m \in Int
      BY <1>7, <2>3, <3>2, ValueAssumption
    <3>7. /\ \A y \in Values(c) : y > w
          /\ \A y \in Values(d) : y < v
      BY <1>7, <2>3, <3>2
    <3>8. /\ Good(f) /\ f.height = r.height + 1 /\ e.height = r.height + 1
          /\ Values(f) = Values(d) \cup {v} \cup Values(r)
          /\ Good(z) /\ z.height = r.height + 2
          /\ Values(z) = Values(a) \cup {w} \cup Values(c) \cup {m} \cup Values(d) \cup {v} \cup Values(r)
      <4>1. w < m
        BY <2>8, <3>6
      <4>2. /\ e = Node(a, w, c, Higher(a, c) + 1) /\ f = Node(d, v, r, Higher(d, r) + 1)
            /\ z = Node(e, m, f, Higher(e, f) + 1)
        OBVIOUS
      <4> HIDE DEF e, f, z
      <4>3. Joins(a, w, c, m, d, v, r, e, f, z)
        BY <1>1, <2>3, <3>1, <3>2, <3>5, <3>6, <3>7, <4>1, <4>2 DEF Joins
      <4>4. a.height = r.height
        BY <3>1
      <4> QED
        BY <4>3, <4>4, JoinsFour
    <3> HIDE DEF e, f
    \* The value may be to the right of m, and then the second test inserts it there again.
    <3>9. u = z
      <4>1. first.value = m /\ first.right = f /\ \A y : [first EXCEPT !.right = y] = Node(e, m, y, g)
        BY <3>4, NodeFields
      <4>2. CASE ~(x > m)
        <5>1. u = Measured(first)
          BY <1>9, <4>1, <4>2 DEF Second
        <5> QED
          BY <3>4, <5>1, MeasuredNode
      <4>3. CASE x > m
        <5>1. x \in Values(f)
          <6>1. ~(x \in Values(a)) /\ x # w /\ ~(x \in Values(c)) /\ x # m
            BY <1>2, <2>3, <2>8, <2>11, <3>2, <3>6, <4>3
          <6>2. x \in Values(q)
            BY <1>5
          <6> QED
            BY <2>3, <3>2, <3>8, <6>1, <6>2
        <5>2. f.height < h
          BY <1>3, <2>1, <3>8
        <5>3. prev[f] = f
          BY <1>12, <3>8, <5>1, <5>2 DEF Inserted
        <5> HIDE DEF z
        <5>4. u = Measured(BalanceRight(x, Node(e, m, f, g)))
          BY <1>9, <4>1, <4>3, <5>3 DEF Second
        <5>5. BalanceRight(x, Node(e, m, f, g)) = Node(e, m, f, g)
          <6>1. Node(e, m, f, g).left = e /\ Node(e, m, f, g).right = f
            BY NodeFields
          <6>2. f.height - e.height <= 1
            BY <1>3, <3>8
          <6> QED
            BY <6>1, <6>2 DEF BalanceRight
        <5> QED
          BY <5>4, <5>5, MeasuredNode DEF z
      <4> QED
        BY <4>2, <4>3
    <3>10. u # Nil
      BY <3>9, NodeFields
    <3> HIDE DEF z
    <3>11. Values(u) = Values(t) \cup {x}
      BY <1>11, <2>3, <3>2, <3>8, <3>9
    <3> QED
      BY <1>3, <1>12, <2>1, <2>5, <3>8, <3>9, <3>10, <3>11 DEF Inserted
  <2> QED
    BY <1>2, <2>4, <2>8, <2>10, <2>11
<1> QED
  BY <1>3, <1>6, <1>13, <1>14

\* insert() of any value into any tree that is right, by induction over its height.
LEMMA InsertsInto ==
  ASSUME NEW t, Good(t), NEW x \in Value
  PROVE  Inserted(t, x, InsertInto(x)[t.height + 1][t])
<1> DEFINE into == InsertInto(x)
           S == {k \in Nat : \A u : Good(u) /\ u.height < k => Inserted(u, x, into[k][u])}
<1>1. 0 \in S
  <2> SUFFICES ASSUME NEW u, Good(u), u.height < 0
               PROVE  Inserted(u, x, into[0][u])
    OBVIOUS
  <2>1. u = Nil
    BY GoodParts, GoodHeight
  <2>2. into[0][u] = Called(x, u, into[0 - 1])
    <3>1. u \in Tree[0]
      BY <2>1, TreeLevels
    <3> QED
      BY <3>1, InsertParts
  <2> QED
    BY <2>1, <2>2, InsertsNil
<1>2. ASSUME NEW k \in Nat, k \in S  PROVE k + 1 \in S
  <2> SUFFICES ASSUME NEW u, Good(u), u.height < k + 1
               PROVE  Inserted(u, x, into[k + 1][u])
    OBVIOUS
  <2>1. into[k + 1][u] = Called(x, u, into[k])
    <3> DEFINE m == k + 1
    <3>1. m \in Nat /\ m - 1 = k /\ u.height + 1 \in Nat /\ u.height + 1 <= m /\ u \in Tree[u.height + 1]
      BY DEF Good
    <3> HIDE DEF m
    <3>2. u \in Tree[m]
      BY <3>1, TreeGrows
    <3>3. into[m][u] = Called(x, u, into[m - 1])
      BY <3>1, <3>2, InsertParts
    <3>4. into[m][u] = Called(x, u, into[k])
      BY <3>1, <3>3
    <3> QED
      BY <3>4 DEF m
  <2>2. \A s : Good(s) /\ s.height < k => Inserted(s, x, into[k][s])
    BY <1>2
  <2> HIDE DEF into, S
  <2>3. CASE u = Nil
    BY <2>1, <2>3, InsertsNil
  <2>4. CASE u # Nil
    <3>1. u.value \in Int /\ x \in Int
      BY <2>4, GoodParts, ValueAssumption
    <3>2. u.height \in Int /\ u.height < k + 1
      BY GoodHeight
    <3>3. \A s : Good(s) /\ s.height < u.height => Inserted(s, x, into[k][s])
      BY <2>2, <3>2, GoodHeight
    <3>4. Good(u.right) /\ u.right.height < u.height
      <4>1. Good(u.left) /\ Good(u.right) /\ u.height = Higher(u.left, u.right) + 1
        BY <2>4, GoodParts
      <4>2. u.left.height \in Int /\ u.right.height \in Int
        BY <4>1, GoodHeight
      <4> QED
        BY <4>1, <4>2, HigherIs
    <3>5. CASE x = u.value
      BY <2>1, <2>4, <3>5, InsertsSame
    <3>6. CASE x < u.value
      BY <2>1, <2>4, <3>3, <3>6, InsertsLeft
    <3>7. CASE x > u.value
      BY <2>1, <2>4, <3>3, <3>4, <3>7, InsertsRight
    <3> QED
      BY <3>1, <3>5, <3>6, <3>7
  <2> QED
    BY <2>3, <2>4
<1> HIDE DEF S
<1>3. t.height + 1 \in S
  BY <1>1, <1>2, NatSetInduction DEF Good
<1>4. t.height < t.height + 1
  BY GoodHeight
<1> QED
  BY <1>3, <1>4 DEF S

\* The inductive invariant: the tree is right at each of its nodes.
TreeInv == Good(root) /\ Values(root) = inserted

LEMMA TreeInvInit == AvlInit => TreeInv
BY NilIsGood DEF AvlInit, TreeInv

LEMMA TreeInvNext == TreeInv /\ [AvlNext]_avlVars => TreeInv'
<1> SUFFICES ASSUME TreeInv, [AvlNext]_avlVars
             PROVE  TreeInv'
  OBVIOUS
<1>1. ASSUME NEW value \in Value, Insert(value)
      PROVE  TreeInv'
  <2>1. Inserted(root, value, root')
    BY <1>1, InsertsInto DEF TreeInv, Insert
  <2> QED
    BY <1>1, <2>1 DEF TreeInv, Insert, Inserted
<1>2. CASE UNCHANGED avlVars
  BY <1>2 DEF TreeInv, avlVars, Good, Values, Nodes, Placed
<1> QED
  BY <1>1, <1>2 DEF AvlNext

\* For every set of integers, inserted in any order and any number of times:
\* the tree holds what has been inserted, ordered and balanced at each node, and
\* no stored height is stale.
THEOREM TreeStaysRight == AvlSpec => []AvlRight
<1>1. TreeInv => AvlRight
  BY DEF TreeInv, AvlRight, Good
<1> QED
  BY <1>1, TreeInvInit, TreeInvNext, PTL DEF AvlSpec
=============================================================================
