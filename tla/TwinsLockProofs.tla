-------------------------- MODULE TwinsLockProofs ---------------------------
(***************************************************************************)
(* Proofs about TwinsLock, for any number of permits and any finite set of *)
(* threads.                                                                *)
(***************************************************************************)
EXTENDS TwinsLock, ListLemmas, FiniteSetTheorems, TLAPS

-----------------------------------------------------------------------------
(* The queue.                                                              *)

\* A new thread comes last.
LEMMA EnqueueEffect ==
  ASSUME QueueOK, NEW t \in Thread, ~Queued(t), Enqueue(t)
  PROVE  /\ QueueOK'
         /\ ToSet(queue)' = ToSet(queue) \cup {t}
         /\ \A u \in Thread : First(u) => First(u)'
         /\ queue # << >> => Head(queue') = Head(queue)
         /\ queue = << >> => Head(queue') = t
         /\ queue' # << >>
<1>1. /\ queue \in Seq(Thread) /\ t \notin ToSet(queue) /\ woken \subseteq ToSet(queue)
      /\ \A i, k \in 1 .. Len(queue) : queue[i] = queue[k] => i = k
      /\ queue' = Append(queue, t) /\ woken' = woken \cup {t}
  BY DEF QueueOK, Queued, Enqueue
<1>2. ToSet(Append(queue, t)) = ToSet(queue) \cup {t}
  BY <1>1, AppendElements
<1>3. \A i, k \in 1 .. Len(Append(queue, t)) :
        Append(queue, t)[i] = Append(queue, t)[k] => i = k
  BY <1>1, AppendDistinct, Zenon
<1>4. /\ queue # << >> => Head(Append(queue, t)) = Head(queue)
      /\ queue = << >> => Head(Append(queue, t)) = t
      /\ Append(queue, t) # << >> /\ Append(queue, t) \in Seq(Thread)
  BY <1>1
<1> QED
  BY <1>1, <1>2, <1>3, <1>4 DEF QueueOK, First

\* The first thread leaves; the next one may be woken.
LEMMA DequeueEffect ==
  ASSUME QueueOK, NEW t \in Thread, NEW propagate, Dequeue(t, propagate)
  PROVE  /\ QueueOK'
         /\ ToSet(queue)' = ToSet(queue) \ {t}
         /\ propagate /\ queue' # << >> => Head(queue') \in woken'
<1>1. /\ queue \in Seq(Thread) /\ queue # << >> /\ t = Head(queue)
      /\ \A i, k \in 1 .. Len(queue) : queue[i] = queue[k] => i = k
      /\ woken \subseteq ToSet(queue) /\ queue' = Tail(queue)
      /\ woken' = IF propagate THEN Wake(Tail(queue), woken \ {t}) ELSE woken \ {t}
  BY DEF QueueOK, Dequeue, First
<1>2. /\ ToSet(Tail(queue)) = ToSet(queue) \ {t}
      /\ \A i, k \in 1 .. Len(Tail(queue)) : Tail(queue)[i] = Tail(queue)[k] => i = k
  BY <1>1, TailElements
<1>3. Tail(queue) \in Seq(Thread)
  BY <1>1
<1>4. Tail(queue) # << >> => Head(Tail(queue)) \in ToSet(Tail(queue))
  BY <1>2, <1>3, TailElements
<1> QED
  BY <1>1, <1>2, <1>3, <1>4 DEF QueueOK, Wake

\* Another thread leaves: if it was the first, the next one is woken.
LEMMA CancelEffect ==
  ASSUME QueueOK, NEW t \in Thread, Cancel(t)
  PROVE  /\ QueueOK'
         /\ ToSet(queue)' = ToSet(queue) \ {t}
         /\ \A u \in Thread \ {t} : First(u) => First(u)'
         /\ queue' # << >> =>
              \/ Head(queue') \in woken'
              \/ Head(queue') = Head(queue) /\ queue # << >> /\ Head(queue) # t
         /\ \A u \in woken : u # t => u \in woken'
<1>1. /\ queue \in Seq(Thread) /\ woken \subseteq ToSet(queue)
      /\ \A n, k \in 1 .. Len(queue) : queue[n] = queue[k] => n = k
  BY DEF QueueOK
<1>2. PICK i \in 1 .. Len(queue) :
        /\ queue[i] = t /\ queue' = RemoveAt(queue, i)
        /\ woken' = IF i = 1 THEN Wake(Tail(queue), woken \ {t}) ELSE woken \ {t}
  BY DEF Cancel
<1>3. /\ ToSet(RemoveAt(queue, i)) = ToSet(queue) \ {t}
      /\ \A n, k \in 1 .. Len(RemoveAt(queue, i)) :
           RemoveAt(queue, i)[n] = RemoveAt(queue, i)[k] => n = k
  BY <1>1, <1>2, RemoveAtDistinct
<1>4. /\ RemoveAt(queue, i) \in Seq(Thread)
      /\ Len(RemoveAt(queue, i)) = Len(queue) - 1
      /\ \A k \in 1 .. (Len(queue) - 1) :
           RemoveAt(queue, i)[k] = IF k < i THEN queue[k] ELSE queue[k + 1]
  BY <1>1, RemoveAtList
<1>5. queue # << >> /\ Len(queue) \in Nat /\ Head(queue) = queue[1]
  BY <1>1, <1>2
<1>6. CASE i = 1
  <2>1. /\ Len(Tail(queue)) = Len(queue) - 1 /\ Tail(queue) \in Seq(Thread)
        /\ \A k \in 1 .. (Len(queue) - 1) : Tail(queue)[k] = queue[k + 1]
    BY <1>1, <1>5
  <2>2. \A k \in 1 .. (Len(queue) - 1) : RemoveAt(queue, i)[k] = Tail(queue)[k]
    BY <1>4, <1>5, <1>6, <2>1
  <2>3. RemoveAt(queue, i) = Tail(queue)
    BY <1>4, <1>5, <2>1, <2>2, SeqEqual
  <2>4. queue' # << >> => Head(queue') \in ToSet(queue')
    BY <1>2, <1>3, <1>4, TailElements
  <2>5. /\ queue' = Tail(queue) /\ woken' = Wake(Tail(queue), woken \ {t})
        /\ Head(queue) = t
    BY <1>2, <1>5, <1>6, <2>3
  <2> QED
    BY <1>1, <1>2, <1>3, <1>4, <2>4, <2>5 DEF QueueOK, First, Wake
<1>7. CASE i # 1
  <2>1. RemoveAt(queue, i) # << >> /\ Head(RemoveAt(queue, i)) = queue[1]
    BY <1>4, <1>5, <1>7
  <2>2. queue[1] # t
    BY <1>1, <1>2, <1>5, <1>7
  <2>3. queue' = RemoveAt(queue, i) /\ woken' = woken \ {t}
    BY <1>2, <1>7
  <2> QED
    BY <1>1, <1>3, <1>4, <1>5, <2>1, <2>2, <2>3 DEF QueueOK, First
<1> QED
  BY <1>6, <1>7

-----------------------------------------------------------------------------
(* Types and permits.                                                      *)

\* A thread compares and sets only a state from which a permit can be taken.
TakesOne == \A t \in Thread : pc[t] = "taking" => seen[t] > 0

Inv == TypeOK /\ PermitsConserved /\ TakesOne

LEMMA HoldersFinite ==
  /\ IsFiniteSet(Holders) /\ Cardinality(Holders) \in Nat
  /\ Cardinality(Holders)' \in Nat /\ Cardinality(Holders') \in Nat
<1>1. Holders \subseteq Thread /\ Holders' \subseteq Thread
  BY DEF Holders
<1> QED
  BY <1>1, ThreadAssumption, FS_Subset, FS_CardinalityType

\* A thread more among the holders, one less, or the same ones.
LEMMA HoldersChange ==
  /\ \A t : t \notin Holders /\ Holders' = Holders \cup {t} =>
       Cardinality(Holders') = Cardinality(Holders) + 1
  /\ \A t \in Holders : Holders' = Holders \ {t} =>
       Cardinality(Holders') = Cardinality(Holders) - 1
  /\ \A t \in Holders : Cardinality(Holders) > 0
<1>1. \A t \in Holders : Cardinality(Holders) > 0
  BY HoldersFinite, FS_EmptySet
<1> QED
  BY <1>1, HoldersFinite, FS_RemoveElement, FS_AddElement

LEMMA InitInv == Init => Inv
<1> SUFFICES ASSUME Init PROVE Inv
  OBVIOUS
<1>1. Holders = {} /\ Cardinality({}) = 0
  BY FS_EmptySet DEF Init, Holders
<1>2. ToSet(queue) = {} /\ QueueOK
  BY DEF Init, QueueOK, ToSet
<1>3. TypeOK
  BY <1>2, PermitsAssumption DEF Init, TypeOK, Queued
<1>4. PermitsConserved
  BY <1>1, PermitsAssumption DEF Init, PermitsConserved
<1> QED
  BY <1>3, <1>4 DEF Inv, Init, TakesOne

\* A step of one thread that leaves the queue alone keeps every type, if the
\* thread gets a label that fits its place in the queue and its method.
LEMMA LabelTypes ==
  ASSUME TypeOK, NEW t \in Thread, UNCHANGED queue, woken' \subseteq ToSet(queue),
         state' \in 0 .. Permits, lost' \in 0 .. Permits,
         NEW label, NEW m \in Method \cup {"none"}, NEW n \in 0 .. Permits,
         pc' = [pc EXCEPT ![t] = label], method' = [method EXCEPT ![t] = m],
         seen' = [seen EXCEPT ![t] = n],
         label \in {"idle", "reading", "taking", "entering", "parked", "heading",
                    "holding", "again", "giving", "signalling"},
         label = "idle" <=> m = "none",
         label \in {"parked", "heading"} => Queued(t),
         Queued(t) => label \in {"parked", "heading", "reading", "taking"},
         Queued(t) /\ label # "parked" => First(t),
         label = "heading" => First(t)
  PROVE  TypeOK'
<1>1. QueueOK'
  BY DEF TypeOK, QueueOK
<1>2. \A u \in Thread : (Queued(u)' <=> Queued(u)) /\ (First(u)' <=> First(u))
  BY DEF Queued, First
<1>3. /\ pc' \in [Thread -> {"idle", "reading", "taking", "entering", "parked",
                             "heading", "holding", "again", "giving", "signalling"}]
      /\ method' \in [Thread -> Method \cup {"none"}]
      /\ seen' \in [Thread -> 0 .. Permits]
  BY DEF TypeOK
<1>4. \A u \in Thread :
        /\ pc'[u] = "idle" <=> method'[u] = "none"
        /\ pc'[u] \in {"parked", "heading"} => Queued(u)
        /\ Queued(u) /\ pc'[u] \notin {"parked", "heading"} =>
             First(u) /\ pc'[u] \in {"reading", "taking"}
        /\ pc'[u] = "heading" => First(u)
  BY DEF TypeOK
<1> QED
  BY <1>1, <1>2, <1>3, <1>4 DEF TypeOK

LEMMA StepTypes == Inv /\ [Next]_vars => TypeOK'
<1> SUFFICES ASSUME Inv, [Next]_vars PROVE TypeOK'
  OBVIOUS
<1>1. /\ TypeOK /\ Permits \in Nat \ {0} /\ state \in 0 .. Permits
      /\ lost \in 0 .. Permits /\ woken \subseteq ToSet(queue)
      /\ seen \in [Thread -> 0 .. Permits]
      /\ pc \in [Thread -> {"idle", "reading", "taking", "entering", "parked",
                            "heading", "holding", "again", "giving", "signalling"}]
      /\ method \in [Thread -> Method \cup {"none"}] /\ "none" \notin Method
      /\ \A t \in Thread :
           /\ pc[t] = "idle" <=> method[t] = "none"
           /\ pc[t] \in {"parked", "heading"} => Queued(t)
           /\ Queued(t) /\ pc[t] \notin {"parked", "heading"} =>
                First(t) /\ pc[t] \in {"reading", "taking"}
           /\ pc[t] = "heading" => First(t)
           /\ pc[t] = "taking" => seen[t] > 0
  BY PermitsAssumption, MethodAssumption DEF Inv, TypeOK, QueueOK, TakesOne
<1>2. state + Cardinality(Holders) + lost = Permits
  BY DEF Inv, PermitsConserved
<1>3. /\ \A t \in Thread : pc' = pc => pc' = [pc EXCEPT ![t] = pc[t]]
      /\ \A t \in Thread : method' = method => method' = [method EXCEPT ![t] = method[t]]
      /\ \A t \in Thread : seen' = seen => seen' = [seen EXCEPT ![t] = seen[t]]
  BY <1>1
<1>4. ASSUME NEW t \in Thread, NEW m \in Method, Call(t, m) PROVE TypeOK'
  BY <1>1, <1>3, <1>4, LabelTypes DEF Call, Goto
<1>5. ASSUME NEW t \in Thread, ReadState(t) PROVE TypeOK'
  <2>0. /\ seen' = [seen EXCEPT ![t] = state] /\ pc[t] = "reading"
        /\ UNCHANGED <<queue, woken, state, lost>>
        /\ IF state - 1 < 0 THEN Fail(t)
           ELSE pc' = [pc EXCEPT ![t] = "taking"] /\ UNCHANGED method
    BY <1>5 DEF ReadState, Goto
  <2>1. CASE state - 1 < 0 /\ Queued(t)
    <3>1. pc' = [pc EXCEPT ![t] = "parked"] /\ method' = [method EXCEPT ![t] = method[t]]
      BY <1>3, <2>0, <2>1 DEF Fail, Goto
    <3> QED
      BY <1>1, <2>0, <2>1, <3>1, LabelTypes
  <2>2. CASE state - 1 < 0 /\ ~Queued(t) /\ method[t] = "tryLock"
    <3>1. pc' = [pc EXCEPT ![t] = "idle"] /\ method' = [method EXCEPT ![t] = "none"]
      BY <2>0, <2>2 DEF Fail, Goto
    <3> QED
      BY <1>1, <2>0, <2>2, <3>1, LabelTypes
  <2>3. CASE state - 1 < 0 /\ ~Queued(t) /\ method[t] # "tryLock"
    <3>1. pc' = [pc EXCEPT ![t] = "entering"]
          /\ method' = [method EXCEPT ![t] = method[t]]
      BY <1>3, <2>0, <2>3 DEF Fail, Goto
    <3> QED
      BY <1>1, <2>0, <2>3, <3>1, LabelTypes
  <2>4. CASE ~(state - 1 < 0)
    <3>1. pc' = [pc EXCEPT ![t] = "taking"] /\ method' = [method EXCEPT ![t] = method[t]]
      BY <1>3, <2>0, <2>4
    <3> QED
      BY <1>1, <2>0, <3>1, LabelTypes
  <2> QED
    BY <2>1, <2>2, <2>3, <2>4
<1>6. ASSUME NEW t \in Thread, CompareAndTake(t) PROVE TypeOK'
  <2>1. CASE state # seen[t]
    BY <1>1, <1>3, <1>6, <2>1, LabelTypes DEF CompareAndTake, Goto
  <2>2. CASE state = seen[t]
    <3>1. /\ state \in 1 .. Permits /\ state' = state - 1 /\ state' \in 0 .. Permits
          /\ seen' = [seen EXCEPT ![t] = seen[t] - 1] /\ seen[t] - 1 \in 0 .. Permits
          /\ UNCHANGED <<queue, woken>> /\ Acquired(t, seen[t] - 1) /\ pc[t] = "taking"
      BY <1>1, <1>6, <2>2 DEF CompareAndTake
    <3>2. lost + 1 \in 0 .. Permits
      BY <1>1, <1>2, <3>1, HoldersFinite
    <3>3. CASE Queued(t)
      <4>1. /\ pc' = [pc EXCEPT ![t] = "heading"] /\ lost' = lost
            /\ method' = [method EXCEPT ![t] = method[t]]
        BY <1>3, <3>1, <3>3 DEF Acquired, Goto
      <4> QED
        BY <1>1, <3>1, <3>3, <4>1, LabelTypes
    <3>4. CASE ~Queued(t) /\ method[t] = "tryLock" /\ ~(seen[t] - 1 > 0)
      <4>1. /\ pc' = [pc EXCEPT ![t] = "idle"] /\ lost' = lost + 1
            /\ method' = [method EXCEPT ![t] = "none"]
        BY <3>1, <3>4 DEF Acquired, Goto
      <4> QED
        BY <1>1, <3>1, <3>2, <3>4, <4>1, LabelTypes
    <3>5. CASE ~Queued(t) /\ ~(method[t] = "tryLock" /\ ~(seen[t] - 1 > 0))
      <4>1. /\ pc' = [pc EXCEPT ![t] = "holding"] /\ lost' = lost
            /\ method' = [method EXCEPT ![t] = method[t]]
        BY <1>3, <3>1, <3>5 DEF Acquired, Goto
      <4> QED
        BY <1>1, <3>1, <3>5, <4>1, LabelTypes
    <3> QED
      BY <3>3, <3>4, <3>5
  <2> QED
    BY <2>1, <2>2
<1>7. ASSUME NEW t \in Thread, Enter(t) PROVE TypeOK'
  <2>1. ~Queued(t) /\ Enqueue(t) /\ QueueOK
    BY <1>1, <1>7 DEF Enter, TypeOK
  <2>2. /\ QueueOK' /\ \A u \in Thread : First(u) => First(u)'
        /\ ToSet(queue)' = ToSet(queue) \cup {t}
    BY <2>1, EnqueueEffect
  <2>3. \A u \in Thread : Queued(u)' <=> Queued(u) \/ u = t
    BY <2>2 DEF Queued
  <2>4. /\ pc' = [pc EXCEPT ![t] = "parked"] /\ pc[t] = "entering"
        /\ UNCHANGED <<state, method, seen, lost>>
    BY <1>7 DEF Enter, Goto
  <2>5. \A u \in Thread :
          /\ pc'[u] = "idle" <=> method'[u] = "none"
          /\ pc'[u] \in {"parked", "heading"} => Queued(u)'
          /\ Queued(u)' /\ pc'[u] \notin {"parked", "heading"} =>
               First(u)' /\ pc'[u] \in {"reading", "taking"}
          /\ pc'[u] = "heading" => First(u)'
    BY <1>1, <2>2, <2>3, <2>4
  <2> QED
    BY <1>1, <2>2, <2>4, <2>5 DEF TypeOK
<1>8. ASSUME NEW t \in Thread, Retry(t) PROVE TypeOK'
  <2>0. /\ woken' \subseteq ToSet(queue) /\ pc[t] = "parked" /\ Queued(t)
        /\ method' = [method EXCEPT ![t] = method[t]]
        /\ seen' = [seen EXCEPT ![t] = seen[t]]
        /\ UNCHANGED <<queue, state, lost>>
    BY <1>1, <1>3, <1>8 DEF Retry
  <2>1. CASE First(t)
    <3>1. pc' = [pc EXCEPT ![t] = "reading"]
      BY <1>8, <2>1 DEF Retry, Goto
    <3> QED
      BY <1>1, <2>0, <2>1, <3>1, LabelTypes
  <2>2. CASE ~First(t)
    <3>1. pc' = [pc EXCEPT ![t] = "parked"]
      BY <1>3, <1>8, <2>0, <2>2 DEF Retry
    <3> QED
      BY <1>1, <2>0, <3>1, LabelTypes
  <2> QED
    BY <2>1, <2>2
<1>9. ASSUME NEW t \in Thread, LeaveQueue(t) PROVE TypeOK'
  <2>1. QueueOK /\ First(t) /\ Dequeue(t, seen[t] > 0 \/ t \in woken)
    BY <1>1, <1>9 DEF LeaveQueue, TypeOK, Dequeue
  <2>2. QueueOK' /\ ToSet(queue)' = ToSet(queue) \ {t}
    BY <2>1, DequeueEffect
  <2>3. /\ \A u \in Thread : Queued(u)' <=> Queued(u) /\ u # t
        /\ \A u \in Thread : First(u) => u = t
    BY <2>1, <2>2 DEF Queued, First
  <2>4. /\ pc' = [pc EXCEPT ![t] = "holding"] /\ pc[t] = "heading"
        /\ UNCHANGED <<state, method, seen, lost>>
    BY <1>9 DEF LeaveQueue, Goto
  <2>5. \A u \in Thread :
          /\ pc'[u] = "idle" <=> method'[u] = "none"
          /\ pc'[u] \in {"parked", "heading"} => Queued(u)'
          /\ Queued(u)' /\ pc'[u] \notin {"parked", "heading"} =>
               First(u)' /\ pc'[u] \in {"reading", "taking"}
          /\ pc'[u] = "heading" => First(u)'
    BY <1>1, <2>3, <2>4
  <2> QED
    BY <1>1, <2>2, <2>4, <2>5 DEF TypeOK
<1>10. ASSUME NEW t \in Thread, GiveUp(t) PROVE TypeOK'
  <2>1. QueueOK /\ Cancel(t)
    BY <1>1, <1>10 DEF GiveUp, TypeOK
  <2>2. /\ QueueOK' /\ ToSet(queue)' = ToSet(queue) \ {t}
        /\ \A u \in Thread \ {t} : First(u) => First(u)'
    BY <2>1, CancelEffect
  <2>3. \A u \in Thread : Queued(u)' <=> Queued(u) /\ u # t
    BY <2>2 DEF Queued
  <2>4. /\ pc' = [pc EXCEPT ![t] = "idle"] /\ pc[t] = "parked"
        /\ method' = [method EXCEPT ![t] = "none"]
        /\ UNCHANGED <<state, seen, lost>>
    BY <1>10 DEF GiveUp, Goto
  <2>5. \A u \in Thread :
          /\ pc'[u] = "idle" <=> method'[u] = "none"
          /\ pc'[u] \in {"parked", "heading"} => Queued(u)'
          /\ Queued(u)' /\ pc'[u] \notin {"parked", "heading"} =>
               First(u)' /\ pc'[u] \in {"reading", "taking"}
          /\ pc'[u] = "heading" => First(u)'
    BY <1>1, <2>2, <2>3, <2>4
  <2> QED
    BY <1>1, <2>2, <2>4, <2>5 DEF TypeOK
<1>11. ASSUME NEW t \in Thread, Unlock(t) PROVE TypeOK'
  BY <1>1, <1>3, <1>11, LabelTypes DEF Unlock, Goto
<1>12. ASSUME NEW t \in Thread, CompareAndGive(t) PROVE TypeOK'
  <2>1. CASE state # seen[t]
    BY <1>1, <1>3, <1>12, <2>1, LabelTypes DEF CompareAndGive, Goto
  <2>2. CASE state = seen[t]
    <3>1. t \in Holders
      BY <1>12 DEF CompareAndGive, Holders
    <3>2. state + 1 \in 0 .. Permits
      BY <1>1, <1>2, <3>1, HoldersFinite, HoldersChange
    <3> QED
      BY <1>1, <1>3, <1>12, <2>2, <3>2, LabelTypes, SMTT(30)
      DEF CompareAndGive, Goto
  <2> QED
    BY <2>1, <2>2
<1>13. ASSUME NEW t \in Thread, Signal(t) PROVE TypeOK'
  <2>1. /\ woken' = Wake(queue, woken) /\ pc[t] = "signalling"
        /\ pc' = [pc EXCEPT ![t] = "idle"]
        /\ method' = [method EXCEPT ![t] = "none"]
        /\ seen' = [seen EXCEPT ![t] = seen[t]]
        /\ UNCHANGED <<queue, state, lost>>
    BY <1>3, <1>13 DEF Signal, Goto
  <2>2. queue # << >> => Head(queue) \in ToSet(queue)
    BY <1>1, TailElements DEF TypeOK, QueueOK
  <2>3. woken' \subseteq ToSet(queue)
    BY <1>1, <2>1, <2>2 DEF Wake
  <2>4. ~Queued(t)
    BY <1>1, <2>1
  <2> QED
    BY <1>1, <2>1, <2>3, <2>4, LabelTypes
<1>14. CASE UNCHANGED vars
  BY <1>1, <1>14 DEF vars, TypeOK, QueueOK, Queued, First
<1> QED
  BY <1>4, <1>5, <1>6, <1>7, <1>8, <1>9, <1>10, <1>11, <1>12, <1>13, <1>14
  DEF Next, Proceed

\* A step either leaves the permits alone, or one thread takes or gives one.
LEMMA StepPermits ==
  Inv /\ [Next]_vars =>
    /\ PermitsConserved' /\ TakesOne'
    /\ \/ Holders' = Holders /\ lost' = lost
       \/ Holders' = Holders /\ lost' = lost + 1 /\ state > 0
       \/ /\ lost' = lost
          /\ \E t \in Thread : \/ t \notin Holders /\ Holders' = Holders \cup {t}
                                  /\ state > 0
                               \/ t \in Holders /\ Holders' = Holders \ {t}
<1> SUFFICES ASSUME Inv, [Next]_vars
             PROVE  /\ PermitsConserved' /\ TakesOne'
                    /\ \/ Holders' = Holders /\ lost' = lost
                       \/ Holders' = Holders /\ lost' = lost + 1 /\ state > 0
                       \/ /\ lost' = lost
                          /\ \E t \in Thread :
                               \/ t \notin Holders /\ Holders' = Holders \cup {t}
                                  /\ state > 0
                               \/ t \in Holders /\ Holders' = Holders \ {t}
  OBVIOUS
<1> DEFINE Same  == Holders' = Holders /\ UNCHANGED <<state, lost>>
           Lost  == Holders' = Holders /\ state' = state - 1 /\ lost' = lost + 1
           Taken == \E t \in Thread : /\ t \notin Holders /\ Holders' = Holders \cup {t}
                                      /\ state' = state - 1 /\ lost' = lost
           Given == \E t \in Thread : /\ t \in Holders /\ Holders' = Holders \ {t}
                                      /\ state' = state + 1 /\ lost' = lost
<1> HIDE DEF Same, Lost, Taken, Given
<1>1. /\ state \in 0 .. Permits /\ lost \in 0 .. Permits /\ Permits \in Nat \ {0}
      /\ pc \in [Thread -> {"idle", "reading", "taking", "entering", "parked",
                            "heading", "holding", "again", "giving", "signalling"}]
      /\ seen \in [Thread -> 0 .. Permits]
      /\ TakesOne
      /\ state + Cardinality(Holders) + lost = Permits
  BY PermitsAssumption DEF Inv, TypeOK, PermitsConserved
<1>2. ASSUME NEW t \in Thread, CompareAndTake(t)
      PROVE  TakesOne' /\ (Same \/ (state > 0 /\ (Lost \/ Taken)))
  <2>1. TakesOne'
    BY <1>1, <1>2 DEF CompareAndTake, Acquired, Goto, TakesOne
  <2>2. CASE state # seen[t]
    <3>1. Same
      BY <1>1, <1>2, <2>2 DEF CompareAndTake, Goto, Holders, Same
    <3> QED
      BY <2>1, <3>1
  <2>3. CASE state = seen[t]
    <3>1. /\ state > 0 /\ state' = state - 1 /\ pc[t] = "taking" /\ t \notin Holders
          /\ Acquired(t, seen[t] - 1)
      BY <1>1, <1>2, <2>3 DEF CompareAndTake, TakesOne, Holders
    <3>2. CASE pc' = [pc EXCEPT ![t] = "idle"] /\ lost' = lost + 1
      <4>1. Holders' = Holders
        BY <1>1, <3>1, <3>2 DEF Holders
      <4> QED
        BY <2>1, <3>1, <3>2, <4>1 DEF Lost
    <3>3. CASE \E label \in {"heading", "holding"} :
                 pc' = [pc EXCEPT ![t] = label] /\ lost' = lost
      <4>1. Holders' = Holders \cup {t}
        BY <1>1, <3>1, <3>3 DEF Holders
      <4> QED
        BY <2>1, <3>1, <3>3, <4>1 DEF Taken
    <3> QED
      BY <3>1, <3>2, <3>3 DEF Acquired, Goto
  <2> QED
    BY <2>2, <2>3
<1>3. ASSUME NEW t \in Thread, CompareAndGive(t) PROVE TakesOne' /\ (Same \/ Given)
  <2>1. TakesOne'
    BY <1>1, <1>3 DEF CompareAndGive, Goto, TakesOne
  <2>2. CASE state # seen[t]
    BY <1>1, <1>3, <2>1, <2>2 DEF CompareAndGive, Goto, Holders, Same
  <2>3. CASE state = seen[t]
    <3>1. /\ state' = state + 1 /\ lost' = lost /\ t \in Holders
          /\ pc' = [pc EXCEPT ![t] = "signalling"]
      BY <1>3, <2>3 DEF CompareAndGive, Goto, Holders
    <3>2. Holders' = Holders \ {t}
      BY <1>1, <3>1 DEF Holders
    <3> QED
      BY <2>1, <3>1, <3>2 DEF Given
  <2> QED
    BY <2>2, <2>3
<1>4. ASSUME NEW t \in Thread, ReadState(t) PROVE TakesOne' /\ Same
  BY <1>1, <1>4 DEF ReadState, Fail, Goto, TakesOne, Holders, Same
<1>5. ASSUME NEW t \in Thread,
             \/ \E m \in Method : Call(t, m)
             \/ Enter(t) \/ Retry(t) \/ LeaveQueue(t) \/ GiveUp(t)
             \/ Unlock(t) \/ Signal(t)
      PROVE  TakesOne' /\ Same
  BY <1>1, <1>5 DEF Call, Enter, Retry, LeaveQueue, GiveUp, Unlock, Signal,
     Goto, TakesOne, Holders, Same
<1>6. ASSUME UNCHANGED vars PROVE TakesOne' /\ Same
  BY <1>1, <1>6 DEF vars, TakesOne, Holders, Same
<1>7. TakesOne' /\ (Same \/ (state > 0 /\ (Lost \/ Taken)) \/ Given)
  BY <1>2, <1>3, <1>4, <1>5, <1>6 DEF Next, Proceed
<1>8. PermitsConserved'
  <2>1. CASE Same
    BY <1>1, <2>1 DEF PermitsConserved, Same
  <2>2. CASE Lost
    BY <1>1, <2>2, HoldersFinite DEF PermitsConserved, Lost
  <2>3. CASE Taken
    <3>1. Cardinality(Holders') = Cardinality(Holders) + 1
      BY <2>3, HoldersChange DEF Taken
    <3>2. state' = state - 1 /\ lost' = lost
      BY <2>3 DEF Taken
    <3> QED
      BY <1>1, <3>1, <3>2, HoldersFinite DEF PermitsConserved
  <2>4. CASE Given
    <3>1. Cardinality(Holders') = Cardinality(Holders) - 1
      BY <2>4, HoldersChange DEF Given
    <3>2. state' = state + 1 /\ lost' = lost
      BY <2>4 DEF Given
    <3> QED
      BY <1>1, <3>1, <3>2, HoldersFinite DEF PermitsConserved
  <2> QED
    BY <1>7, <2>1, <2>2, <2>3, <2>4
<1> QED
  BY <1>7, <1>8 DEF Same, Lost, Taken, Given

LEMMA StepInv == Inv /\ [Next]_vars => Inv'
BY StepTypes, StepPermits DEF Inv

\* Every variable keeps its type: the state stays within 0 and Permits.
THEOREM LockTypes == Spec => []TypeOK
<1>1. Inv => TypeOK
  BY DEF Inv
<1> QED
  BY InitInv, StepInv, <1>1, PTL DEF Spec

\* No interleaving of the two compare-and-set loops loses a permit or makes one up.
THEOREM LockConservesPermits == Spec => []PermitsConserved
<1>1. Inv => PermitsConserved
  BY DEF Inv
<1> QED
  BY InitInv, StepInv, <1>1, PTL DEF Spec

\* At most Permits threads, two in TwinsLock, hold the lock at a time.
THEOREM LockAdmitsTwo == Spec => []AtMostTwo
<1>1. Inv => AtMostTwo
  <2> SUFFICES ASSUME Inv PROVE AtMostTwo
    OBVIOUS
  <2>1. {t \in Thread : pc[t] = "holding"} \subseteq Holders
    BY DEF Holders
  <2>2. /\ Cardinality({t \in Thread : pc[t] = "holding"}) \in Nat
        /\ Cardinality({t \in Thread : pc[t] = "holding"}) <= Cardinality(Holders)
    BY <2>1, HoldersFinite, FS_Subset, FS_CardinalityType
  <2>3. /\ state \in 0 .. Permits /\ lost \in 0 .. Permits
        /\ state + Cardinality(Holders) + lost = Permits
    BY DEF Inv, TypeOK, PermitsConserved
  <2> QED
    BY <2>2, <2>3, HoldersFinite, PermitsAssumption DEF AtMostTwo
<1> QED
  BY InitInv, StepInv, <1>1, PTL DEF Spec

\* TwinsLock implements the abstract semaphore, but for what tryLock() loses.
THEOREM LockImplementsSemaphore == Spec => SemaphoreSpec
<1>1. Init => Holders = {} /\ lost = 0
  BY DEF Init, Holders
<1>2. ASSUME Inv, [Next]_vars PROVE [Promise!Next]_(Promise!vars)
  <2>1. state \in 0 .. Permits /\ lost \in 0 .. Permits /\ Permits \in Nat
    BY <1>2, PermitsAssumption DEF Inv, TypeOK
  <2>2. Permits - Cardinality(Holders) - lost = state
    BY <1>2, <2>1, HoldersFinite DEF Inv, PermitsConserved
  <2>3. Permits - Promise!Cardinality(Holders) - lost = state
    BY <2>2 DEF Cardinality, Promise!Cardinality
  <2>4. \/ Holders' = Holders /\ lost' = lost
        \/ Holders' = Holders /\ lost' = lost + 1 /\ state > 0
        \/ /\ lost' = lost
           /\ \E t \in Thread : \/ /\ t \notin Holders /\ Holders' = Holders \cup {t}
                                   /\ state > 0
                                \/ t \in Holders /\ Holders' = Holders \ {t}
    BY <1>2, StepPermits
  <2>5. CASE Holders' = Holders /\ lost' = lost
    BY <2>5 DEF Promise!vars
  <2>6. CASE Holders' = Holders /\ lost' = lost + 1 /\ state > 0
    <3>1. Promise!Lose
      BY <2>3, <2>6 DEF Promise!Lose, Promise!Free
    <3> QED
      BY <3>1 DEF Promise!Next
  <2>7. ASSUME NEW t \in Thread, t \notin Holders, Holders' = Holders \cup {t},
               state > 0, lost' = lost
        PROVE  Promise!Take(t)
    BY <2>3, <2>7 DEF Promise!Take, Promise!Free
  <2>8. ASSUME NEW t \in Thread, t \in Holders, Holders' = Holders \ {t}, lost' = lost
        PROVE  Promise!Give(t)
    BY <2>8 DEF Promise!Give
  <2> QED
    BY <2>4, <2>5, <2>6, <2>7, <2>8 DEF Promise!Next
<1> QED
  BY InitInv, StepInv, <1>1, <1>2, PTL DEF Spec, SemaphoreSpec, Promise!Spec

-----------------------------------------------------------------------------
(* Wake-ups.                                                               *)

\* The thread h is about to look at the state, or to wake the one behind it.
OnItsWay(h) ==
  \/ h \in woken
  \/ pc[h] \in {"reading", "taking"}
  \/ pc[h] = "heading" /\ seen[h] > 0

LEMMA StepReleases == Inv /\ NoLostRelease /\ [Next]_vars => NoLostRelease'
<1> SUFFICES ASSUME Inv, NoLostRelease, [Next]_vars, state' > 0, queue' # << >>,
                    \A t \in Thread : pc'[t] # "signalling"
             PROVE  OnItsWay(Head(queue))'
  BY DEF NoLostRelease, OnItsWay
<1>1. /\ state \in 0 .. Permits /\ Permits \in Nat /\ QueueOK /\ queue \in Seq(Thread)
      /\ pc \in [Thread -> {"idle", "reading", "taking", "entering", "parked",
                            "heading", "holding", "again", "giving", "signalling"}]
      /\ seen \in [Thread -> 0 .. Permits]
      /\ \A t \in Thread :
           /\ pc[t] = "heading" => First(t)
           /\ Queued(t) => pc[t] \in {"parked", "heading", "reading", "taking"}
  BY PermitsAssumption DEF Inv, TypeOK, QueueOK
<1>2. queue # << >> => Head(queue) \in Thread /\ Queued(Head(queue))
  <2>1. queue # << >> => Head(queue) \in ToSet(queue)
    BY <1>1, TailElements DEF QueueOK
  <2> QED
    BY <1>1, <2>1 DEF Queued
\* What was said of the first thread before the step.
<1>3. /\ state > 0 /\ queue # << >> /\ (\A t \in Thread : pc[t] # "signalling") =>
           OnItsWay(Head(queue))
  BY DEF NoLostRelease, OnItsWay
<1>4. ASSUME NEW t \in Thread, ReadState(t) PROVE OnItsWay(Head(queue))'
  <2>1. /\ queue' = queue /\ woken' = woken /\ state' = state /\ pc[t] = "reading"
        /\ pc' = [pc EXCEPT ![t] = "taking"] /\ seen' = [seen EXCEPT ![t] = state]
    BY <1>1, <1>4 DEF ReadState, Goto
  <2>2. \A u \in Thread : pc[u] # "signalling"
    BY <1>1, <2>1
  <2> QED
    BY <1>1, <1>2, <1>3, <2>1, <2>2 DEF OnItsWay
<1>5. ASSUME NEW t \in Thread, CompareAndTake(t) PROVE OnItsWay(Head(queue))'
  <2>1. queue' = queue /\ woken' = woken /\ pc[t] = "taking"
    BY <1>5 DEF CompareAndTake
  <2>2. CASE t = Head(queue)
    <3>1. CASE state # seen[t]
      BY <1>1, <1>5, <2>1, <2>2, <3>1 DEF CompareAndTake, Goto, OnItsWay
    <3>2. CASE state = seen[t]
      <4>1. /\ pc' = [pc EXCEPT ![t] = "heading"] /\ state' = seen[t] - 1
            /\ seen' = [seen EXCEPT ![t] = seen[t] - 1]
        BY <1>2, <1>5, <2>1, <2>2, <3>2 DEF CompareAndTake, Acquired, Goto
      <4> QED
        BY <1>1, <2>1, <2>2, <4>1 DEF OnItsWay
    <3> QED
      BY <3>1, <3>2
  <2>3. CASE t # Head(queue)
    <3>1. /\ \A u \in Thread \ {t} : pc'[u] = pc[u] /\ seen'[u] = seen[u]
          /\ state' = state \/ (state = seen[t] /\ state' = state - 1)
      BY <1>1, <1>5 DEF CompareAndTake, Acquired, Goto
    <3>2. state > 0 /\ \A u \in Thread : pc[u] # "signalling"
      BY <1>1, <2>1, <3>1
    <3> QED
      BY <1>1, <1>2, <1>3, <2>1, <2>3, <3>1, <3>2 DEF OnItsWay
  <2> QED
    BY <2>2, <2>3
<1>6. ASSUME NEW t \in Thread, Enter(t) PROVE OnItsWay(Head(queue))'
  <2>1. /\ ~Queued(t) /\ Enqueue(t) /\ pc[t] = "entering" /\ state' = state
        /\ pc' = [pc EXCEPT ![t] = "parked"] /\ seen' = seen
        /\ woken' = woken \cup {t}
    BY <1>1, <1>6 DEF Enter, Goto, Enqueue
  <2>2. /\ queue # << >> => Head(queue') = Head(queue)
        /\ queue = << >> => Head(queue') = t
    BY <1>1, <2>1, EnqueueEffect
  <2>3. CASE queue = << >>
    BY <2>1, <2>2, <2>3 DEF OnItsWay
  <2>4. CASE queue # << >>
    <3>1. Head(queue) # t /\ \A u \in Thread : pc[u] # "signalling"
      BY <1>1, <1>2, <2>1, <2>4
    <3> QED
      BY <1>1, <1>2, <1>3, <2>1, <2>2, <2>4, <3>1 DEF OnItsWay
  <2> QED
    BY <2>3, <2>4
<1>7. ASSUME NEW t \in Thread, Retry(t) PROVE OnItsWay(Head(queue))'
  <2>1. /\ queue' = queue /\ state' = state /\ seen' = seen /\ pc[t] = "parked"
        /\ woken' = woken \ {t}
        /\ \A u \in Thread \ {t} : pc'[u] = pc[u]
        /\ First(t) => pc'[t] = "reading"
        /\ t # Head(queue) => pc' = pc
    BY <1>1, <1>7 DEF Retry, Goto, First
  <2>2. \A u \in Thread : pc[u] # "signalling"
    BY <1>1, <2>1
  <2>3. CASE t = Head(queue)
    BY <2>1, <2>3 DEF OnItsWay, First
  <2>4. CASE t # Head(queue)
    BY <1>1, <1>2, <1>3, <2>1, <2>2, <2>4 DEF OnItsWay
  <2> QED
    BY <2>3, <2>4
\* The first thread leaves only after it has taken care of the next one.
<1>8. ASSUME NEW t \in Thread, LeaveQueue(t) PROVE OnItsWay(Head(queue))'
  <2>1. /\ pc[t] = "heading" /\ Dequeue(t, seen[t] > 0 \/ t \in woken)
        /\ state' = state /\ pc' = [pc EXCEPT ![t] = "holding"]
    BY <1>8 DEF LeaveQueue, Goto
  <2>2. queue # << >> /\ Head(queue) = t /\ \A u \in Thread : pc[u] # "signalling"
    BY <1>1, <2>1 DEF Dequeue, First
  <2>3. seen[t] > 0 \/ t \in woken
    BY <1>3, <2>1, <2>2 DEF OnItsWay
  <2>4. Head(queue') \in woken'
    BY <1>1, <2>1, <2>3, DequeueEffect
  <2> QED
    BY <2>4 DEF OnItsWay
<1>9. ASSUME NEW t \in Thread, GiveUp(t) PROVE OnItsWay(Head(queue))'
  <2>1. /\ pc[t] = "parked" /\ Cancel(t) /\ state' = state /\ seen' = seen
        /\ pc' = [pc EXCEPT ![t] = "idle"]
    BY <1>9 DEF GiveUp, Goto
  <2>2. /\ \/ Head(queue') \in woken'
           \/ Head(queue') = Head(queue) /\ queue # << >> /\ Head(queue) # t
        /\ \A u \in woken : u # t => u \in woken'
    BY <1>1, <2>1, CancelEffect
  <2>3. \A u \in Thread : pc[u] # "signalling"
    BY <1>1, <2>1
  <2>4. CASE Head(queue') \in woken'
    BY <2>4 DEF OnItsWay
  <2>5. CASE Head(queue') = Head(queue) /\ queue # << >> /\ Head(queue) # t
    BY <1>1, <1>2, <1>3, <2>1, <2>2, <2>3, <2>5 DEF OnItsWay
  <2> QED
    BY <2>2, <2>4, <2>5
<1>10. ASSUME NEW t \in Thread, Signal(t) PROVE OnItsWay(Head(queue))'
  BY <1>10 DEF Signal, Wake, OnItsWay
\* Steps of threads outside the queue.
<1>11. ASSUME NEW t \in Thread,
              \/ \E m \in Method : Call(t, m)
              \/ Unlock(t) \/ CompareAndGive(t)
       PROVE  OnItsWay(Head(queue))'
  <2>1. /\ queue' = queue /\ woken' = woken
        /\ pc[t] \in {"idle", "holding", "again", "giving"}
        /\ \A u \in Thread \ {t} : pc'[u] = pc[u] /\ seen'[u] = seen[u]
        /\ state' = state \/ pc'[t] = "signalling"
    BY <1>1, <1>11 DEF Call, Unlock, CompareAndGive, Goto
  <2>2. state' = state /\ Head(queue) # t /\ \A u \in Thread : pc[u] # "signalling"
    BY <1>1, <1>2, <2>1
  <2> QED
    BY <1>1, <1>2, <1>3, <2>1, <2>2 DEF OnItsWay
<1>12. CASE UNCHANGED vars
  BY <1>3, <1>12 DEF vars, OnItsWay
<1> QED
  BY <1>4, <1>5, <1>6, <1>7, <1>8, <1>9, <1>10, <1>11, <1>12 DEF Next, Proceed

\* While a permit is free and threads wait, one of them is on its way to it.
THEOREM LockLosesNoRelease == Spec => []NoLostRelease
<1>1. Init => NoLostRelease
  BY DEF Init, NoLostRelease
<1> QED
  BY InitInv, StepInv, StepReleases, <1>1, PTL DEF Spec
=============================================================================
