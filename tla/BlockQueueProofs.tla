-------------------------- MODULE BlockQueueProofs --------------------------
(***************************************************************************)
(* Proofs about BlockQueue, for any capacity, any items and any finite set *)
(* of threads.                                                             *)
(***************************************************************************)
EXTENDS BlockQueue, ListLemmas, FiniteSetTheorems, TLAPS

\* The threads that wait in a method of ops.
Asleep(ops) == {t \in Thread : pc[t] = "waiting" /\ op[t] \in ops}

-----------------------------------------------------------------------------
(* Types.                                                                  *)

\* The threads in a condition queue are threads that wait.
LEMMA HeadWaits ==
  ASSUME TypeOK, NEW ops, NEW queue \in Seq(Thread), Waiters(queue, ops),
         queue # << >>
  PROVE  /\ Head(queue) \in Asleep(ops)
         /\ Tail(queue) \in Seq(Thread)
         /\ ToSet(Tail(queue)) = Asleep(ops) \ {Head(queue)}
         /\ \A i, k \in 1 .. Len(Tail(queue)) :
              Tail(queue)[i] = Tail(queue)[k] => i = k
<1>1. /\ \A i, k \in 1 .. Len(queue) : queue[i] = queue[k] => i = k
      /\ ToSet(queue) = Asleep(ops)
  BY DEF Waiters, Asleep
<1>2. /\ Head(queue) \in ToSet(queue)
      /\ ToSet(Tail(queue)) = ToSet(queue) \ {Head(queue)}
      /\ \A i, k \in 1 .. Len(Tail(queue)) :
           Tail(queue)[i] = Tail(queue)[k] => i = k
  BY <1>1, TailElements, Zenon
<1>3. Tail(queue) \in Seq(Thread)
  BY HeadTailProperties
<1> QED
  BY <1>1, <1>2, <1>3

\* What the end of a call changes: its own thread becomes idle and the first
\* waiter of the signalled queue competes for the lock.
LEMMA ReturnEffect ==
  ASSUME TypeOK, NEW t \in Thread, NEW ops, NEW queue \in Seq(Thread),
         Waiters(queue, ops) \/ queue = << >>, "none" \notin ops,
         pc[t] # "waiting", Return(t, queue)
  PROVE  /\ pc' \in [Thread -> {"idle", "locking", "waiting", "signalled",
                                "cancelled"}]
         /\ op' \in [Thread -> {"none", "add"} \cup Removal]
         /\ item' \in [Thread -> Item \cup {Null}]
         /\ pc'[t] = "idle" /\ op'[t] = "none"
         /\ \A u \in Thread \ {t} :
              /\ op'[u] = op[u] /\ item'[u] = item[u]
              /\ IF queue # << >> /\ u = Head(queue)
                 THEN pc[u] = "waiting" /\ op[u] \in ops /\ pc'[u] = "signalled"
                 ELSE pc'[u] = pc[u]
         /\ queue # << >> => Head(queue) \in Thread \ {t}
<1>1. ASSUME queue # << >>
      PROVE  Head(queue) \in Thread \ {t} /\ Head(queue) \in Asleep(ops)
  BY <1>1, HeadWaits DEF Asleep
<1> QED
  BY <1>1 DEF Return, TypeOK, Asleep

Inv == TypeOK /\ QueuesExact

LEMMA InitInv == Init => Inv
<1> SUFFICES ASSUME Init PROVE Inv
  OBVIOUS
<1>1. TypeOK
  BY CapacityAssumption DEF Init, TypeOK, Slot, Handover
<1>2. ToSet(<< >>) = {} /\ Len(<< >>) = 0
  BY DEF ToSet
<1>3. QueuesExact
  BY <1>2 DEF Init, QueuesExact, Waiters
<1> QED
  BY <1>1, <1>3 DEF Inv

LEMMA StepTypes == Inv /\ [Next]_vars => TypeOK'
<1> SUFFICES ASSUME Inv, [Next]_vars PROVE TypeOK'
  OBVIOUS
<1> USE DEF Inv
<1>1. notFull \in Seq(Thread) /\ notEmpty \in Seq(Thread)
      /\ count \in 0 .. Capacity /\ Capacity \in Nat \ {0}
  BY CapacityAssumption DEF TypeOK
<1>2. \A queue \in Seq(Thread) : Rest(queue) \in Seq(Thread)
  BY HeadTailProperties DEF Rest
<1>3. ASSUME NEW t \in Thread, NEW queue \in Seq(Thread), NEW ops,
             Waiters(queue, ops) \/ queue = << >>, "none" \notin ops,
             pc[t] # "waiting", Return(t, queue)
      PROVE  /\ pc' \in [Thread -> {"idle", "locking", "waiting", "signalled",
                                    "cancelled"}]
             /\ op' \in [Thread -> {"none", "add"} \cup Removal]
             /\ item' \in [Thread -> Item \cup {Null}]
             /\ \A u \in Thread : /\ op'[u] = "none" <=> pc'[u] = "idle"
                                  /\ op'[u] = "add" => item'[u] \in Item
  <2>1. /\ pc' \in [Thread -> {"idle", "locking", "waiting", "signalled",
                              "cancelled"}]
        /\ op' \in [Thread -> {"none", "add"} \cup Removal]
        /\ item' \in [Thread -> Item \cup {Null}]
    BY <1>3, ReturnEffect
  <2>2. pc'[t] = "idle" /\ op'[t] = "none"
    BY <1>3, ReturnEffect
  <2>3. ASSUME NEW u \in Thread \ {t}
        PROVE  /\ op'[u] = op[u] /\ item'[u] = item[u]
               /\ (pc'[u] = pc[u] \/ (pc'[u] = "signalled" /\ op[u] # "none"))
    <3>1. op'[u] = op[u] /\ item'[u] = item[u]
      BY <1>3, ReturnEffect
    <3>2. \/ pc'[u] = pc[u]
          \/ pc[u] = "waiting" /\ pc'[u] = "signalled"
      BY <1>3, ReturnEffect
    <3>3. pc[u] = "waiting" => op[u] # "none"
      BY DEF TypeOK
    <3> QED
      BY <3>1, <3>2, <3>3
  <2>4. ASSUME NEW u \in Thread
        PROVE  /\ op'[u] = "none" <=> pc'[u] = "idle"
               /\ op'[u] = "add" => item'[u] \in Item
    BY <2>2, <2>3 DEF TypeOK
  <2> QED
    BY <2>1, <2>4
<1>4. ASSUME NEW t \in Thread, NEW o \in {"add"} \cup Removal,
             NEW x \in Item \cup {Null}, o = "add" => x \in Item, Call(t, o, x)
      PROVE  TypeOK'
  <2>1. /\ op' \in [Thread -> {"none", "add"} \cup Removal]
        /\ item' \in [Thread -> Item \cup {Null}]
        /\ pc' \in [Thread -> {"idle", "locking", "waiting", "signalled",
                              "cancelled"}]
    BY <1>4 DEF Call, TypeOK
  <2>2. \A u \in Thread : /\ op'[u] = "none" <=> pc'[u] = "idle"
                          /\ op'[u] = "add" => item'[u] \in Item
    BY <1>4 DEF Call, TypeOK, Removal
  <2>3. UNCHANGED <<arr, count, notFull, notEmpty, interrupted, handed>>
    BY <1>4 DEF Call
  <2> QED
    BY <2>1, <2>2, <2>3 DEF TypeOK
<1>5. ASSUME NEW t \in Thread, AddItem(t) PROVE TypeOK'
  <2>1. arr' \in [Slot -> Item \cup {Null}] /\ count' \in 0 .. Capacity
    BY <1>1, <1>5 DEF AddItem, HasLock, TypeOK, Slot
  <2>2. Waiters(notEmpty, Removal) /\ "none" \notin Removal /\ pc[t] # "waiting"
    BY <1>5 DEF AddItem, HasLock, QueuesExact, Removal
  <2>3. Return(t, notEmpty) /\ notEmpty' = Rest(notEmpty)
        /\ UNCHANGED <<notFull, interrupted, handed>>
    BY <1>5 DEF AddItem
  <2> QED
    BY <1>1, <1>2, <1>3, <2>1, <2>2, <2>3 DEF TypeOK
<1>6. ASSUME NEW t \in Thread, RemoveHead(t) \/ RemoveFromEnd(t) PROVE TypeOK'
  <2>0. count' \in 0 .. Capacity
    BY <1>1, <1>6 DEF RemoveHead, RemoveFromEnd
  <2>1. arr' \in [Slot -> Item \cup {Null}]
    <3>1. CASE RemoveHead(t)
      BY <3>1 DEF RemoveHead, TypeOK
    <3>2. CASE RemoveFromEnd(t)
      BY <3>2 DEF RemoveFromEnd, TypeOK
    <3> QED
      BY <1>6, <3>1, <3>2
  <2>2. handed' \in Handover
    <3>1. count > 0 /\ (handed' = <<t, arr[0]>> \/ handed' = <<t, arr[count - 1]>>)
      BY <1>6 DEF RemoveHead, RemoveFromEnd
    <3>2. arr[0] \in Item \cup {Null} /\ arr[count - 1] \in Item \cup {Null}
      BY <1>1, <3>1 DEF TypeOK, Slot
    <3> QED
      BY <3>1, <3>2 DEF Handover
  <2>3. Waiters(notFull, {"add"}) /\ pc[t] # "waiting"
    BY <1>6 DEF RemoveHead, RemoveFromEnd, HasLock, QueuesExact
  <2>4. Return(t, notFull) /\ notFull' = Rest(notFull)
        /\ UNCHANGED <<notEmpty, interrupted>>
    BY <1>6 DEF RemoveHead, RemoveFromEnd
  <2> QED
    BY <1>1, <1>2, <1>3, <2>0, <2>1, <2>2, <2>3, <2>4 DEF TypeOK
<1>7. ASSUME NEW t \in Thread, Await(t) PROVE TypeOK'
  <2>1. notFull' \in Seq(Thread) /\ notEmpty' \in Seq(Thread)
    <3>1. CASE op[t] = "add"
      BY <1>1, <1>7, <3>1 DEF Await
    <3>2. CASE op[t] # "add"
      BY <1>1, <1>7, <3>2 DEF Await
    <3> QED
      BY <3>1, <3>2
  <2>2. op[t] # "none"
    BY <1>7 DEF Await, MustWait, HasLock, Removal
  <2> QED
    BY <1>7, <2>1, <2>2 DEF Await, TypeOK
<1>8. ASSUME NEW t \in Thread, AwaitThrows(t) \/ Throw(t) PROVE TypeOK'
  <2>0. PICK queue \in Seq(Thread) : queue = << >>
    BY EmptySeq
  <2>1. /\ Return(t, queue) /\ pc[t] # "waiting"
        /\ UNCHANGED <<arr, count, notFull, notEmpty, handed>>
        /\ interrupted' \in [Thread -> BOOLEAN]
    BY <1>8, <2>0 DEF AwaitThrows, Throw, MustWait, HasLock, TypeOK
  <2>2. "none" \notin {"add"}
    OBVIOUS
  <2>3. /\ pc' \in [Thread -> {"idle", "locking", "waiting", "signalled",
                              "cancelled"}]
        /\ op' \in [Thread -> {"none", "add"} \cup Removal]
        /\ item' \in [Thread -> Item \cup {Null}]
        /\ \A u \in Thread : /\ op'[u] = "none" <=> pc'[u] = "idle"
                             /\ op'[u] = "add" => item'[u] \in Item
    BY <1>3, <2>0, <2>1, <2>2
  <2> QED
    BY <2>1, <2>3 DEF TypeOK
<1>9. ASSUME NEW t \in Thread, Interrupt(t) PROVE TypeOK'
  <2>1. ASSUME NEW queue \in Seq(Thread), NEW i \in 1 .. Len(queue)
        PROVE  RemoveAt(queue, i) \in Seq(Thread)
    BY RemoveAtList
  <2>2. notFull' \in Seq(Thread) /\ notEmpty' \in Seq(Thread)
    BY <1>1, <1>9, <2>1 DEF Interrupt, Leave
  <2> QED
    BY <1>9, <2>2 DEF Interrupt, TypeOK
<1>10. CASE UNCHANGED vars
  BY <1>10 DEF vars, TypeOK
<1> QED
  BY <1>4, <1>5, <1>6, <1>7, <1>8, <1>9, <1>10
  DEF Next, StartCall, Proceed, Removal

-----------------------------------------------------------------------------
(* The condition queues.                                                   *)

\* The effect on the sets of threads of a call that signals the condition for
\* ops and returns: "other" are the methods of the other condition.
LEMMA ReturnSets ==
  ASSUME TypeOK, NEW t \in Thread, NEW ops, NEW other, NEW queue \in Seq(Thread),
         Waiters(queue, ops), "none" \notin ops, "none" \notin other,
         ops \cap other = {}, op[t] \notin ops,
         pc[t] # "waiting", Return(t, queue)
  PROVE  /\ queue = << >> => /\ Asleep(ops)' = Asleep(ops)
                             /\ Signalled(ops)' = Signalled(ops)
         /\ queue # << >> => /\ Asleep(ops)' = Asleep(ops) \ {Head(queue)}
                             /\ Signalled(ops)' = Signalled(ops) \cup {Head(queue)}
                             /\ Head(queue) \notin Signalled(ops)
         /\ Asleep(other)' = Asleep(other)
         /\ Signalled(other)' = Signalled(other) \ {t}
<1> USE DEF Asleep, Signalled
<1>1. /\ pc'[t] = "idle" /\ op'[t] = "none"
      /\ \A u \in Thread \ {t} :
           /\ op'[u] = op[u]
           /\ IF queue # << >> /\ u = Head(queue)
              THEN pc[u] = "waiting" /\ op[u] \in ops /\ pc'[u] = "signalled"
              ELSE pc'[u] = pc[u]
      /\ queue # << >> => Head(queue) \in Thread \ {t}
  BY ReturnEffect
<1>2. CASE queue = << >>
  BY <1>1, <1>2
<1>3. CASE queue # << >>
  <2> DEFINE h == Head(queue)
  <2>1. /\ h \in Thread \ {t} /\ pc[h] = "waiting" /\ op[h] \in ops
        /\ pc'[h] = "signalled" /\ op'[h] = op[h]
        /\ \A u \in Thread \ {t, h} : op'[u] = op[u] /\ pc'[u] = pc[u]
    BY <1>1, <1>3
  <2> HIDE DEF h
  <2>2. /\ Asleep(ops)' = Asleep(ops) \ {h}
        /\ Signalled(ops)' = Signalled(ops) \cup {h} /\ h \notin Signalled(ops)
        /\ Asleep(other)' = Asleep(other)
        /\ Signalled(other)' = Signalled(other) \ {t}
    BY <1>1, <2>1
  <2> QED
    BY <1>3, <2>2 DEF h
<1> QED
  BY <1>2, <1>3

\* A queue in which exactly the sleeping threads wait stays so when its head
\* is signalled.
LEMMA RestWaiters ==
  ASSUME TypeOK, NEW ops, NEW queue \in Seq(Thread), Waiters(queue, ops),
         queue = << >> => Asleep(ops)' = Asleep(ops),
         queue # << >> => Asleep(ops)' = Asleep(ops) \ {Head(queue)}
  PROVE  /\ ToSet(Rest(queue)) = Asleep(ops)'
         /\ \A i, k \in 1 .. Len(Rest(queue)) :
              Rest(queue)[i] = Rest(queue)[k] => i = k
<1>1. CASE queue = << >>
  BY <1>1 DEF Rest, Waiters, Asleep
<1>2. CASE queue # << >>
  <2>1. /\ ToSet(Tail(queue)) = Asleep(ops) \ {Head(queue)}
        /\ \A i, k \in 1 .. Len(Tail(queue)) :
             Tail(queue)[i] = Tail(queue)[k] => i = k
    BY <1>2, HeadWaits
  <2> QED
    BY <1>2, <2>1 DEF Rest
<1> QED
  BY <1>1, <1>2

LEMMA StepQueues == Inv /\ TypeOK' /\ [Next]_vars => QueuesExact'
<1> SUFFICES ASSUME Inv, TypeOK', [Next]_vars PROVE QueuesExact'
  OBVIOUS
<1> USE DEF Inv
<1>1. /\ notFull \in Seq(Thread) /\ notEmpty \in Seq(Thread)
      /\ Waiters(notFull, {"add"}) /\ Waiters(notEmpty, Removal)
      /\ "none" \notin Removal /\ "none" \notin {"add"}
      /\ Removal \cap {"add"} = {} /\ {"add"} \cap Removal = {}
  BY DEF TypeOK, QueuesExact, Removal
<1>2. ASSUME UNCHANGED <<notFull, notEmpty>>,
             Asleep({"add"})' = Asleep({"add"}), Asleep(Removal)' = Asleep(Removal)
      PROVE  QueuesExact'
  BY <1>1, <1>2 DEF QueuesExact, Waiters, Asleep
<1>3. ASSUME NEW t \in Thread, NEW o \in {"add"} \cup Removal,
             NEW x \in Item \cup {Null}, Call(t, o, x)
      PROVE  QueuesExact'
  <2>1. /\ Asleep({"add"})' = Asleep({"add"}) /\ Asleep(Removal)' = Asleep(Removal)
        /\ UNCHANGED <<notFull, notEmpty>>
    BY <1>3 DEF Call, Asleep, TypeOK
  <2> QED
    BY <1>2, <2>1
<1>4. ASSUME NEW t \in Thread, AddItem(t) PROVE QueuesExact'
  <2>1. /\ op[t] = "add" /\ op[t] \notin Removal /\ pc[t] # "waiting"
        /\ Return(t, notEmpty)
        /\ notEmpty' = Rest(notEmpty) /\ notFull' = notFull
    BY <1>4 DEF AddItem, HasLock, Removal
  <2>2. /\ notEmpty = << >> => Asleep(Removal)' = Asleep(Removal)
        /\ notEmpty # << >> => Asleep(Removal)' = Asleep(Removal) \ {Head(notEmpty)}
        /\ Asleep({"add"})' = Asleep({"add"})
    BY <1>1, <2>1, ReturnSets
  <2>3. /\ ToSet(notEmpty') = Asleep(Removal)'
        /\ \A i, k \in 1 .. Len(notEmpty') : notEmpty'[i] = notEmpty'[k] => i = k
    BY <1>1, <2>1, <2>2, RestWaiters
  <2> QED
    BY <1>1, <2>1, <2>2, <2>3 DEF QueuesExact, Waiters, Asleep
<1>5. ASSUME NEW t \in Thread, RemoveHead(t) \/ RemoveFromEnd(t)
      PROVE  QueuesExact'
  <2>1. /\ op[t] \notin {"add"} /\ pc[t] # "waiting"
        /\ Return(t, notFull)
        /\ notFull' = Rest(notFull) /\ notEmpty' = notEmpty
    BY <1>5 DEF RemoveHead, RemoveFromEnd, HasLock
  <2>2. /\ notFull = << >> => Asleep({"add"})' = Asleep({"add"})
        /\ notFull # << >> => Asleep({"add"})' = Asleep({"add"}) \ {Head(notFull)}
        /\ Asleep(Removal)' = Asleep(Removal)
    BY <1>1, <2>1, ReturnSets
  <2>3. /\ ToSet(notFull') = Asleep({"add"})'
        /\ \A i, k \in 1 .. Len(notFull') : notFull'[i] = notFull'[k] => i = k
    BY <1>1, <2>1, <2>2, RestWaiters
  <2> QED
    BY <1>1, <2>1, <2>2, <2>3 DEF QueuesExact, Waiters, Asleep
<1>6. ASSUME NEW t \in Thread, Await(t) PROVE QueuesExact'
  <2>0. t \notin Asleep({"add"}) /\ t \notin Asleep(Removal)
    BY <1>6 DEF Await, MustWait, HasLock, Asleep
  <2>1. CASE op[t] = "add"
    <3>1. notFull' = Append(notFull, t) /\ notEmpty' = notEmpty
      BY <1>6, <2>1 DEF Await
    <3>2. Asleep({"add"})' = Asleep({"add"}) \cup {t}
          /\ Asleep(Removal)' = Asleep(Removal)
      BY <1>6, <2>1 DEF Await, Asleep, TypeOK, Removal
    <3>3. /\ ToSet(notFull') = ToSet(notFull) \cup {t}
          /\ \A i, k \in 1 .. Len(notFull') : notFull'[i] = notFull'[k] => i = k
      <4>1. /\ t \notin ToSet(notFull)
            /\ \A i, k \in 1 .. Len(notFull) : notFull[i] = notFull[k] => i = k
        BY <1>1, <2>0 DEF Waiters, Asleep
      <4>2. \A i, k \in 1 .. Len(Append(notFull, t)) :
              Append(notFull, t)[i] = Append(notFull, t)[k] => i = k
        BY <1>1, <4>1, AppendDistinct, Zenon
      <4> QED
        BY <1>1, <3>1, <4>2, AppendElements
    <3> QED
      BY <1>1, <3>1, <3>2, <3>3 DEF QueuesExact, Waiters, Asleep
  <2>2. CASE op[t] # "add"
    <3>0. op[t] \in Removal
      BY <1>6, <2>2 DEF Await, MustWait, HasLock
    <3>1. notEmpty' = Append(notEmpty, t) /\ notFull' = notFull
      BY <1>6, <2>2 DEF Await
    <3>2. Asleep(Removal)' = Asleep(Removal) \cup {t}
          /\ Asleep({"add"})' = Asleep({"add"})
      BY <1>6, <2>2, <3>0 DEF Await, Asleep, TypeOK, Removal
    <3>3. /\ ToSet(notEmpty') = ToSet(notEmpty) \cup {t}
          /\ \A i, k \in 1 .. Len(notEmpty') : notEmpty'[i] = notEmpty'[k] => i = k
      <4>1. /\ t \notin ToSet(notEmpty)
            /\ \A i, k \in 1 .. Len(notEmpty) : notEmpty[i] = notEmpty[k] => i = k
        BY <1>1, <2>0 DEF Waiters, Asleep
      <4>2. \A i, k \in 1 .. Len(Append(notEmpty, t)) :
              Append(notEmpty, t)[i] = Append(notEmpty, t)[k] => i = k
        BY <1>1, <4>1, AppendDistinct, Zenon
      <4> QED
        BY <1>1, <3>1, <4>2, AppendElements
    <3> QED
      BY <1>1, <3>1, <3>2, <3>3 DEF QueuesExact, Waiters, Asleep
  <2> QED
    BY <2>1, <2>2
<1>7. ASSUME NEW t \in Thread, AwaitThrows(t) \/ Throw(t) PROVE QueuesExact'
  <2>1. /\ Asleep({"add"})' = Asleep({"add"}) /\ Asleep(Removal)' = Asleep(Removal)
        /\ UNCHANGED <<notFull, notEmpty>>
    BY <1>7 DEF AwaitThrows, Throw, MustWait, HasLock, Return, Asleep, TypeOK
  <2> QED
    BY <1>2, <2>1
<1>8. ASSUME NEW t \in Thread, Interrupt(t) PROVE QueuesExact'
  <2>1. CASE UNCHANGED <<notFull, notEmpty, pc, op>>
    BY <1>2, <2>1 DEF Asleep
  <2>2. ASSUME NEW queue \in Seq(Thread), NEW ops, Waiters(queue, ops),
               NEW i \in 1 .. Len(queue), queue[i] = t,
               pc' = [pc EXCEPT ![t] = "cancelled"], op' = op
        PROVE  /\ ToSet(RemoveAt(queue, i)) = Asleep(ops)'
               /\ \A n, k \in 1 .. Len(RemoveAt(queue, i)) :
                    RemoveAt(queue, i)[n] = RemoveAt(queue, i)[k] => n = k
    <3>1. Asleep(ops)' = Asleep(ops) \ {t}
      BY <2>2 DEF Asleep, TypeOK
    <3>2. /\ \A n, k \in 1 .. Len(queue) : queue[n] = queue[k] => n = k
          /\ ToSet(queue) = Asleep(ops)
      BY <2>2 DEF Waiters, Asleep
    <3>3. /\ ToSet(RemoveAt(queue, i)) = ToSet(queue) \ {queue[i]}
          /\ \A n, k \in 1 .. Len(RemoveAt(queue, i)) :
               RemoveAt(queue, i)[n] = RemoveAt(queue, i)[k] => n = k
      BY <3>2, RemoveAtDistinct, Zenon
    <3> QED
      BY <2>2, <3>1, <3>2, <3>3
  <2>3. CASE /\ pc[t] = "waiting" /\ pc' = [pc EXCEPT ![t] = "cancelled"]
             /\ op' = op /\ Leave(t, notFull) /\ notEmpty' = notEmpty
    <3>1. PICK i \in 1 .. Len(notFull) :
            notFull[i] = t /\ notFull' = RemoveAt(notFull, i)
      BY <2>3 DEF Leave
    <3>2. /\ ToSet(notFull') = Asleep({"add"})'
          /\ \A n, k \in 1 .. Len(notFull') : notFull'[n] = notFull'[k] => n = k
      BY <1>1, <2>2, <2>3, <3>1
    <3>3. t \in Asleep({"add"})
      BY <1>1, <3>1 DEF Waiters, Asleep, ToSet
    <3>4. Asleep(Removal)' = Asleep(Removal)
      BY <1>1, <2>3, <3>3 DEF Asleep, TypeOK
    <3> QED
      BY <1>1, <2>3, <3>2, <3>4 DEF QueuesExact, Waiters, Asleep
  <2>4. CASE /\ pc[t] = "waiting" /\ pc' = [pc EXCEPT ![t] = "cancelled"]
             /\ op' = op /\ Leave(t, notEmpty) /\ notFull' = notFull
    <3>1. PICK i \in 1 .. Len(notEmpty) :
            notEmpty[i] = t /\ notEmpty' = RemoveAt(notEmpty, i)
      BY <2>4 DEF Leave
    <3>2. /\ ToSet(notEmpty') = Asleep(Removal)'
          /\ \A n, k \in 1 .. Len(notEmpty') : notEmpty'[n] = notEmpty'[k] => n = k
      BY <1>1, <2>2, <2>4, <3>1
    <3>3. t \in Asleep(Removal)
      BY <1>1, <3>1 DEF Waiters, Asleep, ToSet
    <3>4. Asleep({"add"})' = Asleep({"add"})
      BY <1>1, <2>4, <3>3 DEF Asleep, TypeOK
    <3> QED
      BY <1>1, <2>4, <3>2, <3>4 DEF QueuesExact, Waiters, Asleep
  <2> QED
    BY <1>8, <2>1, <2>3, <2>4 DEF Interrupt
<1>9. CASE UNCHANGED vars
  BY <1>2, <1>9 DEF vars, Asleep
<1> QED
  BY <1>3, <1>4, <1>5, <1>6, <1>7, <1>8, <1>9
  DEF Next, StartCall, Proceed, Removal

LEMMA StepInv == Inv /\ [Next]_vars => Inv'
BY StepTypes, StepQueues DEF Inv

\* Every variable keeps its type: count stays within the array.
THEOREM QueueTypes == Spec => []TypeOK
<1>1. Inv => TypeOK
  BY DEF Inv
<1> QED
  BY InitInv, StepInv, <1>1, PTL DEF Spec

\* Each condition queue holds exactly the threads that wait for its condition.
THEOREM QueueWaiters == Spec => []QueuesExact
<1>1. Inv => QueuesExact
  BY DEF Inv
<1> QED
  BY InitInv, StepInv, <1>1, PTL DEF Spec

-----------------------------------------------------------------------------
(* Signals.                                                                *)

LEMMA SignalledFinite ==
  ASSUME NEW ops
  PROVE  /\ IsFiniteSet(Signalled(ops)) /\ Cardinality(Signalled(ops)) \in Nat
         /\ Cardinality(Signalled(ops)') \in Nat
<1>1. Signalled(ops) \subseteq Thread /\ Signalled(ops)' \subseteq Thread
  BY DEF Signalled
<1> QED
  BY <1>1, ThreadAssumption, FS_Subset, FS_CardinalityType

\* One thread more or less among the signalled threads of a condition.
LEMMA SignalledChange ==
  ASSUME NEW ops
  PROVE  /\ \A t : Signalled(ops)' = Signalled(ops) \ {t} =>
              Cardinality(Signalled(ops)') >= Cardinality(Signalled(ops)) - 1
         /\ \A t : t \notin Signalled(ops) /\ Signalled(ops)' = Signalled(ops) \cup {t} =>
              Cardinality(Signalled(ops)') = Cardinality(Signalled(ops)) + 1
BY SignalledFinite, FS_RemoveElement, FS_AddElement

LEMMA StepSignals == Inv /\ Inv' /\ NoLostSignal /\ [Next]_vars => NoLostSignal'
<1> SUFFICES ASSUME Inv, Inv', NoLostSignal, [Next]_vars PROVE NoLostSignal'
  OBVIOUS
<1> DEFINE adders   == Signalled({"add"})
           removers == Signalled(Removal)
<1>1. /\ notFull \in Seq(Thread) /\ notEmpty \in Seq(Thread)
      /\ Waiters(notFull, {"add"}) /\ Waiters(notEmpty, Removal)
      /\ "none" \notin Removal /\ "none" \notin {"add"}
      /\ Removal \cap {"add"} = {} /\ {"add"} \cap Removal = {}
      /\ count \in 0 .. Capacity /\ Capacity \in Nat \ {0}
  BY CapacityAssumption DEF Inv, TypeOK, QueuesExact, Removal
<1>2. /\ Cardinality(adders) \in Nat /\ Cardinality(removers) \in Nat
      /\ Cardinality(adders') \in Nat /\ Cardinality(removers') \in Nat
  BY SignalledFinite
<1>3. ASSUME NEW t \in Thread, AddItem(t) PROVE NoLostSignal'
  <2>1. /\ op[t] \notin Removal /\ pc[t] # "waiting" /\ Return(t, notEmpty)
        /\ notEmpty' = Rest(notEmpty) /\ notFull' = notFull
        /\ count' = count + 1
    BY <1>3 DEF AddItem, HasLock, Removal
  <2>2. /\ notEmpty # << >> => /\ removers' = removers \cup {Head(notEmpty)}
                               /\ Head(notEmpty) \notin removers
        /\ adders' = adders \ {t}
    <3>1. /\ TypeOK /\ notEmpty \in Seq(Thread) /\ Waiters(notEmpty, Removal)
          /\ "none" \notin Removal /\ "none" \notin {"add"}
          /\ Removal \cap {"add"} = {}
          /\ op[t] \notin Removal /\ pc[t] # "waiting" /\ Return(t, notEmpty)
      BY <1>1, <2>1 DEF Inv
    <3>2. /\ notEmpty # << >> =>
               /\ Asleep(Removal)' = Asleep(Removal) \ {Head(notEmpty)}
               /\ Signalled(Removal)' = Signalled(Removal) \cup {Head(notEmpty)}
               /\ Head(notEmpty) \notin Signalled(Removal)
          /\ Asleep({"add"})' = Asleep({"add"})
          /\ Signalled({"add"})' = Signalled({"add"}) \ {t}
      BY <3>1, ReturnSets
    <3> QED
      BY <3>2
  <2>3. Cardinality(adders') >= Cardinality(adders) - 1
    BY <2>2, SignalledChange
  <2>4. notEmpty' # << >> => notEmpty # << >>
    BY <2>1 DEF Rest
  <2>5. notEmpty # << >> => Cardinality(removers') = Cardinality(removers) + 1
    BY <2>2, SignalledChange
  <2> HIDE DEF adders, removers
  <2>6. /\ notFull # << >> => Capacity - count <= Cardinality(adders)
        /\ notEmpty # << >> => count <= Cardinality(removers)
    BY DEF NoLostSignal, adders, removers
  <2>7. /\ notFull' # << >> => Capacity - count' <= Cardinality(adders')
        /\ notEmpty' # << >> => count' <= Cardinality(removers')
    BY <1>1, <1>2, <2>1, <2>3, <2>4, <2>5, <2>6
  <2> QED
    BY <2>7 DEF NoLostSignal, adders, removers
<1>4. ASSUME NEW t \in Thread, RemoveHead(t) \/ RemoveFromEnd(t)
      PROVE  NoLostSignal'
  <2>1. /\ op[t] \notin {"add"} /\ pc[t] # "waiting" /\ Return(t, notFull)
        /\ notFull' = Rest(notFull) /\ notEmpty' = notEmpty
        /\ count' = count - 1
    BY <1>4 DEF RemoveHead, RemoveFromEnd, HasLock
  <2>2. /\ notFull # << >> => /\ adders' = adders \cup {Head(notFull)}
                              /\ Head(notFull) \notin adders
        /\ removers' = removers \ {t}
    <3>1. /\ TypeOK /\ notFull \in Seq(Thread) /\ Waiters(notFull, {"add"})
          /\ "none" \notin {"add"} /\ "none" \notin Removal
          /\ {"add"} \cap Removal = {}
          /\ op[t] \notin {"add"} /\ pc[t] # "waiting" /\ Return(t, notFull)
      BY <1>1, <2>1 DEF Inv
    <3>2. /\ notFull # << >> =>
               /\ Asleep({"add"})' = Asleep({"add"}) \ {Head(notFull)}
               /\ Signalled({"add"})' = Signalled({"add"}) \cup {Head(notFull)}
               /\ Head(notFull) \notin Signalled({"add"})
          /\ Asleep(Removal)' = Asleep(Removal)
          /\ Signalled(Removal)' = Signalled(Removal) \ {t}
      BY <3>1, ReturnSets
    <3> QED
      BY <3>2
  <2>3. Cardinality(removers') >= Cardinality(removers) - 1
    BY <2>2, SignalledChange
  <2>4. notFull' # << >> => notFull # << >>
    BY <2>1 DEF Rest
  <2>5. notFull # << >> => Cardinality(adders') = Cardinality(adders) + 1
    BY <2>2, SignalledChange
  <2> HIDE DEF adders, removers
  <2>6. /\ notFull # << >> => Capacity - count <= Cardinality(adders)
        /\ notEmpty # << >> => count <= Cardinality(removers)
    BY DEF NoLostSignal, adders, removers
  <2>7. /\ notFull' # << >> => Capacity - count' <= Cardinality(adders')
        /\ notEmpty' # << >> => count' <= Cardinality(removers')
    BY <1>1, <1>2, <2>1, <2>3, <2>4, <2>5, <2>6
  <2> QED
    BY <2>7 DEF NoLostSignal, adders, removers
\* A thread that waits, or throws instead, gives up a signal it may have had:
\* then its condition is false, so no slot or item was meant for it.
<1>5. ASSUME NEW t \in Thread, Await(t) \/ AwaitThrows(t) PROVE NoLostSignal'
  <2>1. CASE op[t] = "add"
    <3>1. count = Capacity /\ count' = count /\ notEmpty' = notEmpty
      BY <1>5, <2>1 DEF Await, AwaitThrows, MustWait, HasLock, Removal
    <3>2. Signalled(Removal)' = Signalled(Removal)
      BY <1>5, <2>1 DEF Await, AwaitThrows, Return, Signalled, Inv, TypeOK,
         Removal
    <3> QED
      BY <1>1, <1>2, <3>1, <3>2 DEF NoLostSignal
  <2>2. CASE op[t] # "add"
    <3>1. op[t] \in Removal /\ count = 0 /\ count' = count /\ notFull' = notFull
      BY <1>5, <2>2 DEF Await, AwaitThrows, MustWait, HasLock, Removal
    <3>2. Signalled({"add"})' = Signalled({"add"})
      BY <1>5, <2>2 DEF Await, AwaitThrows, Return, Signalled, Inv, TypeOK
    <3> QED
      BY <1>1, <1>2, <3>1, <3>2 DEF NoLostSignal
  <2> QED
    BY <2>1, <2>2
<1>6. ASSUME count' = count, adders' = adders, removers' = removers,
             notFull' # << >> => notFull # << >>,
             notEmpty' # << >> => notEmpty # << >>
      PROVE  NoLostSignal'
  BY <1>6 DEF NoLostSignal
<1>7. ASSUME NEW t \in Thread, NEW o \in {"add"} \cup Removal,
             NEW x \in Item \cup {Null}, Call(t, o, x)
      PROVE  NoLostSignal'
  <2>1. adders' = adders /\ removers' = removers
    BY <1>7 DEF Call, Signalled, Inv, TypeOK
  <2> QED
    BY <1>6, <1>7, <2>1 DEF Call
<1>8. ASSUME NEW t \in Thread, Throw(t) PROVE NoLostSignal'
  <2>1. adders' = adders /\ removers' = removers
    BY <1>8 DEF Throw, Return, Signalled, Inv, TypeOK
  <2> QED
    BY <1>6, <1>8, <2>1 DEF Throw
<1>9. ASSUME NEW t \in Thread, Interrupt(t) PROVE NoLostSignal'
  <2>1. adders' = adders /\ removers' = removers
    BY <1>9 DEF Interrupt, Signalled, Inv, TypeOK
  <2>2. \A i \in 1 .. Len(notFull) : notFull # << >>
    BY <1>1
  <2>3. \A i \in 1 .. Len(notEmpty) : notEmpty # << >>
    BY <1>1
  <2> QED
    BY <1>6, <1>9, <2>1, <2>2, <2>3 DEF Interrupt, Leave
<1>10. CASE UNCHANGED vars
  BY <1>6, <1>10 DEF vars, Signalled
<1> QED
  BY <1>3, <1>4, <1>5, <1>7, <1>8, <1>9, <1>10
  DEF Next, StartCall, Proceed, Removal

\* signal() loses nothing against signalAll(): while threads wait for a
\* condition, every slot or item it is about has a signalled thread to take it.
THEOREM QueueLosesNoSignal == Spec => []NoLostSignal
<1>1. Init => NoLostSignal
  BY DEF Init, NoLostSignal
<1> QED
  BY InitInv, StepInv, StepSignals, <1>1, PTL DEF Spec

\* A full queue is not empty: adders and removers cannot all be asleep.
THEOREM QueueNeverStandsOff == Spec => []NoStandoff
<1>1. Inv /\ NoLostSignal => NoStandoff
  <2> SUFFICES ASSUME Inv, NoLostSignal, notFull # << >>, notEmpty # << >>,
                      \A t \in Thread : pc[t] # "signalled"
               PROVE  FALSE
    BY DEF NoStandoff
  <2>1. Signalled({"add"}) = {} /\ Signalled(Removal) = {}
    BY DEF Signalled
  <2>2. Cardinality({}) = 0
    BY FS_EmptySet
  <2>3. Capacity - count <= 0 /\ count <= 0
    BY <2>1, <2>2 DEF NoLostSignal
  <2> QED
    BY <2>3, CapacityAssumption DEF Inv, TypeOK
<1> QED
  BY InitInv, StepInv, QueueLosesNoSignal, <1>1, PTL DEF Spec

-----------------------------------------------------------------------------
(* The array as a list.                                                    *)

LEMMA StepGhosts == Inv /\ NoGhosts /\ [Next]_vars => NoGhosts'
<1> SUFFICES ASSUME Inv, NoGhosts, [Next]_vars PROVE NoGhosts'
  OBVIOUS
<1>1. count \in 0 .. Capacity /\ Capacity \in Nat \ {0}
      /\ arr \in [Slot -> Item \cup {Null}]
  BY CapacityAssumption DEF Inv, TypeOK
<1>2. ASSUME NEW t \in Thread, AddItem(t) PROVE NoGhosts'
  BY <1>1, <1>2 DEF AddItem, NoGhosts, Slot
<1>3. ASSUME NEW t \in Thread, RemoveHead(t) PROVE NoGhosts'
  BY <1>1, <1>3 DEF RemoveHead, NoGhosts, Slot
<1>4. ASSUME NEW t \in Thread, RemoveFromEnd(t) PROVE NoGhosts'
  BY <1>1, <1>4 DEF RemoveFromEnd, NoGhosts, Slot
<1>5. CASE UNCHANGED <<arr, count>>
  BY <1>5 DEF NoGhosts
<1> QED
  BY <1>2, <1>3, <1>4, <1>5
  DEF Next, StartCall, Proceed, Call, Await, AwaitThrows, Throw, Interrupt, vars

\* The queue forgets what it has handed out, at either end.
THEOREM QueueForgets == Spec => []NoGhosts
<1>1. Init => NoGhosts
  BY DEF Init, NoGhosts
<1> QED
  BY InitInv, StepInv, StepGhosts, <1>1, PTL DEF Spec

\* The first n slots of an array as a list.
ListOf(a, n) == [i \in 1 .. n |-> a[i - 1]]

LEMMA ListOfType ==
  ASSUME NEW a \in [Slot -> Item \cup {Null}], NEW n \in 0 .. Capacity
  PROVE  /\ ListOf(a, n) \in Seq(Item \cup {Null}) /\ Len(ListOf(a, n)) = n
         /\ \A i \in 1 .. n : ListOf(a, n)[i] = a[i - 1]
<1>1. \A i \in 1 .. n : a[i - 1] \in Item \cup {Null}
  BY CapacityAssumption DEF Slot
<1>2. n \in Nat
  BY CapacityAssumption
<1>3. ListOf(a, n) \in [1 .. n -> Item \cup {Null}]
  BY <1>1 DEF ListOf
<1> QED
  BY <1>2, <1>3 DEF ListOf

\* The items in the queue, in the order in which they were added.
Contents == ListOf(arr, count)

LEMMA StepDeque == Inv /\ Inv' /\ [Next]_vars => [Deque!Next]_(Deque!vars)
<1> SUFFICES ASSUME Inv, Inv', [Next]_vars PROVE [Deque!Next]_(Deque!vars)
  OBVIOUS
<1>1. /\ count \in 0 .. Capacity /\ count' \in 0 .. Capacity
      /\ Capacity \in Nat \ {0}
      /\ arr \in [Slot -> Item \cup {Null}] /\ arr' \in [Slot -> Item \cup {Null}]
  BY CapacityAssumption DEF Inv, TypeOK, Slot
<1>2. /\ Contents \in Seq(Item \cup {Null}) /\ Len(Contents) = count
      /\ \A i \in 1 .. count : Contents[i] = arr[i - 1]
  BY <1>1, ListOfType DEF Contents
<1>3. /\ Contents' \in Seq(Item \cup {Null}) /\ Len(Contents') = count'
      /\ \A i \in 1 .. count' : Contents'[i] = arr'[i - 1]
  BY <1>1, ListOfType DEF Contents
<1>4. ASSUME NEW t \in Thread, AddItem(t) PROVE \E x \in Item : Deque!Add(x)
  <2>1. /\ count < Capacity /\ count' = count + 1 /\ handed' = handed
        /\ arr' = [arr EXCEPT ![count] = item[t]] /\ item[t] \in Item
    BY <1>4 DEF AddItem, HasLock, Inv, TypeOK
  <2>2. /\ Append(Contents, item[t]) \in Seq(Item \cup {Null})
        /\ Len(Append(Contents, item[t])) = count + 1
        /\ \A i \in 1 .. count : Append(Contents, item[t])[i] = Contents[i]
        /\ Append(Contents, item[t])[count + 1] = item[t]
    BY <1>2, <2>1, AppendProperties
  <2>3. \A i \in 1 .. count + 1 : Contents'[i] = Append(Contents, item[t])[i]
    <3> SUFFICES ASSUME NEW i \in 1 .. count + 1
                 PROVE  Contents'[i] = Append(Contents, item[t])[i]
      OBVIOUS
    <3>1. CASE i = count + 1
      <4>1. arr'[count] = item[t]
        BY <1>1, <2>1 DEF Slot
      <4> QED
        BY <1>1, <1>3, <2>1, <2>2, <3>1, <4>1
    <3>2. CASE i \in 1 .. count
      <4>1. arr'[i - 1] = arr[i - 1]
        BY <1>1, <2>1, <3>2 DEF Slot
      <4> QED
        BY <1>1, <1>2, <1>3, <2>1, <2>2, <3>2, <4>1
    <3>3. i = count + 1 \/ i \in 1 .. count
      BY <1>1
    <3> QED
      BY <3>1, <3>2, <3>3
  <2>4. Contents' = Append(Contents, item[t])
    BY <1>3, <2>1, <2>2, <2>3, SeqEqual
  <2> QED
    BY <1>2, <2>1, <2>4 DEF Deque!Add, Contents, ListOf
<1>5. ASSUME NEW t \in Thread, RemoveHead(t) PROVE Deque!TakeFirst(t)
  <2>1. /\ count > 0 /\ count' = count - 1 /\ handed' = <<t, arr[0]>>
        /\ arr' = [i \in Slot |-> IF i + 1 \in Slot THEN arr[i + 1] ELSE Null]
    BY <1>5 DEF RemoveHead
  <2>2. /\ Contents # << >> /\ Head(Contents) = arr[0]
        /\ Tail(Contents) \in Seq(Item \cup {Null})
        /\ Len(Tail(Contents)) = count - 1
        /\ \A i \in 1 .. count - 1 : Tail(Contents)[i] = arr[i]
    <3>1. Contents # << >> /\ Head(Contents) = Contents[1]
      BY <1>1, <1>2, <2>1
    <3>2. Contents[1] = arr[0]
      BY <1>1, <1>2, <2>1
    <3>3. /\ Tail(Contents) \in Seq(Item \cup {Null})
          /\ Len(Tail(Contents)) = count - 1
          /\ \A i \in 1 .. Len(Tail(Contents)) : Tail(Contents)[i] = Contents[i + 1]
      BY <1>2, <3>1, HeadTailProperties
    <3>4. \A i \in 1 .. count - 1 : Contents[i + 1] = arr[i]
      BY <1>1, <1>2
    <3> QED
      BY <3>1, <3>2, <3>3, <3>4
  <2>3. \A i \in 1 .. count - 1 : Contents'[i] = arr[i]
    <3>1. \A i \in 1 .. count - 1 : i - 1 \in Slot /\ i \in Slot /\ (i - 1) + 1 = i
      BY <1>1 DEF Slot
    <3>2. \A i \in 1 .. count - 1 : arr'[i - 1] = arr[i]
      BY <2>1, <3>1
    <3> QED
      BY <1>3, <2>1, <3>2
  <2>4. Contents' = Tail(Contents)
    BY <1>3, <2>1, <2>2, <2>3, SeqEqual
  <2> QED
    BY <2>1, <2>2, <2>4 DEF Deque!TakeFirst, Contents, ListOf
<1>6. ASSUME NEW t \in Thread, RemoveFromEnd(t) PROVE Deque!TakeLast(t)
  <2>1. /\ count > 0 /\ count' = count - 1 /\ handed' = <<t, arr[count - 1]>>
        /\ arr' = [arr EXCEPT ![count - 1] = Null]
    BY <1>6 DEF RemoveFromEnd
  <2>2. Contents # << >> /\ Last(Contents) = arr[count - 1]
    BY <1>1, <1>2, <2>1 DEF Last
  <2>3. /\ Front(Contents) \in Seq(Item \cup {Null})
        /\ Len(Front(Contents)) = count - 1
        /\ \A i \in 1 .. count - 1 : Front(Contents)[i] = Contents[i]
    BY <1>1, <1>2, <2>1 DEF Front
  <2>4. \A i \in 1 .. count - 1 : Contents'[i] = Contents[i]
    <3>1. \A i \in 1 .. count - 1 : i - 1 \in Slot /\ i - 1 # count - 1
      BY <1>1 DEF Slot
    <3>2. \A i \in 1 .. count - 1 : arr'[i - 1] = arr[i - 1]
      BY <1>1, <2>1, <3>1
    <3> QED
      BY <1>1, <1>2, <1>3, <2>1, <3>2
  <2>5. Contents' = Front(Contents)
    BY <1>3, <2>1, <2>3, <2>4, SeqEqual
  <2> QED
    BY <2>1, <2>2, <2>5 DEF Deque!TakeLast, Deque!Last, Deque!Front, Last, Front,
       Contents, ListOf
<1>7. CASE UNCHANGED <<arr, count, handed>>
  BY <1>7 DEF Deque!vars
<1> QED
  BY <1>4, <1>5, <1>6, <1>7
  DEF Next, StartCall, Proceed, Call, Await, AwaitThrows, Throw, Interrupt, vars,
      Deque!Next

\* The array with its counter, the lock and the conditions implement the
\* bounded deque: items come out once each and from the end that was asked for.
THEOREM QueueImplementsDeque == Spec => DequeSpec
<1>1. Init => Contents = << >>
  BY DEF Init, Contents, ListOf
<1> QED
  BY InitInv, StepInv, StepDeque, <1>1, PTL
  DEF Spec, DequeSpec, Deque!Spec, Contents, ListOf
=============================================================================
