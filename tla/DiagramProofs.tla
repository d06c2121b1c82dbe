---------------------------- MODULE DiagramProofs ----------------------------
(***************************************************************************)
(* For any callbacks, process.nextTick() keeps them in order and always    *)
(* has one timer for them.  For any branches and any number of commits, a  *)
(* merge of a gitGraph loses nothing and its drawing has every line once.  *)
(* For any ids, any number of tasks and any number of passes, the tasks of *)
(* a gantt diagram have the times that what they wait for gives them.  For *)
(* any names, links and number of subgraphs, a flowchart has each vertex,  *)
(* link and subgraph where its text puts it.                               *)
(***************************************************************************)
EXTENDS NextTick, GitGraph, Gantt, FlowChart, ListLemmas, FiniteSetTheorems

\* A list without its first n elements, when another list is put behind it.
LEMMA RestOfConcat ==
  ASSUME NEW S, NEW c \in Seq(S), NEW q \in Seq(S), NEW n \in 0 .. Len(c)
  PROVE  SubSeq(c \o q, n + 1, Len(c \o q)) = SubSeq(c, n + 1, Len(c)) \o q
<1> DEFINE all  == c \o q
           rest == SubSeq(c, n + 1, Len(c))
           left == SubSeq(all, n + 1, Len(all))
           right == rest \o q
<1>1. /\ Len(c) \in Nat /\ Len(q) \in Nat /\ n \in Int
      /\ 0 <= n /\ n <= Len(c)
  BY LenProperties
<1>2. /\ all \in Seq(S) /\ Len(all) = Len(c) + Len(q)
      /\ \A i \in 1 .. Len(c) + Len(q) :
           all[i] = IF i <= Len(c) THEN c[i] ELSE q[i - Len(c)]
  BY ConcatProperties
<1>3. /\ rest \in Seq(S) /\ Len(rest) = Len(c) - n
      /\ \A i \in 1 .. Len(c) - n : rest[i] = c[n + i]
  <2>1. \A i \in n + 1 .. Len(c) : c[i] \in S
    BY <1>1, ElementOfSeq
  <2> HIDE DEF rest
  <2>2. /\ rest \in Seq(S)
        /\ Len(rest) = IF n + 1 <= Len(c) THEN Len(c) - (n + 1) + 1 ELSE 0
        /\ \A i \in 1 .. Len(c) - (n + 1) + 1 : rest[i] = c[n + 1 + i - 1]
    BY <1>1, <2>1, SubSeqProperties DEF rest
  <2> QED
    BY <1>1, <2>2
<1> HIDE DEF all
<1>4. /\ left \in Seq(S) /\ Len(left) = Len(c) + Len(q) - n
      /\ \A i \in 1 .. Len(c) + Len(q) - n : left[i] = all[n + i]
  <2>1. \A i \in n + 1 .. Len(all) : all[i] \in S
    BY <1>1, <1>2, ElementOfSeq
  <2> HIDE DEF left
  <2>2. /\ left \in Seq(S)
        /\ Len(left) = IF n + 1 <= Len(all) THEN Len(all) - (n + 1) + 1 ELSE 0
        /\ \A i \in 1 .. Len(all) - (n + 1) + 1 : left[i] = all[n + 1 + i - 1]
    BY <1>1, <1>2, <2>1, SubSeqProperties DEF left
  <2> QED
    BY <1>1, <1>2, <2>2
<1> HIDE DEF rest
<1>5. /\ right \in Seq(S) /\ Len(right) = Len(rest) + Len(q)
      /\ \A i \in 1 .. Len(rest) + Len(q) :
           right[i] = IF i <= Len(rest) THEN rest[i] ELSE q[i - Len(rest)]
  BY <1>3, ConcatProperties
<1> HIDE DEF left, right
<1>6. Len(left) = Len(right)
  BY <1>1, <1>3, <1>4, <1>5
<1>7. ASSUME NEW i \in 1 .. Len(left)  PROVE left[i] = right[i]
  <2>1. i \in 1 .. Len(c) + Len(q) - n /\ n + i \in 1 .. Len(c) + Len(q)
    BY <1>1, <1>4
  <2>2. CASE i <= Len(c) - n
    <3>1. left[i] = c[n + i]
      BY <1>1, <1>2, <1>4, <2>1, <2>2
    <3> QED
      BY <1>1, <1>3, <1>5, <2>1, <2>2, <3>1
  <2>3. CASE ~(i <= Len(c) - n)
    <3>1. left[i] = q[n + i - Len(c)]
      BY <1>1, <1>2, <1>4, <2>1, <2>3
    <3>2. right[i] = q[i - (Len(c) - n)]
      BY <1>1, <1>3, <1>5, <2>1, <2>3
    <3>3. n + i - Len(c) = i - (Len(c) - n)
      BY <1>1, <2>1
    <3> QED
      BY <3>1, <3>2, <3>3
  <2> QED
    BY <2>2, <2>3
<1>8. left = right
  BY <1>4, <1>5, <1>6, <1>7, SeqEqual
<1> QED
  BY <1>8 DEF left, right, all, rest

-----------------------------------------------------------------------------
\* The invariant: besides the types and the two properties, where the pieces
\* are.  Outside drainQueue() callbacks are current only after an exception;
\* inside it, its own timer is the only one.
Phases ==
  /\ draining \/ currentQueue = << >>
  /\ draining \/ queueIndex = 0
  /\ draining => currentQueue # << >>
  /\ at # "event loop" => draining /\ cleanTimers = 1 /\ drainTimers = 0

TickInv == TickTypes /\ Phases /\ OneTimerRunsThem /\ TicksInOrder

LEMMA TickInvInit == TickInit => TickInv
<1> SUFFICES ASSUME TickInit PROVE TickInv
  OBVIOUS
<1>1. << >> \in Seq(Item) /\ Len(<< >>) = 0
  BY EmptySeq
<1>2. TickTypes /\ Phases
  <2>1. 0 \in 0 .. Len(<< >>)
    BY <1>1
  <2>2. TickTypes
    BY <1>1, <2>1 DEF TickInit, TickTypes
  <2>3. Phases
    BY DEF TickInit, Phases
  <2> QED
    BY <2>2, <2>3
<1>3. Waiting = << >>
  <2>1. SubSeq(<< >>, 0 + 1, Len(<< >>)) = << >>
    BY <1>1, SubSeqEmpty
  <2>2. << >> \o << >> = << >>
    BY <1>1, ConcatEmptySeq
  <2> QED
    BY <2>1, <2>2 DEF TickInit, Waiting
<1>4. OneTimerRunsThem
  BY <1>3 DEF TickInit, OneTimerRunsThem
<1>5. TicksInOrder
  <2>1. << >> \o << >> = << >>
    BY <1>1, ConcatEmptySeq
  <2> QED
    BY <1>3, <2>1 DEF TickInit, TicksInOrder
<1> QED
  BY <1>2, <1>4, <1>5 DEF TickInv

\* The rest of a list is a list, and is empty when all has been begun.
LEMMA RestType ==
  ASSUME NEW S, NEW s \in Seq(S), NEW n \in 0 .. Len(s)
  PROVE  /\ SubSeq(s, n + 1, Len(s)) \in Seq(S)
         /\ SubSeq(s, n + 1, Len(s)) = << >> <=> n = Len(s)
<1> DEFINE rest == SubSeq(s, n + 1, Len(s))
<1>1. Len(s) \in Nat /\ n \in Int
  BY LenProperties
<1>2. \A i \in n + 1 .. Len(s) : s[i] \in S
  BY <1>1, ElementOfSeq
<1> HIDE DEF rest
<1>3. rest \in Seq(S)
      /\ Len(rest) = IF n + 1 <= Len(s) THEN Len(s) - (n + 1) + 1 ELSE 0
  BY <1>1, <1>2, SubSeqProperties DEF rest
<1>4. rest = << >> <=> Len(rest) = 0
  BY <1>3, EmptySeq
<1> QED
  BY <1>1, <1>3, <1>4 DEF rest

\* What waits is a list of callbacks.
LEMMA WaitingType == TickTypes => Waiting \in Seq(Item)
<1> SUFFICES ASSUME TickTypes PROVE Waiting \in Seq(Item)
  OBVIOUS
<1>1. SubSeq(currentQueue, queueIndex + 1, Len(currentQueue)) \in Seq(Item)
  BY RestType DEF TickTypes
<1> QED
  BY <1>1, ConcatProperties DEF TickTypes, Waiting

\* When drainQueue() takes up a list q of which n have been begun, what waits
\* is the rest of q.
LEMMA TakeOrEndWaits ==
  ASSUME NEW q \in Seq(Item), NEW c, TakeOrEnd(q, c), queueIndex' \in 0 .. Len(q)
  PROVE  Waiting' = SubSeq(q, queueIndex' + 1, Len(q))
<1>1. SubSeq(q, queueIndex' + 1, Len(q)) \in Seq(Item)
  BY RestType
<1>2. SubSeq(q, queueIndex' + 1, Len(q)) \o << >> = SubSeq(q, queueIndex' + 1, Len(q))
  BY <1>1, ConcatEmptySeq
<1> QED
  BY <1>2 DEF TakeOrEnd, Waiting

\* Outside drainQueue(), unless a callback has thrown, what waits is queue.
LEMMA WaitingIsQueue ==
  ASSUME TickTypes, currentQueue = << >> \/ queueIndex = Len(currentQueue)
  PROVE  Waiting = queue
<1>1. SubSeq(currentQueue, queueIndex + 1, Len(currentQueue)) = << >>
  <2>1. CASE currentQueue = << >>
    <3>1. Len(currentQueue) = 0 /\ queueIndex \in 0 .. 0
      BY <2>1, EmptySeq DEF TickTypes
    <3>2. queueIndex = Len(currentQueue)
      BY <3>1
    <3> QED
      BY <3>2, RestType DEF TickTypes
  <2>2. CASE queueIndex = Len(currentQueue)
    BY <2>2, RestType DEF TickTypes
  <2> QED
    BY <2>1, <2>2
<1>2. << >> \o queue = queue
  BY ConcatEmptySeq DEF TickTypes
<1> QED
  BY <1>1, <1>2 DEF Waiting

-----------------------------------------------------------------------------
\* Every step keeps the invariant.
LEMMA TickInvStep == TickInv /\ [TickNext]_tickVars => TickInv'
<1> SUFFICES ASSUME TickInv, [TickNext]_tickVars PROVE TickInv'
  OBVIOUS
<1> USE DEF timers
<1>a. /\ queue \in Seq(Item) /\ currentQueue \in Seq(Item)
      /\ asked \in Seq(Item) /\ begun \in Seq(Item)
      /\ Len(queue) \in Nat /\ Len(currentQueue) \in Nat
      /\ queueIndex \in Nat /\ queueIndex <= Len(currentQueue)
      /\ << >> \in Seq(Item) /\ Len(<< >>) = 0
      /\ drainTimers \in Nat /\ cleanTimers \in Nat
  <2>1. /\ queue \in Seq(Item) /\ currentQueue \in Seq(Item)
        /\ asked \in Seq(Item) /\ begun \in Seq(Item)
        /\ queueIndex \in 0 .. Len(currentQueue)
        /\ drainTimers \in Nat /\ cleanTimers \in Nat
    BY DEF TickInv, TickTypes
  <2>2. Len(queue) \in Nat /\ Len(currentQueue) \in Nat
    BY <2>1, LenProperties
  <2>3. << >> \in Seq(Item) /\ Len(<< >>) = 0
    BY EmptySeq
  <2>4. queueIndex \in Nat /\ queueIndex <= Len(currentQueue)
    BY <2>1, <2>2
  <2> QED
    BY <2>1, <2>2, <2>3, <2>4
<1>b. Waiting \in Seq(Item)
  BY WaitingType DEF TickInv
<1>1. ASSUME NEW item \in Item, CallNextTick(item)  PROVE TickInv'
  <2>1. Waiting' = Append(Waiting, item)
    <3> DEFINE rest == SubSeq(currentQueue, queueIndex + 1, Len(currentQueue))
    <3>1. rest \in Seq(Item)
      BY RestType DEF TickInv, TickTypes
    <3> HIDE DEF rest
    <3>2. rest \o (queue \o <<item>>) = (rest \o queue) \o <<item>>
      BY <1>a, <3>1, ConcatAssociative
    <3>3. queue \o <<item>> = Append(queue, item)
      BY <1>a, AppendIsConcat
    <3>4. rest \o queue \in Seq(Item)
      BY <1>a, <3>1, ConcatProperties
    <3>5. (rest \o queue) \o <<item>> = Append(rest \o queue, item)
      BY <3>4, AppendIsConcat
    <3>6. Waiting = rest \o queue /\ Waiting' = rest \o Append(queue, item)
      BY <1>1 DEF CallNextTick, Waiting, rest
    <3> QED
      BY <3>2, <3>3, <3>5, <3>6
  <2>2. TicksInOrder'
    <3>1. begun \o (Waiting \o <<item>>) = (begun \o Waiting) \o <<item>>
      BY <1>a, <1>b, ConcatAssociative
    <3>2. Waiting \o <<item>> = Append(Waiting, item)
      BY <1>b, AppendIsConcat
    <3>3. asked \o <<item>> = Append(asked, item)
      BY <1>a, AppendIsConcat
    <3>4. asked = begun \o Waiting
      BY DEF TickInv, TicksInOrder
    <3>5. asked' = Append(asked, item) /\ begun' = begun
      BY <1>1 DEF CallNextTick
    <3> QED
      BY <2>1, <3>1, <3>2, <3>3, <3>4, <3>5 DEF TicksInOrder
  <2>3. TickTypes'
    <3>1. Append(queue, item) \in Seq(Item) /\ Append(asked, item) \in Seq(Item)
      BY <1>a, AppendProperties
    <3>2. drainTimers' \in Nat
      <4>1. drainTimers' \in {drainTimers, drainTimers + 1}
        BY <1>1 DEF CallNextTick
      <4> QED
        BY <1>a, <4>1
    <3>3. /\ queue' = Append(queue, item) /\ asked' = Append(asked, item)
          /\ UNCHANGED <<currentQueue, queueIndex, draining, cleanTimers, at, begun>>
      BY <1>1 DEF CallNextTick
    <3> QED
      BY <3>1, <3>2, <3>3 DEF TickInv, TickTypes
  <2>4. Phases'
    BY <1>1 DEF TickInv, Phases, OneTimerRunsThem, CallNextTick
  <2>5. Waiting' # << >>
    BY <1>b, <2>1, AppendProperties
  <2>6. ~draining => Waiting = queue
    BY WaitingIsQueue DEF TickInv, Phases
  <2>7. OneTimerRunsThem'
    <3>1. UNCHANGED <<draining, cleanTimers, at>>
      BY <1>1 DEF CallNextTick
    <3>2. CASE at = "event loop" /\ draining
      <4>1. drainTimers' = drainTimers
        BY <1>1, <3>2 DEF CallNextTick
      <4> QED
        BY <3>1, <3>2, <4>1 DEF TickInv, OneTimerRunsThem
    <3>3. CASE at = "event loop" /\ ~draining
      <4>1. drainTimers' = IF queue = << >> THEN drainTimers + 1 ELSE drainTimers
        BY <1>1, <3>3 DEF CallNextTick
      <4>2. drainTimers = IF queue = << >> THEN 0 ELSE 1
        BY <2>6, <3>3 DEF TickInv, OneTimerRunsThem
      <4>3. drainTimers' = 1
        BY <4>1, <4>2
      <4> QED
        BY <2>5, <3>1, <3>3, <4>3 DEF TickInv, OneTimerRunsThem
    <3> QED
      BY <3>1, <3>2, <3>3 DEF OneTimerRunsThem
  <2> QED
    BY <2>2, <2>3, <2>4, <2>7 DEF TickInv
<1>2. CASE FireDrain
  <2>1. ~draining /\ cleanTimers = 0 /\ drainTimers = 1 /\ Waiting # << >>
    <3>1. at = "event loop" /\ drainTimers # 0
      <4>1. at = "event loop"
        BY <1>2 DEF FireDrain
      <4>2. drainTimers > 0
        BY <1>2 DEF FireDrain
      <4>3. drainTimers # 0
        BY <4>2
      <4> QED
        BY <4>1, <4>3
    <3> QED
      BY <3>1 DEF TickInv, OneTimerRunsThem
  <2>2. currentQueue = << >> /\ queueIndex = 0
    BY <2>1 DEF TickInv, Phases
  <2>3. Waiting = queue
    BY <2>2, WaitingIsQueue DEF TickInv
  <2>4. TakeOrEnd(queue, cleanTimers + 1) /\ queueIndex' = 0
    BY <1>2, <2>1, <2>2 DEF FireDrain
  <2>5. Waiting' = queue
    <3>1. Waiting' = SubSeq(queue, 0 + 1, Len(queue))
      BY <1>a, <2>4, TakeOrEndWaits
    <3>2. SubSeq(queue, 1, Len(queue)) = queue
      BY <1>a, SubSeqFull
    <3> QED
      BY <3>1, <3>2
  <2>6. TicksInOrder'
    BY <1>2, <2>3, <2>5 DEF TickInv, TicksInOrder, FireDrain
  <2>7. /\ queue' = << >> /\ currentQueue' = queue /\ queueIndex' = 0
        /\ draining' = TRUE /\ drainTimers' = 0 /\ cleanTimers' = 1
        /\ at' = "between" /\ UNCHANGED <<asked, begun>>
    <3>1. queue # << >>
      BY <2>1, <2>3
    <3>2. draining' = TRUE /\ cleanTimers' = 0 + 1 /\ at' = "between"
      BY <2>1, <2>4, <3>1 DEF TakeOrEnd
    <3>3. drainTimers' = 1 - 1 /\ UNCHANGED <<asked, begun>>
      BY <1>2, <2>1 DEF FireDrain
    <3> QED
      BY <2>4, <3>2, <3>3 DEF TakeOrEnd
  <2>8. TickTypes'
    <3>1. 0 \in 0 .. Len(queue)
      BY <1>a
    <3> QED
      BY <1>a, <2>7, <3>1 DEF TickTypes
  <2>9. Phases' /\ OneTimerRunsThem'
    BY <2>1, <2>3, <2>7 DEF Phases, OneTimerRunsThem
  <2> QED
    BY <2>6, <2>8, <2>9 DEF TickInv
<1>3. CASE FireCleanUp
  <2>1. draining /\ cleanTimers = 1 /\ drainTimers = 0 /\ currentQueue # << >>
    <3>1. at = "event loop" /\ cleanTimers # 0
      <4>1. at = "event loop"
        BY <1>3 DEF FireCleanUp
      <4>2. cleanTimers > 0
        BY <1>3 DEF FireCleanUp
      <4>3. cleanTimers # 0
        BY <4>2
      <4> QED
        BY <4>1, <4>3
    <3> QED
      BY <3>1 DEF TickInv, Phases, OneTimerRunsThem
  <2> DEFINE q == currentQueue \o queue
  <2>2. TakeOrEnd(q, cleanTimers) /\ queueIndex' = queueIndex
    BY <1>3, <2>1 DEF FireCleanUp
  <2>3. /\ q \in Seq(Item) /\ Len(q) = Len(currentQueue) + Len(queue)
    BY <1>a, ConcatProperties
  <2>4. q # << >>
    BY <1>a, <2>1, ConcatEqualIffEmpty
  <2>5. SubSeq(q, queueIndex + 1, Len(q)) = Waiting
    <3>1. queueIndex \in 0 .. Len(currentQueue)
      BY <1>a
    <3> QED
      BY <1>a, <3>1, RestOfConcat DEF Waiting
  <2> HIDE DEF q
  <2>6. queueIndex \in 0 .. Len(q)
    BY <1>a, <2>3
  <2>7. Waiting' = Waiting
    BY <2>2, <2>3, <2>5, <2>6, TakeOrEndWaits
  <2>8. TicksInOrder'
    BY <1>3, <2>7 DEF TickInv, TicksInOrder, FireCleanUp
  <2>9. TickTypes'
    BY <1>3, <1>a, <2>1, <2>2, <2>3, <2>4, <2>6
    DEF TickInv, TickTypes, FireCleanUp, TakeOrEnd
  <2>10. Phases' /\ OneTimerRunsThem'
    BY <1>3, <2>1, <2>2, <2>4 DEF Phases, OneTimerRunsThem, FireCleanUp, TakeOrEnd
  <2> QED
    BY <2>8, <2>9, <2>10 DEF TickInv
<1>4. CASE Begin
  <2> DEFINE x == currentQueue[queueIndex + 1]
             n == Len(currentQueue)
  <2>1. queueIndex + 1 \in 1 .. n /\ n \in n .. n
    BY <1>4, <1>a DEF Begin
  <2>2. x \in Item
    BY <1>a, <2>1, ElementOfSeq
  <2>3. SubSeq(currentQueue, queueIndex + 1, n)
          = <<x>> \o SubSeq(currentQueue, queueIndex + 1 + 1, n)
    <3>1. \A k \in 1 .. n : \A j \in k .. n :
            SubSeq(currentQueue, k, j)
              = <<currentQueue[k]>> \o SubSeq(currentQueue, k + 1, j)
      BY <1>a, SubSeqRecursiveFirst
    <3>2. n \in queueIndex + 1 .. n
      BY <1>a, <2>1
    <3> QED
      BY <2>1, <3>1, <3>2
  <2>4. Waiting = <<x>> \o Waiting' /\ Waiting' \in Seq(Item)
    <3> DEFINE rest == SubSeq(currentQueue, queueIndex + 1 + 1, n)
    <3>1. rest \in Seq(Item)
      BY <1>a, <2>1, RestType
    <3>2. <<x>> \in Seq(Item)
      BY <2>2
    <3>3. Waiting' = rest \o queue
      BY <1>4 DEF Begin, Waiting
    <3>4. Waiting = (<<x>> \o rest) \o queue
      BY <2>3 DEF Waiting
    <3> HIDE DEF rest, x, n
    <3>5. (<<x>> \o rest) \o queue = <<x>> \o (rest \o queue)
      <4>1. queue \in Seq(Item)
        BY <1>a
      <4> QED
        BY <3>1, <3>2, <4>1, ConcatAssociative
    <3>6. rest \o queue \in Seq(Item)
      BY <1>a, <3>1, ConcatProperties
    <3> QED
      BY <3>3, <3>4, <3>5, <3>6
  <2>5. TickTypes'
    <3>1. Append(begun, x) \in Seq(Item)
      BY <1>a, <2>2, AppendProperties
    <3>2. queueIndex + 1 \in 0 .. n
      BY <1>a, <2>1
    <3>3. /\ queueIndex' = queueIndex + 1 /\ begun' = Append(begun, x) /\ at' = "callback"
          /\ UNCHANGED <<queue, currentQueue, draining, drainTimers, cleanTimers, asked>>
      BY <1>4 DEF Begin
    <3> HIDE DEF x
    <3> QED
      BY <3>1, <3>2, <3>3 DEF TickInv, TickTypes
  <2>6. Phases' /\ OneTimerRunsThem'
    BY <1>4 DEF TickInv, Phases, OneTimerRunsThem, Begin
  <2>7. TicksInOrder'
    <3>1. Waiting' \in Seq(Item)
      BY <2>4
    <3>2. <<x>> \in Seq(Item)
      BY <2>2
    <3>3. begun' = Append(begun, x) /\ asked' = asked
      BY <1>4 DEF Begin
    <3> HIDE DEF x
    <3>4. Append(begun, x) = begun \o <<x>>
      BY <1>a, <2>2, AppendIsConcat
    <3>5. (begun \o <<x>>) \o Waiting' = begun \o (<<x>> \o Waiting')
      <4>1. begun \in Seq(Item)
        BY <1>a
      <4> QED
        BY <3>1, <3>2, <4>1, ConcatAssociative
    <3>6. asked = begun \o Waiting
      BY DEF TickInv, TicksInOrder
    <3> QED
      BY <2>4, <3>3, <3>4, <3>5, <3>6 DEF TicksInOrder
  <2> QED
    BY <2>5, <2>6, <2>7 DEF TickInv
<1>5. CASE EndOfQueue
  <2>1. draining /\ cleanTimers = 1 /\ drainTimers = 0
    BY <1>5 DEF TickInv, Phases, EndOfQueue
  <2>2. Waiting = queue
    BY <1>5, WaitingIsQueue DEF TickInv, EndOfQueue
  <2>3. TakeOrEnd(queue, cleanTimers) /\ queueIndex' = 0
    BY <1>5 DEF EndOfQueue
  <2>4. Waiting' = queue
    <3>1. Waiting' = SubSeq(queue, 0 + 1, Len(queue))
      BY <1>a, <2>3, TakeOrEndWaits
    <3>2. SubSeq(queue, 1, Len(queue)) = queue
      BY <1>a, SubSeqFull
    <3> QED
      BY <3>1, <3>2
  <2>5. TicksInOrder'
    BY <1>5, <2>2, <2>4 DEF TickInv, TicksInOrder, EndOfQueue
  <2>6. /\ queue' = << >> /\ currentQueue' = queue /\ queueIndex' = 0
        /\ drainTimers' = 0 /\ UNCHANGED <<asked, begun>>
    BY <1>5, <2>1, <2>3 DEF EndOfQueue, TakeOrEnd
  <2>7. \/ queue # << >> /\ draining' = TRUE /\ cleanTimers' = 1 /\ at' = "between"
        \/ queue = << >> /\ draining' = FALSE /\ cleanTimers' = 0 /\ at' = "event loop"
    <3>1. CASE queue # << >>
      BY <2>1, <2>3, <3>1 DEF TakeOrEnd
    <3>2. CASE queue = << >>
      <4>1. draining' = FALSE /\ at' = "event loop"
        BY <2>3, <3>2, Zenon DEF TakeOrEnd
      <4>2. cleanTimers' = 0
        <5>1. cleanTimers' = cleanTimers - 1
          BY <2>3, <3>2, Zenon DEF TakeOrEnd
        <5> QED
          BY <2>1, <5>1
      <4> QED
        BY <3>2, <4>1, <4>2, Zenon
    <3> QED
      BY <3>1, <3>2
  <2>8. TickTypes'
    <3>1. 0 \in 0 .. Len(queue)
      BY <1>a
    <3>2. draining' \in BOOLEAN /\ at' \in {"event loop", "between", "callback"}
      BY <2>7, Zenon
    <3>3. cleanTimers' \in Nat
      <4>1. cleanTimers' \in {0, 1}
        BY <2>7, Zenon
      <4> QED
        BY <4>1
    <3> QED
      BY <1>a, <2>6, <3>1, <3>2, <3>3 DEF TickTypes
  <2>9. Phases' /\ OneTimerRunsThem'
    BY <2>4, <2>6, <2>7 DEF Phases, OneTimerRunsThem
  <2> QED
    BY <2>5, <2>8, <2>9 DEF TickInv
<1>6. CASE CallbackReturns \/ CallbackThrows
  <2>1. Waiting' = Waiting
    BY <1>6 DEF CallbackReturns, CallbackThrows, Waiting
  <2> QED
    BY <1>6, <2>1 DEF TickInv, TickTypes, Phases, OneTimerRunsThem, TicksInOrder,
                      CallbackReturns, CallbackThrows
<1>7. CASE UNCHANGED tickVars
  <2>1. Waiting' = Waiting
    BY <1>7 DEF tickVars, Waiting
  <2> QED
    BY <1>7, <2>1 DEF TickInv, TickTypes, Phases, OneTimerRunsThem, TicksInOrder, tickVars
<1> QED
  BY <1>1, <1>2, <1>3, <1>4, <1>5, <1>6, <1>7 DEF TickNext, RunOn

-----------------------------------------------------------------------------
LEMMA TickInvariant == TickSpec => []TickInv
BY TickInvInit, TickInvStep, PTL DEF TickSpec

\* However many callbacks there are, each is begun once and in its turn, though
\* callbacks before it ask for more or throw.
THEOREM TicksKeepOrder == TickSpec => []TicksInOrder
<1>1. TickInv => TicksInOrder
  BY DEF TickInv
<1> QED
  BY <1>1, TickInvariant, PTL

\* While callbacks wait and the script is idle, exactly the timer that will run
\* them is pending.
THEOREM TicksHaveATimer == TickSpec => []OneTimerRunsThem
<1>1. TickInv => OneTimerRunsThem
  BY DEF TickInv
<1> QED
  BY <1>1, TickInvariant, PTL

-----------------------------------------------------------------------------
\* The commits of a gitGraph and what can be reached from them.

\* The parents of the commit c come before it, and the two of a merge differ;
\* the first of them is null if head was.
ParentsOf(c, s) ==
  \/ s = << >>
  \/ \E p \in 1 .. c - 1 : s = <<p>>
  \/ \E p \in 0 .. c - 1, q \in 1 .. c - 1 : p # q /\ s = <<p, q>>

Commits(cs) == cs \in Seq(Seq(Nat)) /\ \A c \in 1 .. Len(cs) : ParentsOf(c, cs[c])

\* Reach, of any list of commits.
ReachOf(cs, from, flagged) ==
  {c \in 1 .. Len(cs) : \A S \in SUBSET (1 .. Len(cs)) :
     (from \ flagged) \ {Null} \subseteq S
     /\ (\A d \in S : (ToSet(cs[d]) \ flagged) \ {Null} \subseteq S) => c \in S}

\* What the shape of a list of parents says of the list.
LEMMA ParentsBefore ==
  ASSUME NEW cs, Commits(cs), NEW c \in 1 .. Len(cs)
  PROVE  /\ Len(cs) \in Nat
         /\ ToSet(cs[c]) \subseteq 0 .. c - 1
         /\ Len(cs[c]) \in {0, 1, 2}
         /\ Len(cs[c]) = 0 <=> cs[c] = << >>
         /\ Len(cs[c]) = 0 => ToSet(cs[c]) = {}
         /\ Len(cs[c]) = 1 => cs[c][1] \in 1 .. c - 1 /\ ToSet(cs[c]) = {cs[c][1]}
         /\ Len(cs[c]) = 2 => /\ cs[c][1] \in 0 .. c - 1 /\ cs[c][2] \in 1 .. c - 1
                              /\ cs[c][1] # cs[c][2] /\ ToSet(cs[c]) = {cs[c][1], cs[c][2]}
<1>0. Len(cs) \in Nat /\ ParentsOf(c, cs[c])
  BY LenProperties DEF Commits
<1> DEFINE s == cs[c]
<1>1. CASE s = << >>
  BY <1>0, <1>1 DEF ToSet
<1>2. ASSUME NEW p \in 1 .. c - 1, s = <<p>>
      PROVE  Len(s) = 1 /\ s[1] \in 1 .. c - 1 /\ ToSet(s) = {s[1]} /\ s # << >>
  BY <1>2 DEF ToSet
<1>3. ASSUME NEW p \in 0 .. c - 1, NEW q \in 1 .. c - 1, p # q, s = <<p, q>>
      PROVE  Len(s) = 2 /\ s[1] \in 0 .. c - 1 /\ s[2] \in 1 .. c - 1 /\ s[1] # s[2]
             /\ ToSet(s) = {s[1], s[2]} /\ s # << >>
  <2>1. Len(s) = 2 /\ s[1] = p /\ s[2] = q /\ DOMAIN s = 1 .. 2
    BY <1>3
  <2> QED
    BY <1>3, <2>1 DEF ToSet
<1> HIDE DEF s
<1>4. \/ s = << >> \/ \E p \in 1 .. c - 1 : s = <<p>>
      \/ \E p \in 0 .. c - 1, q \in 1 .. c - 1 : p # q /\ s = <<p, q>>
  BY <1>0 DEF ParentsOf, s
<1>5. Len(s) = 1 \/ Len(s) = 2 => s # << >>
  OBVIOUS
<1>6. /\ ToSet(s) \subseteq 0 .. c - 1
      /\ Len(s) \in {0, 1, 2}
      /\ Len(s) = 0 <=> s = << >>
      /\ Len(s) = 0 => ToSet(s) = {}
      /\ Len(s) = 1 => s[1] \in 1 .. c - 1 /\ ToSet(s) = {s[1]}
      /\ Len(s) = 2 => /\ s[1] \in 0 .. c - 1 /\ s[2] \in 1 .. c - 1
                       /\ s[1] # s[2] /\ ToSet(s) = {s[1], s[2]}
  <2>1. CASE s = << >>
    BY <1>1, <2>1 DEF ToSet
  <2>2. CASE \E p \in 1 .. c - 1 : s = <<p>>
    BY <1>2, <2>2
  <2>3. CASE \E p \in 0 .. c - 1, q \in 1 .. c - 1 : p # q /\ s = <<p, q>>
    BY <1>3, <2>3
  <2> QED
    BY <1>4, <2>1, <2>2, <2>3
<1> QED
  BY <1>0, <1>6 DEF s

\* The commits that are reached are closed under parents that are not flagged,
\* and they are the least such set.
LEMMA ReachClosed ==
  ASSUME NEW cs, Commits(cs), NEW from \in SUBSET (0 .. Len(cs)), NEW flagged
  PROVE  /\ ReachOf(cs, from, flagged) \subseteq 1 .. Len(cs)
         /\ (from \ flagged) \ {Null} \subseteq ReachOf(cs, from, flagged)
         /\ \A d \in ReachOf(cs, from, flagged) :
              (ToSet(cs[d]) \ flagged) \ {Null} \subseteq ReachOf(cs, from, flagged)
<1> DEFINE R == ReachOf(cs, from, flagged)
<1>0. Len(cs) \in Nat
  BY LenProperties DEF Commits
<1>1. R \subseteq 1 .. Len(cs)
  BY DEF ReachOf
<1>2. (from \ flagged) \ {Null} \subseteq R
  <2> DEFINE F == (from \ flagged) \ {Null}
  <2>1. ASSUME NEW c \in F  PROVE c \in 1 .. Len(cs)
    <3>1. c \in 0 .. Len(cs) /\ c # 0
      BY DEF Null
    <3> QED
      BY <1>0, <3>1
  <2> HIDE DEF F
  <2>2. \A c \in F : c \in ReachOf(cs, from, flagged)
    BY <2>1 DEF ReachOf, F
  <2> QED
    BY <2>2 DEF F, R
<1>3. ASSUME NEW d \in R, NEW p \in (ToSet(cs[d]) \ flagged) \ {Null}
      PROVE  p \in R
  <2>1. p \in 1 .. Len(cs)
    <3>1. d \in 1 .. Len(cs)
      BY <1>1
    <3>2. p \in 0 .. d - 1
      BY <3>1, ParentsBefore
    <3> QED
      BY <1>0, <3>1, <3>2 DEF Null
  <2>2. ASSUME NEW S \in SUBSET (1 .. Len(cs)), (from \ flagged) \ {Null} \subseteq S,
               \A e \in S : (ToSet(cs[e]) \ flagged) \ {Null} \subseteq S
        PROVE  p \in S
    <3>1. d \in S
      BY <2>2 DEF ReachOf
    <3> QED
      BY <2>2, <3>1
  <2> HIDE DEF R
  <2>3. p \in ReachOf(cs, from, flagged)
    BY <2>1, <2>2 DEF ReachOf
  <2> QED
    BY <2>3 DEF R
<1> QED
  BY <1>1, <1>2, <1>3

\* ReachOf is the least set that is closed under parents.
LEMMA ReachLeast ==
  ASSUME NEW cs, NEW from, NEW flagged,
         NEW S \in SUBSET (1 .. Len(cs)), (from \ flagged) \ {Null} \subseteq S,
         \A e \in S : (ToSet(cs[e]) \ flagged) \ {Null} \subseteq S
  PROVE  ReachOf(cs, from, flagged) \subseteq S
BY DEF ReachOf

HistoryOf(cs, c) == ReachOf(cs, {c}, {})

\* The same for the history of one commit, which is that commit and the
\* histories of its parents, and holds no later commit.
LEMMA HistoryClosed ==
  ASSUME NEW cs, Commits(cs), NEW c \in 0 .. Len(cs)
  PROVE  /\ HistoryOf(cs, c) \subseteq 1 .. Len(cs)
         /\ c # Null => c \in HistoryOf(cs, c)
         /\ \A d \in HistoryOf(cs, c) : ToSet(cs[d]) \ {Null} \subseteq HistoryOf(cs, c)
<1>1. {c} \in SUBSET (0 .. Len(cs))
  OBVIOUS
<1>2. /\ ReachOf(cs, {c}, {}) \subseteq 1 .. Len(cs)
      /\ ({c} \ {}) \ {Null} \subseteq ReachOf(cs, {c}, {})
      /\ \A d \in ReachOf(cs, {c}, {}) :
           (ToSet(cs[d]) \ {}) \ {Null} \subseteq ReachOf(cs, {c}, {})
  BY <1>1, ReachClosed
<1> QED
  BY <1>2 DEF HistoryOf

\* The same for the history of one commit.
LEMMA HistoryLeast ==
  ASSUME NEW cs, NEW c, NEW S \in SUBSET (1 .. Len(cs)), c # Null => c \in S,
         \A e \in S : ToSet(cs[e]) \ {Null} \subseteq S
  PROVE  HistoryOf(cs, c) \subseteq S
<1>1. ({c} \ {}) \ {Null} \subseteq S /\ \A e \in S : (ToSet(cs[e]) \ {}) \ {Null} \subseteq S
  OBVIOUS
<1> QED
  BY <1>1, ReachLeast DEF HistoryOf

\* Nothing is in the history of no commit.
LEMMA HistoryNull == \A cs : HistoryOf(cs, Null) = {}
<1> TAKE cs
<1> DEFINE E == {}
<1>1. E \in SUBSET (1 .. Len(cs)) /\ \A e \in E : ToSet(cs[e]) \ {Null} \subseteq E
  OBVIOUS
<1> HIDE DEF E
<1>2. HistoryOf(cs, Null) \subseteq E
  BY <1>1, HistoryLeast
<1> QED
  BY <1>2 DEF E

\* What is in the history of a commit does not come after it.
LEMMA HistoryBefore ==
  ASSUME NEW cs, Commits(cs), NEW c \in 0 .. Len(cs)
  PROVE  \A d \in HistoryOf(cs, c) : d <= c
<1>1. Len(cs) \in Nat
  BY LenProperties DEF Commits
<1> DEFINE S == 1 .. c
<1>2. S \in SUBSET (1 .. Len(cs)) /\ (c # Null => c \in S)
  BY <1>1 DEF Null
<1>3. ASSUME NEW e \in S  PROVE ToSet(cs[e]) \ {Null} \subseteq S
  <2>1. ToSet(cs[e]) \subseteq 0 .. e - 1
    BY <1>2, ParentsBefore
  <2> QED
    BY <1>1, <2>1 DEF Null
<1> HIDE DEF S
<1>4. HistoryOf(cs, c) \subseteq S
  BY <1>2, <1>3, HistoryLeast
<1> QED
  BY <1>1, <1>4 DEF S

\* The history of a commit: itself, and the histories of its parents.
LEMMA HistoryStep ==
  ASSUME NEW cs, Commits(cs), NEW c \in 1 .. Len(cs)
  PROVE  HistoryOf(cs, c) = {c} \cup UNION {HistoryOf(cs, p) : p \in ToSet(cs[c])}
<1> DEFINE H == HistoryOf(cs, c)
           S == {c} \cup UNION {HistoryOf(cs, p) : p \in ToSet(cs[c])}
<1>1. Len(cs) \in Nat /\ c # Null /\ c \in 0 .. Len(cs) /\ ToSet(cs[c]) \subseteq 0 .. c - 1
      /\ ToSet(cs[c]) \subseteq 0 .. Len(cs)
  <2>1. Len(cs) \in Nat /\ ToSet(cs[c]) \subseteq 0 .. c - 1
    BY ParentsBefore
  <2>2. 0 .. c - 1 \subseteq 0 .. Len(cs)
    BY <2>1
  <2> QED
    BY <2>1, <2>2 DEF Null
<1>2. /\ H \subseteq 1 .. Len(cs) /\ c \in H
      /\ \A d \in H : ToSet(cs[d]) \ {Null} \subseteq H
  BY <1>1, HistoryClosed
<1>3. ASSUME NEW p \in ToSet(cs[c])
      PROVE  /\ HistoryOf(cs, p) \subseteq H /\ HistoryOf(cs, p) \subseteq 1 .. Len(cs)
             /\ p # Null => p \in HistoryOf(cs, p)
             /\ \A d \in HistoryOf(cs, p) : ToSet(cs[d]) \ {Null} \subseteq HistoryOf(cs, p)
  <2>1. p # Null => p \in H
    BY <1>2
  <2> HIDE DEF H
  <2>2. HistoryOf(cs, p) \subseteq H
    BY <1>2, <2>1, HistoryLeast
  <2> QED
    BY <1>1, <2>2, HistoryClosed
<1>4. S \subseteq H
  BY <1>2, <1>3
<1>5. H \subseteq S
  <2>1. S \in SUBSET (1 .. Len(cs)) /\ c \in S
    BY <1>3
  <2>2. ASSUME NEW e \in S  PROVE ToSet(cs[e]) \ {Null} \subseteq S
    <3>1. CASE e = c
      BY <1>3, <3>1
    <3>2. CASE e # c
      BY <1>3, <3>2
    <3> QED
      BY <3>1, <3>2
  <2> HIDE DEF S
  <2> QED
    BY <2>1, <2>2, HistoryLeast
<1> QED
  BY <1>4, <1>5

\* A list with one more element.
LEMMA AppendIs ==
  ASSUME NEW S, NEW s \in Seq(S), NEW x \in S
  PROVE  /\ Append(s, x) \in Seq(S) /\ Len(Append(s, x)) = Len(s) + 1 /\ Len(s) \in Nat
         /\ \A i \in 1 .. Len(s) : Append(s, x)[i] = s[i]
         /\ Append(s, x)[Len(s) + 1] = x
BY AppendProperties, LenProperties

\* A new commit changes nothing behind the others.
LEMMA HistoryKept ==
  ASSUME NEW cs, Commits(cs), NEW x \in Seq(Nat), NEW c \in 0 .. Len(cs)
  PROVE  HistoryOf(Append(cs, x), c) = HistoryOf(cs, c)
<1> DEFINE ds == Append(cs, x)
           H == HistoryOf(cs, c)
<1>1. /\ Len(cs) \in Nat /\ Len(ds) = Len(cs) + 1
      /\ \A i \in 1 .. Len(cs) : ds[i] = cs[i]
  BY AppendIs DEF Commits
<1>2. /\ H \subseteq 1 .. Len(cs) /\ (c # Null => c \in H)
      /\ \A d \in H : ToSet(cs[d]) \ {Null} \subseteq H
  BY HistoryClosed
<1> HIDE DEF ds, H
<1>3. HistoryOf(ds, c) \subseteq H
  <2>1. H \in SUBSET (1 .. Len(ds))
    BY <1>1, <1>2
  <2>2. \A d \in H : ToSet(ds[d]) \ {Null} \subseteq H
    BY <1>1, <1>2
  <2> QED
    BY <1>2, <2>1, <2>2, HistoryLeast
<1>4. ASSUME NEW S \in SUBSET (1 .. Len(ds)), ({c} \ {}) \ {Null} \subseteq S,
             \A e \in S : (ToSet(ds[e]) \ {}) \ {Null} \subseteq S
      PROVE  H \subseteq S
  <2> DEFINE T == S \cap (1 .. Len(cs))
  <2>1. T \in SUBSET (1 .. Len(cs)) /\ (c # Null => c \in T)
    BY <1>1, <1>4 DEF Null
  <2>2. ASSUME NEW e \in T  PROVE ToSet(cs[e]) \ {Null} \subseteq T
    <3>1. ToSet(cs[e]) \subseteq 0 .. e - 1 /\ cs[e] = ds[e] /\ e \in S /\ e \in 1 .. Len(cs)
      BY <1>1, ParentsBefore
    <3>2. ToSet(cs[e]) \ {Null} \subseteq S
      BY <1>4, <3>1
    <3> QED
      BY <1>1, <3>1, <3>2 DEF Null
  <2> HIDE DEF T
  <2>3. H \subseteq T
    BY <2>1, <2>2, HistoryLeast DEF H
  <2> QED
    BY <2>3 DEF T
<1>5. H \subseteq HistoryOf(ds, c)
  <2>1. H \subseteq 1 .. Len(ds)
    BY <1>1, <1>2
  <2> QED
    BY <1>4, <2>1 DEF HistoryOf, ReachOf
<1>6. HistoryOf(ds, c) = H
  BY <1>3, <1>5
<1> QED
  BY <1>6 DEF ds, H

-----------------------------------------------------------------------------
\* The walks of isfastforwardable() and reset().

\* The walk towards the first commit is defined for each commit, as the parents
\* of a commit come before it.
LEMMA FastStep ==
  ASSUME Commits(commits), NEW current \in Nat, NEW other \in 0 .. Len(commits)
  PROVE  IsFastForwardable(current, other) =
           IF other = Null THEN "throws"
           ELSE IF current < other /\ commits[other] # << >>
             THEN IF Len(commits[other]) = 1 \/ IsFastForwardable(current, commits[other][1]) # "no"
                  THEN IsFastForwardable(current, commits[other][1])
                  ELSE IsFastForwardable(current, commits[other][2])
           ELSE IF current = other THEN "yes" ELSE "no"
<1> DEFINE n == Len(commits)
           F(c, g) == IF c = Null THEN "throws"
                      ELSE IF current < c /\ commits[c] # << >>
                        THEN IF Len(commits[c]) = 1 \/ g[commits[c][1]] # "no"
                             THEN g[commits[c][1]] ELSE g[commits[c][2]]
                      ELSE IF current = c THEN "yes" ELSE "no"
           Is(k, g) == g = [c \in 0 .. k |-> F(c, g)]
           from == CHOOSE g : Is(n, g)
<1>0. n \in Nat
  BY LenProperties DEF Commits
<1>1. \A c : IsFastForwardable(current, c) = from[c]
  BY DEF IsFastForwardable
<1>2. ASSUME NEW c \in 0 .. n, NEW g, NEW h, \A d \in 0 .. c - 1 : g[d] = h[d]
      PROVE  F(c, g) = F(c, h)
  <2>1. CASE c = Null
    BY <2>1
  <2>2. CASE c # Null /\ commits[c] # << >>
    <3>0. c \in 1 .. n
      BY <1>0, <2>2 DEF Null
    <3>1. CASE Len(commits[c]) = 1
      <4>1. commits[c][1] \in 0 .. c - 1
        BY <1>0, <3>0, <3>1, ParentsBefore
      <4> QED
        BY <1>2, <3>1, <4>1
    <3>2. CASE Len(commits[c]) = 2
      <4>1. commits[c][1] \in 0 .. c - 1 /\ commits[c][2] \in 0 .. c - 1
        BY <1>0, <3>0, <3>2, ParentsBefore
      <4> QED
        BY <1>2, <3>2, <4>1
    <3> QED
      BY <2>2, <3>0, <3>1, <3>2, ParentsBefore
  <2>3. CASE c # Null /\ commits[c] = << >>
    BY <2>3
  <2> QED
    BY <2>1, <2>2, <2>3
<1> HIDE DEF F
<1>3. \E g : Is(n, g)
  <2> DEFINE S == {k \in Nat : k <= n => \E g : Is(k, g)}
  <2>1. 0 \in S
    <3> DEFINE h == [c \in 0 .. 0 |-> F(0, <<>>)]
    <3>1. F(0, h) = F(0, <<>>)
      BY <1>0, <1>2
    <3>2. Is(0, h)
      BY <3>1
    <3> HIDE DEF h
    <3> QED
      BY <3>2
  <2>2. ASSUME NEW k \in Nat, k \in S  PROVE k + 1 \in S
    <3> SUFFICES ASSUME k + 1 <= n  PROVE \E g : Is(k + 1, g)
      OBVIOUS
    <3>1. PICK g : Is(k, g)
      BY <1>0, <2>2
    <3>2. \A c \in 0 .. k : g[c] = F(c, g)
      BY <3>1, Zenon
    <3> DEFINE h == [c \in 0 .. k + 1 |-> IF c = k + 1 THEN F(c, g) ELSE g[c]]
    <3>3. ASSUME NEW c \in 0 .. k + 1  PROVE h[c] = F(c, h)
      <4>1. \A d \in 0 .. c - 1 : g[d] = h[d]
        OBVIOUS
      <4>2. c \in 0 .. n
        BY <1>0
      <4>3. F(c, g) = F(c, h)
        BY <1>2, <4>1, <4>2
      <4>4. h[c] = F(c, g)
        BY <3>2
      <4> QED
        BY <4>3, <4>4
    <3>4. Is(k + 1, h)
      BY <3>3
    <3> HIDE DEF h, Is
    <3> QED
      BY <3>4
  <2> HIDE DEF S
  <2>3. n \in S
    BY <1>0, <2>1, <2>2, NatSetInduction
  <2> QED
    BY <1>0, <2>3 DEF S
<1>4. Is(n, from)
  BY <1>3, Zenon
<1> HIDE DEF from
<1>5. from[other] = F(other, from)
  BY <1>4
<1> HIDE DEF Is
<1> QED
  BY <1>1, <1>5 DEF F

\* isfastforwardable() answers whether current is in the history of other,
\* unless it throws.
LEMMA FastRight ==
  ASSUME Commits(commits), NEW current \in Nat, NEW other \in 0 .. Len(commits)
  PROVE  /\ IsFastForwardable(current, other) \in {"yes", "no", "throws"}
         /\ IsFastForwardable(current, other) = "yes" => current \in HistoryOf(commits, other)
         /\ IsFastForwardable(current, other) = "no" => current \notin HistoryOf(commits, other)
<1> DEFINE n == Len(commits)
           Right(c) ==
             /\ IsFastForwardable(current, c) \in {"yes", "no", "throws"}
             /\ IsFastForwardable(current, c) = "yes" => current \in HistoryOf(commits, c)
             /\ IsFastForwardable(current, c) = "no" => current \notin HistoryOf(commits, c)
           S == {k \in Nat : \A c \in 0 .. n : c <= k => Right(c)}
<1>0. n \in Nat
  BY LenProperties DEF Commits
<1>1. 0 \in S
  <2>1. IsFastForwardable(current, Null) = "throws"
    BY <1>0, FastStep DEF Null
  <2>2. \A c \in 0 .. n : c <= 0 => c = Null
    BY <1>0 DEF Null
  <2> QED
    BY <2>1, <2>2
<1>2. ASSUME NEW k \in Nat, k \in S  PROVE k + 1 \in S
  <2> SUFFICES ASSUME NEW c \in 0 .. n, c = k + 1  PROVE Right(c)
    BY <1>0, <1>2
  <2>0. c # Null /\ c \in 1 .. n
    BY <1>0 DEF Null
  <2>1. \A p \in 0 .. c - 1 : Right(p)
    BY <1>0, <1>2
  <2>2. HistoryOf(commits, c) = {c} \cup UNION {HistoryOf(commits, p) : p \in ToSet(commits[c])}
    BY <2>0, HistoryStep
  <2> HIDE DEF S
  <2>3. CASE current < c /\ commits[c] # << >>
    <3>1. CASE Len(commits[c]) = 1
      <4> DEFINE p == commits[c][1]
      <4>1. p \in 0 .. c - 1 /\ ToSet(commits[c]) = {p}
        BY <1>0, <2>0, <3>1, ParentsBefore
      <4>2. IsFastForwardable(current, c) = IsFastForwardable(current, p)
        BY <2>0, <2>3, <3>1, FastStep
      <4> HIDE DEF p
      <4>3. HistoryOf(commits, c) = {c} \cup HistoryOf(commits, p)
        BY <2>2, <4>1
      <4> QED
        BY <2>1, <2>3, <4>1, <4>2, <4>3
    <3>2. CASE Len(commits[c]) = 2
      <4> DEFINE p == commits[c][1]
                 q == commits[c][2]
      <4>1. p \in 0 .. c - 1 /\ q \in 0 .. c - 1 /\ ToSet(commits[c]) = {p, q}
        BY <1>0, <2>0, <3>2, ParentsBefore
      <4>2. IsFastForwardable(current, c) =
              IF IsFastForwardable(current, p) # "no" THEN IsFastForwardable(current, p)
                                                      ELSE IsFastForwardable(current, q)
        BY <2>0, <2>3, <3>2, FastStep
      <4> HIDE DEF p, q
      <4>3. HistoryOf(commits, c) = {c} \cup HistoryOf(commits, p) \cup HistoryOf(commits, q)
        BY <2>2, <4>1
      <4>4. Right(p) /\ Right(q)
        BY <2>1, <4>1
      <4> QED
        BY <2>3, <4>2, <4>3, <4>4
    <3> QED
      BY <2>0, <2>3, <3>1, <3>2, ParentsBefore
  <2>4. CASE ~(current < c) \/ commits[c] = << >>
    <3>1. IsFastForwardable(current, c) = IF current = c THEN "yes" ELSE "no"
      BY <2>0, <2>4, FastStep
    <3>2. c \in HistoryOf(commits, c)
      BY <2>2
    <3>3. CASE ~(current < c)
      <4>1. current # c => current \notin HistoryOf(commits, c)
        BY <1>0, <3>3, HistoryBefore
      <4> QED
        BY <3>1, <3>2, <4>1
    <3>4. CASE commits[c] = << >>
      <4>1. HistoryOf(commits, c) = {c}
        BY <2>0, <2>2, <3>4, ParentsBefore
      <4> QED
        BY <3>1, <4>1
    <3> QED
      BY <2>4, <3>3, <3>4
  <2> QED
    BY <2>3, <2>4
<1> HIDE DEF S
<1>3. other \in S
  BY <1>0, <1>1, <1>2, NatSetInduction
<1> QED
  BY <1>0, <1>3 DEF S

\* So many parents before a commit there is a commit, or null.
LEMMA BeforeIs ==
  ASSUME Commits(commits), NEW c \in 0 .. Len(commits), NEW count \in Nat
  PROVE  Before(c, count) \in 0 .. Len(commits)
<1> DEFINE F(k, b) == IF k = 0 THEN c
                      ELSE IF b[k - 1] = Null \/ Len(commits[b[k - 1]]) # 1 THEN Null
                      ELSE commits[b[k - 1]][1]
           Is(k, b) == b = [i \in 0 .. k |-> F(i, b)]
           back == CHOOSE b : Is(count, b)
<1>0. Len(commits) \in Nat
  BY LenProperties DEF Commits
<1>1. Before(c, count) = back[count]
  BY DEF Before
<1>2. ASSUME NEW k \in Nat, NEW g, NEW h, k # 0 => g[k - 1] = h[k - 1]
      PROVE  F(k, g) = F(k, h)
  BY <1>2
<1>3. ASSUME NEW k \in Nat, NEW b, k # 0 => b[k - 1] \in 0 .. Len(commits)
      PROVE  F(k, b) \in 0 .. Len(commits)
  <2>1. CASE k # 0 /\ b[k - 1] # Null /\ Len(commits[b[k - 1]]) = 1
    <3> DEFINE d == b[k - 1]
    <3>1. d \in 1 .. Len(commits) /\ Len(commits[d]) = 1
      BY <1>0, <1>3, <2>1 DEF Null
    <3> HIDE DEF d
    <3>2. commits[d][1] \in 1 .. d - 1
      BY <3>1, ParentsBefore
    <3>3. commits[d][1] \in 0 .. Len(commits)
      BY <1>0, <3>1, <3>2
    <3> QED
      BY <2>1, <3>3 DEF d
  <2>2. CASE ~(k # 0 /\ b[k - 1] # Null /\ Len(commits[b[k - 1]]) = 1)
    BY <1>0, <2>2 DEF Null
  <2> QED
    BY <2>1, <2>2
<1> HIDE DEF F
<1>4. \E b : Is(count, b)
  <2> DEFINE S == {k \in Nat : \E b : Is(k, b)}
  <2>1. 0 \in S
    <3> DEFINE h == [i \in 0 .. 0 |-> F(0, <<>>)]
    <3>1. F(0, h) = F(0, <<>>)
      BY <1>2
    <3>2. Is(0, h)
      BY <3>1
    <3> HIDE DEF h
    <3> QED
      BY <3>2
  <2>2. ASSUME NEW k \in Nat, k \in S  PROVE k + 1 \in S
    <3>1. PICK b : Is(k, b)
      BY <2>2
    <3>2. \A i \in 0 .. k : b[i] = F(i, b)
      BY <3>1, Zenon
    <3> DEFINE h == [i \in 0 .. k + 1 |-> IF i = k + 1 THEN F(i, b) ELSE b[i]]
    <3>3. ASSUME NEW i \in 0 .. k + 1  PROVE h[i] = F(i, h)
      <4>1. i # 0 => b[i - 1] = h[i - 1]
        OBVIOUS
      <4>2. F(i, b) = F(i, h)
        BY <1>2, <4>1
      <4> QED
        BY <3>2, <4>2
    <3>4. Is(k + 1, h)
      BY <3>3
    <3> HIDE DEF h, Is
    <3> QED
      BY <3>4
  <2> HIDE DEF S
  <2>3. count \in S
    BY <2>1, <2>2, NatSetInduction
  <2> QED
    BY <2>3 DEF S
<1>5. Is(count, back)
  BY <1>4, Zenon
<1> HIDE DEF back
<1>6. \A i \in 0 .. count : back[i] = F(i, back)
  BY <1>5, Zenon
<1> DEFINE S == {k \in Nat : k <= count => back[k] \in 0 .. Len(commits)}
<1>7. 0 \in S
  BY <1>3, <1>6
<1>8. ASSUME NEW k \in Nat, k \in S  PROVE k + 1 \in S
  <2>1. k + 1 <= count => back[k + 1] = F(k + 1, back)
    BY <1>6
  <2>2. k + 1 <= count => F(k + 1, back) \in 0 .. Len(commits)
    BY <1>3, <1>8, (k + 1) - 1 = k
  <2> QED
    BY <2>1, <2>2
<1> HIDE DEF S
<1>9. count \in S
  BY <1>7, <1>8, NatSetInduction
<1> QED
  BY <1>1, <1>9 DEF S

-----------------------------------------------------------------------------
\* The branches.

Name == Branch \cup {"master"}

\* Branches of different names, at commits up to the n-th.
Branches(bs, n) ==
  /\ bs \in Seq([name : Name, commit : 0 .. n])
  /\ \A i, j \in DOMAIN bs : bs[i].name = bs[j].name => i = j

TipOf(bs, name) ==
  IF \E i \in DOMAIN bs : bs[i].name = name
  THEN bs[CHOOSE i \in DOMAIN bs : bs[i].name = name].commit ELSE Null

\* Tip reads the list of branches.
LEMMA TipIs == \A name : Tip(name) = TipOf(branches, name)
BY Zenon DEF Tip, TipOf

\* The tip of a branch is the commit it was given.
LEMMA TipFound ==
  ASSUME NEW n \in Nat, NEW bs, Branches(bs, n)
  PROVE  /\ \A i \in DOMAIN bs : TipOf(bs, bs[i].name) = bs[i].commit
         /\ \A m : (\A i \in DOMAIN bs : bs[i].name # m) => TipOf(bs, m) = Null
         /\ \A m : TipOf(bs, m) \in 0 .. n
<1>1. \A i \in DOMAIN bs : bs[i].commit \in 0 .. n
  <2> DEFINE R == [name : Name, commit : 0 .. n]
  <2>1. \A r \in R : r.commit \in 0 .. n
    OBVIOUS
  <2>2. bs \in Seq(R)
    BY DEF Branches
  <2> HIDE DEF R
  <2> QED
    BY <2>1, <2>2, ElementOfSeq, LenProperties
<1>2. ASSUME NEW i \in DOMAIN bs  PROVE TipOf(bs, bs[i].name) = bs[i].commit
  <2> DEFINE k == CHOOSE j \in DOMAIN bs : bs[j].name = bs[i].name
  <2>1. k \in DOMAIN bs /\ bs[k].name = bs[i].name
    BY Zenon
  <2>2. k = i
    BY <2>1 DEF Branches
  <2>3. TipOf(bs, bs[i].name) = bs[k].commit
    BY Zenon DEF TipOf
  <2> QED
    BY <2>2, <2>3
<1>3. ASSUME NEW m, \A i \in DOMAIN bs : bs[i].name # m  PROVE TipOf(bs, m) = Null
  BY <1>3, Zenon DEF TipOf
<1>4. ASSUME NEW m  PROVE TipOf(bs, m) \in 0 .. n
  <2>1. CASE \E i \in DOMAIN bs : bs[i].name = m
    BY <1>1, <1>2, <2>1
  <2>2. CASE \A i \in DOMAIN bs : bs[i].name # m
    BY <1>3, <2>2 DEF Null
  <2> QED
    BY <2>1, <2>2
<1> QED
  BY <1>2, <1>3, <1>4

\* The assignment gives the branch its commit and leaves the others alone.
LEMMA BranchSet ==
  ASSUME NEW n \in Nat, Branches(branches, n), NEW name \in Name, NEW c \in 0 .. n,
         SetBranch(name, c)
  PROVE  /\ Branches(branches', n)
         /\ TipOf(branches', name) = c
         /\ \A m : m # name => TipOf(branches', m) = TipOf(branches, m)
<1> DEFINE R == [name : Name, commit : 0 .. n]
           bs == branches
           new == branches'
<1>0. bs \in Seq(R) /\ Len(bs) \in Nat /\ DOMAIN bs = 1 .. Len(bs)
  BY LenProperties DEF Branches
<1>1. CASE \E i \in DOMAIN bs : bs[i].name = name
  <2>1. new = [i \in DOMAIN bs |->
                 IF bs[i].name = name THEN [bs[i] EXCEPT !.commit = c] ELSE bs[i]]
    BY <1>1, Zenon DEF SetBranch
  <2>2. DOMAIN new = DOMAIN bs
    BY <2>1
  <2>3. \A i \in DOMAIN bs :
          /\ new[i] \in R
          /\ new[i].name = bs[i].name
          /\ new[i].commit = IF bs[i].name = name THEN c ELSE bs[i].commit
    <3> SUFFICES ASSUME NEW i \in DOMAIN bs
                 PROVE  /\ new[i] \in R
                        /\ new[i].name = bs[i].name
                        /\ new[i].commit = IF bs[i].name = name THEN c ELSE bs[i].commit
      OBVIOUS
    <3>1. bs[i] \in R
      BY <1>0, ElementOfSeq
    <3>2. new[i] = IF bs[i].name = name THEN [bs[i] EXCEPT !.commit = c] ELSE bs[i]
      BY <2>1
    <3> HIDE DEF new
    <3> QED
      BY <3>1, <3>2
  <2> HIDE DEF new, R
  <2>4. new \in Seq(R)
    <3>1. new = [i \in 1 .. Len(bs) |-> new[i]]
      BY <1>0, <2>1 DEF new
    <3> QED
      BY <1>0, <2>3, <3>1
  <2>5. Branches(new, n)
    BY <2>2, <2>3, <2>4 DEF Branches, R
  <2>6. TipOf(new, name) = c
    BY <1>1, <2>2, <2>3, <2>5, TipFound
  <2>7. ASSUME NEW m, m # name  PROVE TipOf(new, m) = TipOf(bs, m)
    <3>1. CASE \E i \in DOMAIN bs : bs[i].name = m
      <4>1. PICK i \in DOMAIN bs : bs[i].name = m
        BY <3>1
      <4>2. new[i].name = m /\ new[i].commit = bs[i].commit /\ i \in DOMAIN new
        BY <2>2, <2>3, <2>7, <4>1
      <4>3. TipOf(new, m) = new[i].commit
        BY <2>5, <4>2, TipFound
      <4>4. TipOf(bs, m) = bs[i].commit
        BY <4>1, TipFound
      <4> QED
        BY <4>2, <4>3, <4>4
    <3>2. CASE \A i \in DOMAIN bs : bs[i].name # m
      <4>1. TipOf(new, m) = Null
        BY <2>2, <2>3, <2>5, <3>2, TipFound
      <4>2. TipOf(bs, m) = Null
        BY <3>2, TipFound
      <4> QED
        BY <4>1, <4>2
    <3> QED
      BY <3>1, <3>2
  <2> QED
    BY <2>5, <2>6, <2>7 DEF new
<1>2. CASE \A i \in DOMAIN bs : bs[i].name # name
  <2> DEFINE x == [name |-> name, commit |-> c]
  <2>1. new = Append(bs, x)
    BY <1>2, Zenon DEF SetBranch
  <2>2. x \in R /\ x.name = name /\ x.commit = c
    OBVIOUS
  <2> HIDE DEF x, R
  <2>3. /\ new \in Seq(R) /\ DOMAIN new = 1 .. Len(bs) + 1
        /\ \A i \in 1 .. Len(bs) : new[i] = bs[i]
        /\ new[Len(bs) + 1] = x
    BY <1>0, <2>1, <2>2, AppendIs, LenProperties
  <2> HIDE DEF new
  <2>4. Branches(new, n)
    <3>1. ASSUME NEW i \in DOMAIN new, NEW j \in DOMAIN new, new[i].name = new[j].name
          PROVE  i = j
      <4>1. CASE i \in DOMAIN bs /\ j \in DOMAIN bs
        BY <1>0, <2>3, <3>1, <4>1 DEF Branches
      <4>2. CASE i = Len(bs) + 1 /\ j \in DOMAIN bs
        BY <1>0, <1>2, <2>2, <2>3, <3>1, <4>2
      <4>3. CASE j = Len(bs) + 1 /\ i \in DOMAIN bs
        BY <1>0, <1>2, <2>2, <2>3, <3>1, <4>3
      <4> QED
        BY <1>0, <2>3, <4>1, <4>2, <4>3
    <3> QED
      BY <2>3, <3>1 DEF Branches, R
  <2>5. TipOf(new, name) = c
    <3>1. Len(bs) + 1 \in DOMAIN new
      BY <1>0, <2>3
    <3> QED
      BY <2>2, <2>3, <2>4, <3>1, TipFound
  <2>6. ASSUME NEW m, m # name  PROVE TipOf(new, m) = TipOf(bs, m)
    <3>1. CASE \E i \in DOMAIN bs : bs[i].name = m
      <4>1. PICK i \in DOMAIN bs : bs[i].name = m
        BY <3>1
      <4>2. new[i].name = m /\ new[i].commit = bs[i].commit /\ i \in DOMAIN new
        BY <1>0, <2>3, <4>1
      <4>3. TipOf(new, m) = new[i].commit
        BY <2>4, <4>2, TipFound
      <4>4. TipOf(bs, m) = bs[i].commit
        BY <4>1, TipFound
      <4> QED
        BY <4>2, <4>3, <4>4
    <3>2. CASE \A i \in DOMAIN bs : bs[i].name # m
      <4>1. \A i \in DOMAIN new : new[i].name # m
        BY <1>0, <2>2, <2>3, <2>6, <3>2
      <4>2. TipOf(new, m) = Null
        BY <2>4, <4>1, TipFound
      <4>3. TipOf(bs, m) = Null
        BY <3>2, TipFound
      <4> QED
        BY <4>2, <4>3
    <3> QED
      BY <3>1, <3>2
  <2> QED
    BY <2>4, <2>5, <2>6 DEF new
<1> QED
  BY <1>1, <1>2

\* They are at commits there are after one more commit, too.
LEMMA BranchesMore ==
  ASSUME NEW n \in Nat, NEW bs, Branches(bs, n)
  PROVE  Branches(bs, n + 1)
<1> DEFINE R == [name : Name, commit : 0 .. n]
           S == [name : Name, commit : 0 .. n + 1]
<1>1. R \subseteq S
  <2>1. 0 .. n \subseteq 0 .. n + 1
    OBVIOUS
  <2> QED
    BY <2>1
<1>2. bs \in Seq(R)
  BY DEF Branches
<1> HIDE DEF R, S
<1>3. bs \in Seq(S)
  BY <1>1, <1>2
<1> QED
  BY <1>3 DEF Branches, S

-----------------------------------------------------------------------------
\* The statements.

\* The parents of each commit come before it, the branches are at commits there
\* are, and head is at the tip of the current branch, unless it is null.
GitGood ==
  /\ Commits(commits)
  /\ Branches(branches, Len(commits))
  /\ curBranch \in Name
  /\ head \in {TipOf(branches, curBranch), Null}

\* What the commits and branches are, in the steps below.
LEMMA GoodFacts ==
  ASSUME GitGood
  PROVE  /\ Len(commits) \in Nat
         /\ head \in 0 .. Len(commits)
         /\ \A name : TipOf(branches, name) \in 0 .. Len(commits)
<1>1. Len(commits) \in Nat
  BY LenProperties DEF GitGood, Commits
<1>2. \A name : TipOf(branches, name) \in 0 .. Len(commits)
  BY <1>1, TipFound DEF GitGood
<1>3. head \in 0 .. Len(commits)
  BY <1>1, <1>2 DEF GitGood, Null
<1> QED
  BY <1>1, <1>2, <1>3

\* A new commit, with parents that come before it, is the tip and the head.
LEMMA CommitAdded ==
  ASSUME GitGood, NEW parents \in Seq(Nat), ParentsOf(Len(commits) + 1, parents),
         AddCommit(parents), curBranch' = curBranch
  PROVE  /\ GitGood'
         /\ commits' = Append(commits, parents)
         /\ head' = Len(commits) + 1
         /\ TipOf(branches', curBranch) = Len(commits) + 1
         /\ Len(commits') = Len(commits) + 1
         /\ commits'[Len(commits) + 1] = parents
<1> DEFINE n == Len(commits)
<1>0. n \in Nat /\ n + 1 \in Nat /\ n + 1 \in 0 .. n + 1
  BY GoodFacts
<1>1. /\ commits' = Append(commits, parents)
      /\ head' = n + 1
      /\ SetBranch(curBranch, n + 1)
  BY DEF AddCommit
<1>2. /\ commits' \in Seq(Seq(Nat)) /\ Len(commits') = n + 1
      /\ \A c \in 1 .. n : commits'[c] = commits[c]
      /\ commits'[n + 1] = parents
  BY <1>1, AppendIs DEF GitGood, Commits
<1> HIDE DEF n
<1>3. Commits(commits)'
  <2>1. \A c \in 1 .. n + 1 : ParentsOf(c, commits'[c])
    <3> SUFFICES ASSUME NEW c \in 1 .. n + 1  PROVE ParentsOf(c, commits'[c])
      OBVIOUS
    <3>1. CASE c = n + 1
      BY <1>2, <3>1 DEF n
    <3>2. CASE c \in 1 .. n
      BY <1>2, <3>2 DEF n, GitGood, Commits
    <3> QED
      BY <1>0, <3>1, <3>2
  <2> QED
    BY <1>2, <2>1 DEF Commits
<1>4. Branches(branches, n + 1)
  BY <1>0, BranchesMore DEF GitGood, n
<1>5. Branches(branches', n + 1) /\ TipOf(branches', curBranch) = n + 1
  BY <1>0, <1>1, <1>4, BranchSet DEF GitGood
<1>6. GitGood'
  <2>1. Branches(branches, Len(commits))'
    BY <1>2, <1>5
  <2>2. (head \in {TipOf(branches, curBranch), Null})'
    BY <1>1, <1>5
  <2> QED
    BY <1>3, <2>1, <2>2 DEF GitGood
<1> QED
  BY <1>1, <1>2, <1>5, <1>6 DEF n

\* The current branch is set back, or forward, to a commit, and head with it.
LEMMA BranchMoved ==
  ASSUME GitGood, NEW c \in 0 .. Len(commits), SetBranch(curBranch, c),
         head' \in {c, Null}, UNCHANGED <<commits, curBranch>>
  PROVE  GitGood' /\ TipOf(branches', curBranch) = c
<1>1. Branches(branches', Len(commits)) /\ TipOf(branches', curBranch) = c
  BY GoodFacts, BranchSet DEF GitGood
<1>2. (head \in {TipOf(branches, curBranch), Null})'
  BY <1>1
<1> QED
  BY <1>1, <1>2 DEF GitGood

\* A statement that throws changes no branch, at most head.
LEMMA GoodKept ==
  ASSUME GitGood, UNCHANGED <<commits, branches, curBranch>>, head' \in {head, Null}
  PROVE  GitGood'
<1>1. (head \in {TipOf(branches, curBranch), Null})'
  BY DEF GitGood
<1> QED
  BY <1>1 DEF GitGood

\* What the walks of a merge find: where neither tip is reachable from the other,
\* they differ.
LEMMA MergeFinds ==
  ASSUME GitGood, NEW current \in 1 .. Len(commits), NEW other \in 1 .. Len(commits),
         IsReachableFrom(current, other) # "throws",
         IsFastForwardable(current, other) # "throws"
  PROVE  /\ IsReachableFrom(current, other) = "yes" => other \in HistoryOf(commits, current)
         /\ IsFastForwardable(current, other) = "yes" => current \in HistoryOf(commits, other)
         /\ IsReachableFrom(current, other) # "yes" /\ other \in HistoryOf(commits, current)
              => other = current
         /\ IsFastForwardable(current, other) # "yes"
              => current # other /\ current \notin HistoryOf(commits, other)
<1>0. Commits(commits) /\ Len(commits) \in Nat /\ current \in 0 .. Len(commits)
      /\ other \in 0 .. Len(commits)
  BY GoodFacts DEF GitGood
<1>1. /\ IsFastForwardable(current, other) = "yes" => current \in HistoryOf(commits, other)
      /\ IsFastForwardable(current, other) # "yes" => current \notin HistoryOf(commits, other)
  BY <1>0, FastRight
<1>2. CASE current > other
  <2>1. IsReachableFrom(current, other) = IsFastForwardable(other, current)
    BY <1>2 DEF IsReachableFrom
  <2>2. /\ IsReachableFrom(current, other) = "yes" => other \in HistoryOf(commits, current)
        /\ IsReachableFrom(current, other) # "yes" => other \notin HistoryOf(commits, current)
    BY <1>0, <2>1, FastRight
  <2> QED
    BY <1>1, <1>2, <2>2
<1>3. CASE ~(current > other)
  <2>1. IsReachableFrom(current, other) = "no"
    BY <1>3 DEF IsReachableFrom
  <2>2. \A d \in HistoryOf(commits, current) : d <= current
    BY <1>0, HistoryBefore
  <2>3. other \in HistoryOf(commits, current) => other = current
    BY <1>0, <1>3, <2>2
  <2>4. other # Null /\ other \in HistoryOf(commits, other)
    BY <1>0, HistoryClosed DEF Null
  <2> QED
    BY <1>1, <2>1, <2>3, <2>4
<1> QED
  BY <1>2, <1>3

\* The merge commit joins the histories of its two parents.
LEMMA HistoryJoins ==
  ASSUME NEW cs, Commits(cs), NEW c \in 1 .. Len(cs), Len(cs[c]) = 2
  PROVE  HistoryOf(cs, c) = {c} \cup HistoryOf(cs, cs[c][1]) \cup HistoryOf(cs, cs[c][2])
<1>1. ToSet(cs[c]) = {cs[c][1], cs[c][2]}
  BY ParentsBefore
<1>2. HistoryOf(cs, c) = {c} \cup UNION {HistoryOf(cs, p) : p \in ToSet(cs[c])}
  BY HistoryStep
<1> QED
  BY <1>1, <1>2

\* MergeLosesNothing, of any list of commits, head and tip of the branch.
MergeOf(l, cs, h, r) ==
  l.op = "merge" /\ l.how = "returned" =>
    IF l.facts[2] \in HistoryOf(cs, l.facts[1]) THEN r = l.facts[1]
    ELSE IF l.facts[1] \in HistoryOf(cs, l.facts[2]) THEN r = l.facts[2] /\ h = l.facts[2]
    ELSE /\ h = r
         /\ HistoryOf(cs, r) = {r} \cup HistoryOf(cs, l.facts[3]) \cup HistoryOf(cs, l.facts[2])
         /\ l.facts[3] \in {l.facts[1], Null}

\* A merge, in a graph that is as it should be, loses nothing.
LEMMA MergeRight ==
  ASSUME GitGood, NEW name \in Branch, Merge(name)
  PROVE  GitGood' /\ MergeLosesNothing'
<1> DEFINE n == Len(commits)
           current == Tip(curBranch)
           other == Tip(name)
           reachable == IsReachableFrom(current, other)
           forward == IsFastForwardable(current, other)
           threw == current = Null \/ other = Null \/ "throws" \in {reachable, forward}
           h == head
           H(c) == HistoryOf(commits, c)
           New(c) == HistoryOf(commits', c)
           Right(r) == IF other \in New(current) THEN r = current
                       ELSE IF current \in New(other) THEN r = other /\ head' = other
                       ELSE /\ head' = r
                            /\ New(r) = {r} \cup New(h) \cup New(other)
                            /\ h \in {current, Null}
<1>0. /\ n \in Nat /\ h \in 0 .. n /\ current \in 0 .. n /\ other \in 0 .. n
      /\ Commits(commits)
      /\ h \in {current, Null}
      /\ current = TipOf(branches, curBranch)
  BY GoodFacts, TipIs DEF GitGood
<1>1. curBranch' = curBranch
  BY DEF Merge
<1>2. CASE threw
  <2>1. Throws("merge") /\ UNCHANGED head
    BY <1>2 DEF Merge
  <2>2. UNCHANGED <<commits, branches>> /\ outcome'.how = "threw"
    BY <2>1 DEF Throws, Did
  <2>3. GitGood'
    BY <1>1, <2>1, <2>2, GoodKept
  <2> QED
    BY <2>2, <2>3 DEF MergeLosesNothing
<1>3. CASE ~threw
  <2>1. /\ Did("merge", "returned", <<current, other, head>>)
        /\ IF reachable = "yes" THEN UNCHANGED <<commits, head, branches>>
           ELSE IF forward = "yes"
             THEN SetBranch(curBranch, other) /\ head' = other /\ UNCHANGED commits
             ELSE AddCommit(<<head, other>>)
    BY <1>3 DEF Merge
  <2>2. outcome'.facts[1] = current /\ outcome'.facts[2] = other /\ outcome'.facts[3] = h
    BY <2>1 DEF Did
  <2>3. ASSUME Right(TipOf(branches', curBranch))  PROVE MergeLosesNothing'
    <3>1. MergeOf(outcome', commits', head', TipOf(branches', curBranch'))
      <4> HIDE DEF current, other, h
      <4> QED
        BY <1>1, <2>2, <2>3, Zenon DEF MergeOf
    <3>2. MergeLosesNothing' <=> MergeOf(outcome', commits', head', TipOf(branches', curBranch'))
      BY Zenon
         DEF MergeLosesNothing, MergeOf, History, HistoryOf, Reach, ReachOf, Tip, TipOf
    <3> QED
      BY <3>1, <3>2
  <2>4. current \in 1 .. n /\ other \in 1 .. n /\ reachable # "throws" /\ forward # "throws"
    BY <1>0, <1>3 DEF Null
  <2>5. /\ reachable = "yes" => other \in H(current)
        /\ forward = "yes" => current \in H(other)
        /\ reachable # "yes" /\ other \in H(current) => other = current
        /\ forward # "yes" => current # other /\ current \notin H(other)
    BY <2>4, MergeFinds
  <2> HIDE DEF current, other, reachable, forward, threw, H, New
  <2>6. CASE reachable = "yes"
    <3>1. UNCHANGED <<commits, head, branches>>
      BY <2>1, <2>6
    <3>2. GitGood'
      BY <1>1, <3>1, GoodKept
    <3>3. other \in New(current) /\ TipOf(branches', curBranch) = current
      BY <1>0, <2>5, <2>6, <3>1 DEF H, New
    <3> QED
      BY <2>3, <3>2, <3>3
  <2>7. CASE reachable # "yes" /\ forward = "yes"
    <3>1. SetBranch(curBranch, other) /\ head' = other /\ UNCHANGED commits
      BY <2>1, <2>7
    <3>2. GitGood' /\ TipOf(branches', curBranch) = other
      BY <1>0, <1>1, <3>1, BranchMoved
    <3>3. New(current) = H(current) /\ New(other) = H(other)
      BY <3>1 DEF H, New
    <3> QED
      BY <2>3, <2>5, <2>7, <3>1, <3>2, <3>3
  <2>8. CASE reachable # "yes" /\ forward # "yes"
    <3> DEFINE s == <<head, other>>
               c == n + 1
    <3>1. AddCommit(s)
      BY <2>1, <2>8
    <3>2. h # other
      BY <1>0, <2>4, <2>5, <2>8 DEF Null
    <3>3. s \in Seq(Nat) /\ Len(s) = 2 /\ s[1] = h /\ s[2] = other
      BY <1>0
    <3>4. ParentsOf(c, s)
      <4>1. h \in 0 .. c - 1 /\ other \in 1 .. c - 1
        BY <1>0, <2>4
      <4> QED
        BY <3>2, <4>1 DEF ParentsOf
    <3> HIDE DEF s, n
    <3>5. /\ GitGood' /\ commits' = Append(commits, s) /\ head' = c
          /\ TipOf(branches', curBranch) = c /\ Len(commits') = c /\ commits'[c] = s
      BY <1>1, <3>1, <3>3, <3>4, CommitAdded DEF n
    <3> HIDE DEF c
    <3>6. \A d \in 0 .. n : New(d) = H(d)
      BY <1>0, <3>3, <3>5, HistoryKept DEF New, H, n
    <3>7. New(c) = {c} \cup New(h) \cup New(other)
      <4>1. Commits(commits')
        BY <3>5 DEF GitGood
      <4>2. c \in 1 .. Len(commits')
        BY <1>0, <3>5 DEF c
      <4>3. Len(commits'[c]) = 2 /\ commits'[c][1] = h /\ commits'[c][2] = other
        BY <3>3, <3>5
      <4> HIDE DEF h
      <4> QED
        BY <4>1, <4>2, <4>3, HistoryJoins DEF New
    <3>8. other \notin New(current) /\ current \notin New(other)
      BY <1>0, <2>5, <2>8, <3>6
    <3> HIDE DEF h
    <3>9. Right(c)
      BY <1>0, <3>5, <3>7, <3>8
    <3> QED
      BY <2>3, <3>5, <3>9
  <2> QED
    BY <2>6, <2>7, <2>8
<1> QED
  BY <1>2, <1>3

\* Every statement keeps the graph as it should be, and loses nothing.
LEMMA GitStep ==
  ASSUME GitGood, MergeLosesNothing, [GitNext]_gitVars
  PROVE  GitGood' /\ MergeLosesNothing'
<1>0. /\ Len(commits) \in Nat /\ head \in 0 .. Len(commits) /\ curBranch \in Name
      /\ Branches(branches, Len(commits)) /\ Commits(commits)
      /\ head \in {TipOf(branches, curBranch), Null}
      /\ \A name : TipOf(branches, name) \in 0 .. Len(commits)
  BY GoodFacts DEF GitGood
<1>a. ASSUME outcome'.op # "merge" \/ outcome'.how # "returned"  PROVE MergeLosesNothing'
  BY <1>a DEF MergeLosesNothing
<1>1. CASE Commit
  <2> DEFINE parents == IF head = Null THEN << >> ELSE <<head>>
  <2>1. AddCommit(parents) /\ curBranch' = curBranch
    BY <1>1 DEF Commit
  <2>2. parents \in Seq(Nat)
    BY <1>0
  <2>3. ParentsOf(Len(commits) + 1, parents)
    <3>1. CASE head = Null
      BY <3>1 DEF ParentsOf
    <3>2. CASE head # Null
      <4>1. head \in 1 .. (Len(commits) + 1) - 1 /\ parents = <<head>>
        BY <1>0, <3>2 DEF Null
      <4> QED
        BY <4>1 DEF ParentsOf
    <3> QED
      BY <3>1, <3>2
  <2>4. GitGood'
    <3> HIDE DEF parents
    <3> QED
      BY <2>1, <2>2, <2>3, CommitAdded
  <2>5. outcome'.op = "statement"
    BY <1>1 DEF Commit, Nothing, Did
  <2> QED
    BY <1>a, <2>4, <2>5
<1>2. CASE Draw
  <2>1. UNCHANGED <<commits, branches, curBranch, head>> /\ outcome'.op = "draw"
    BY <1>2 DEF Draw, Did
  <2> QED
    BY <1>a, <2>1, GoodKept
<1>3. ASSUME NEW name \in Branch, CreateBranch(name)  PROVE GitGood' /\ MergeLosesNothing'
  <2>1. SetBranch(name, head) /\ UNCHANGED <<commits, head, curBranch>> /\ outcome'.op = "statement"
    BY <1>3 DEF CreateBranch, Nothing, Did
  <2>2. /\ Branches(branches', Len(commits))
        /\ TipOf(branches', name) = head
        /\ \A m : m # name => TipOf(branches', m) = TipOf(branches, m)
    BY <1>0, <2>1, BranchSet DEF Name
  <2>3. (head \in {TipOf(branches, curBranch), Null})'
    BY <1>0, <2>1, <2>2
  <2> QED
    BY <1>0, <1>a, <2>1, <2>2, <2>3 DEF GitGood
<1>4. ASSUME NEW name \in Branch, Checkout(name)  PROVE GitGood' /\ MergeLosesNothing'
  <2>1. /\ curBranch' = name /\ head' = Tip(name) /\ UNCHANGED <<commits, branches>>
        /\ outcome'.op = "statement"
    BY <1>4 DEF Checkout, Nothing, Did
  <2>2. (head \in {TipOf(branches, curBranch), Null})'
    BY <2>1, TipIs
  <2>3. curBranch' \in Name
    BY <2>1 DEF Name
  <2> QED
    BY <1>0, <1>a, <2>1, <2>2, <2>3 DEF GitGood
<1>5. ASSUME NEW name \in Branch, Merge(name)  PROVE GitGood' /\ MergeLosesNothing'
  BY <1>5, MergeRight
<1>6. ASSUME NEW ref \in Branch \cup {"HEAD"}, NEW count \in 0 .. 2, Reset(ref, count)
      PROVE  GitGood' /\ MergeLosesNothing'
  <2> DEFINE from == IF ref = "HEAD" THEN head ELSE Tip(ref)
             commit == Before(from, count)
  <2>1. /\ IF commit = Null THEN Throws("reset")
                            ELSE SetBranch(curBranch, commit) /\ Nothing /\ UNCHANGED commits
        /\ head' = IF commit = Null /\ count > 0 THEN head ELSE commit
        /\ curBranch' = curBranch
    BY <1>6 DEF Reset
  <2>2. from \in 0 .. Len(commits)
    <3>1. CASE ref = "HEAD"
      BY <1>0, <3>1
    <3>2. CASE ref # "HEAD"
      <4>1. from = TipOf(branches, ref)
        BY <3>2, TipIs
      <4> QED
        BY <1>0, <4>1
    <3> QED
      BY <3>1, <3>2
  <2> HIDE DEF from
  <2>3. commit \in 0 .. Len(commits)
    <3>1. count \in Nat
      OBVIOUS
    <3> QED
      BY <1>0, <2>2, <3>1, BeforeIs
  <2> HIDE DEF commit
  <2>4. outcome'.op = "reset" \/ outcome'.op = "statement"
    BY <2>1 DEF Throws, Nothing, Did
  <2>5. CASE commit = Null
    <3>1. UNCHANGED <<commits, branches>> /\ head' \in {head, Null}
      BY <2>1, <2>5 DEF Throws
    <3> QED
      BY <1>a, <2>1, <2>4, <3>1, GoodKept
  <2>6. CASE commit # Null
    <3>1. SetBranch(curBranch, commit) /\ head' = commit /\ UNCHANGED commits
      BY <2>1, <2>6
    <3> QED
      BY <1>a, <2>1, <2>3, <2>4, <3>1, BranchMoved
  <2> QED
    BY <2>5, <2>6
<1>7. CASE UNCHANGED gitVars
  <2>1. UNCHANGED <<commits, head, branches, curBranch, outcome>>
    BY <1>7 DEF gitVars
  <2>2. GitGood'
    BY <2>1, GoodKept
  <2>3. MergeLosesNothing' <=> MergeOf(outcome', commits', head', TipOf(branches', curBranch'))
    BY Zenon
       DEF MergeLosesNothing, MergeOf, History, HistoryOf, Reach, ReachOf, Tip, TipOf
  <2>4. MergeLosesNothing <=> MergeOf(outcome, commits, head, TipOf(branches, curBranch))
    BY Zenon
       DEF MergeLosesNothing, MergeOf, History, HistoryOf, Reach, ReachOf, Tip, TipOf
  <2> QED
    BY <2>1, <2>2, <2>3, <2>4
<1> QED
  BY <1>1, <1>2, <1>3, <1>4, <1>5, <1>6, <1>7 DEF GitNext

\* The first commit and the branch master.
LEMMA GitStart == GitInit => GitGood /\ MergeLosesNothing
<1> SUFFICES ASSUME GitInit  PROVE GitGood /\ MergeLosesNothing
  OBVIOUS
<1> DEFINE R == [name : Name, commit : 0 .. 0]
           b == [name |-> "master", commit |-> 0]
<1>1. commits = << >> /\ head = 0 /\ branches = <<b>> /\ curBranch = "master"
  BY DEF GitInit, Null
<1>2. b \in R /\ b.name = "master" /\ b.commit = 0
  BY DEF Name
<1>3. Commits(commits) /\ Len(commits) = 0
  BY <1>1 DEF Commits
<1> HIDE DEF R, b
<1>4. branches \in Seq(R) /\ DOMAIN branches = {1} /\ branches[1] = b
  BY <1>1, <1>2
<1>5. Branches(branches, 0)
  BY <1>4 DEF Branches, R
<1>6. head \in {TipOf(branches, curBranch), Null}
  BY <1>1 DEF Null
<1>7. GitGood
  BY <1>1, <1>3, <1>5, <1>6 DEF GitGood, Name
<1>8. MergeLosesNothing
  BY DEF GitInit, MergeLosesNothing
<1> QED
  BY <1>7, <1>8

-----------------------------------------------------------------------------
\* The drawing.

Hung(p) == [p EXCEPT !.how = "hangs"]
Threw(p) == [p EXCEPT !.how = "threw"]
Flagged(p, c) == [p EXCEPT !.drawn = @ \cup {c}]

\* The body of renderLines, with what its own calls return.
Body(p, c, Rest(_, _)) ==
  IF ~Go(p) \/ c = 1 \/ c \in p.drawn THEN p
  ELSE IF commits[c] = << >> THEN Hung(p)
  ELSE IF commits[c][1] = Null THEN Threw(p)
  ELSE LET lined == WithLines(p, c)
           side == IF Len(commits[c]) = 2 THEN Rest(lined, commits[c][2]) ELSE lined
       IN  IF Go(side) THEN Rest(Flagged(side, c), commits[c][1]) ELSE side

\* The walk behind a commit is defined, as the parents of a commit come before it.
LEMMA RenderStep ==
  ASSUME Commits(commits), NEW c \in 1 .. Len(commits), NEW page \in Page
  PROVE  RenderLines(page, c) = Body(page, c, RenderLines)
<1> DEFINE n == Len(commits)
           F(d, g) == [p \in Page |->
             IF ~Go(p) \/ d = 1 \/ d \in p.drawn THEN p
             ELSE IF commits[d] = << >> THEN Hung(p)
             ELSE IF commits[d][1] = Null THEN Threw(p)
             ELSE LET lined == WithLines(p, d)
                      side == IF Len(commits[d]) = 2 THEN g[commits[d][2]][lined] ELSE lined
                  IN  IF Go(side) THEN g[commits[d][1]][Flagged(side, d)] ELSE side]
           Is(k, g) == g = [d \in 1 .. k |-> F(d, g)]
           render == CHOOSE g : Is(n, g)
<1>0. n \in Nat
  BY LenProperties DEF Commits
<1>1. \A d, p : RenderLines(p, d) = render[d][p]
  BY Zenon DEF RenderLines, Hung, Threw, Flagged
<1>2. ASSUME NEW d \in 1 .. n, NEW g, NEW h, \A e \in 1 .. d - 1 : g[e] = h[e]
      PROVE  F(d, g) = F(d, h)
  <2>1. CASE commits[d] = << >>
    BY <2>1
  <2>2. CASE Len(commits[d]) # 2 /\ commits[d] # << >>
    <3>1. commits[d][1] = Null \/ g[commits[d][1]] = h[commits[d][1]]
      BY <1>0, <1>2, <2>2, ParentsBefore DEF Null
    <3> QED
      BY <2>2, <3>1
  <2>3. CASE Len(commits[d]) = 2
    <3>1. commits[d][1] = Null \/ g[commits[d][1]] = h[commits[d][1]]
      BY <1>0, <1>2, <2>3, ParentsBefore DEF Null
    <3>2. g[commits[d][2]] = h[commits[d][2]]
      BY <1>0, <1>2, <2>3, ParentsBefore DEF Null
    <3> QED
      BY <2>3, <3>1, <3>2
  <2> QED
    BY <2>1, <2>2, <2>3
<1> HIDE DEF F
<1>3. \E g : Is(n, g)
  <2> DEFINE S == {k \in Nat : k <= n => \E g : Is(k, g)}
  <2>1. 0 \in S
    <3> DEFINE h == [d \in 1 .. 0 |-> 0]
    <3>1. Is(0, h)
      OBVIOUS
    <3> HIDE DEF h
    <3> QED
      BY <3>1
  <2>2. ASSUME NEW k \in Nat, k \in S  PROVE k + 1 \in S
    <3> SUFFICES ASSUME k + 1 <= n  PROVE \E g : Is(k + 1, g)
      OBVIOUS
    <3>1. PICK g : Is(k, g)
      BY <1>0, <2>2
    <3>2. \A d \in 1 .. k : g[d] = F(d, g)
      BY <3>1, Zenon
    <3> DEFINE h == [d \in 1 .. k + 1 |-> IF d = k + 1 THEN F(d, g) ELSE g[d]]
    <3>3. ASSUME NEW d \in 1 .. k + 1  PROVE h[d] = F(d, h)
      <4>1. \A e \in 1 .. d - 1 : g[e] = h[e]
        OBVIOUS
      <4>2. d \in 1 .. n
        BY <1>0
      <4>3. F(d, g) = F(d, h)
        BY <1>2, <4>1, <4>2
      <4>4. h[d] = F(d, g)
        BY <3>2
      <4> QED
        BY <4>3, <4>4
    <3>4. Is(k + 1, h)
      BY <3>3
    <3> HIDE DEF h, Is
    <3> QED
      BY <3>4
  <2> HIDE DEF S
  <2>3. n \in S
    BY <1>0, <2>1, <2>2, NatSetInduction
  <2> QED
    BY <1>0, <2>3 DEF S
<1>4. Is(n, render)
  BY <1>3, Zenon
<1> HIDE DEF render
<1>5. render[c] = F(c, render)
  BY <1>4
<1> HIDE DEF Is
<1>6. RenderLines(page, c) = F(c, render)[page]
  BY <1>1, <1>5
<1> QED
  BY <1>1, <1>6, Zenon DEF F, Body

Line == Nat \X Nat

\* One line for each parent of each commit of a set.
LinesOf(cs) == UNION {{<<c, p>> : p \in ToSet(commits[c])} : c \in cs}

\* The lines of two sets of commits together.
LEMMA LinesJoin == \A D, E : LinesOf(D \cup E) = LinesOf(D) \cup LinesOf(E)
BY DEF LinesOf

LEMMA LinesStart ==
  ASSUME NEW D, NEW l \in LinesOf(D)
  PROVE  l[1] \in D
BY DEF LinesOf

\* The lines of a commit come after those there are, and differ from them.
LEMMA LinesAppended ==
  ASSUME Commits(commits), NEW c \in 1 .. Len(commits),
         NEW s \in Seq(Line), IsInjective(s), \A l \in ToSet(s) : l[1] # c,
         NEW t, t = s \o [i \in DOMAIN commits[c] |-> <<c, commits[c][i]>>]
  PROVE  t \in Seq(Line) /\ IsInjective(t) /\ ToSet(t) = ToSet(s) \cup LinesOf({c})
<1> DEFINE ps == commits[c]
           u == [i \in DOMAIN ps |-> <<c, ps[i]>>]
<1>1. /\ ps \in Seq(Nat) /\ Len(ps) \in {0, 1, 2} /\ DOMAIN ps = 1 .. Len(ps)
      /\ Len(ps) = 2 => ps[1] # ps[2]
      /\ c \in Nat
  <2>1. ps \in Seq(Nat) /\ c \in Nat
    BY LenProperties, ElementOfSeq DEF Commits
  <2> QED
    BY <2>1, ParentsBefore, LenProperties
<1> HIDE DEF ps
<1>2. /\ u \in Seq(Line) /\ Len(u) = Len(ps) /\ DOMAIN u = 1 .. Len(ps)
      /\ \A i \in 1 .. Len(ps) : u[i] = <<c, ps[i]>>
  <2>1. \A i \in DOMAIN ps : ps[i] \in Nat
    BY <1>1, ElementOfSeq
  <2>2. u \in [1 .. Len(ps) -> Line]
    BY <1>1, <2>1 DEF Line
  <2>3. Len(ps) \in Nat
    BY <1>1
  <2>4. u \in Seq(Line) /\ Len(u) = Len(ps)
    BY <2>2, <2>3
  <2> QED
    BY <1>1, <2>4
<1>3. t = s \o u
  BY DEF ps
<1> HIDE DEF u
<1>4. /\ t \in Seq(Line) /\ Len(t) = Len(s) + Len(u) /\ Len(s) \in Nat
      /\ DOMAIN s = 1 .. Len(s) /\ DOMAIN t = 1 .. Len(t)
      /\ \A i \in 1 .. Len(s) + Len(u) : t[i] = IF i <= Len(s) THEN s[i] ELSE u[i - Len(s)]
  <2>0. s \in Seq(Line) /\ u \in Seq(Line)
    BY <1>2
  <2>1. s \o u \in Seq(Line) /\ Len(s \o u) = Len(s) + Len(u)
        /\ \A i \in 1 .. Len(s) + Len(u) :
             (s \o u)[i] = IF i <= Len(s) THEN s[i] ELSE u[i - Len(s)]
    BY <2>0, ConcatProperties, Zenon
  <2> QED
    BY <1>3, <2>1, LenProperties
<1>5. \A i \in DOMAIN t : i \in DOMAIN s \/ \E j \in 1 .. Len(ps) : i = Len(s) + j
  <2> SUFFICES ASSUME NEW i \in DOMAIN t, i \notin DOMAIN s
               PROVE  \E j \in 1 .. Len(ps) : i = Len(s) + j
    OBVIOUS
  <2> DEFINE j == i - Len(s)
  <2>1. j \in 1 .. Len(ps) /\ i = Len(s) + j
    BY <1>1, <1>2, <1>4
  <2> QED
    BY <2>1
<1>6. /\ \A i \in DOMAIN s : t[i] = s[i] /\ i \in DOMAIN t
      /\ \A j \in 1 .. Len(ps) : t[Len(s) + j] = <<c, ps[j]>> /\ Len(s) + j \in DOMAIN t
  <2>1. ASSUME NEW i \in DOMAIN s  PROVE t[i] = s[i] /\ i \in DOMAIN t
    BY <1>1, <1>2, <1>4
  <2>2. ASSUME NEW j \in 1 .. Len(ps)
        PROVE  t[Len(s) + j] = <<c, ps[j]>> /\ Len(s) + j \in DOMAIN t
    <3>1. ~(Len(s) + j <= Len(s)) /\ (Len(s) + j) - Len(s) = j
          /\ Len(s) + j \in 1 .. Len(s) + Len(u)
      BY <1>1, <1>2, <1>4
    <3> QED
      BY <1>2, <1>4, <3>1
  <2> QED
    BY <2>1, <2>2
<1>7. \A j \in 1 .. Len(ps) : \A k \in 1 .. Len(ps) : ps[j] = ps[k] => j = k
  <2>1. CASE Len(ps) = 2
    <3>1. \A j \in 1 .. Len(ps) : j = 1 \/ j = 2
      BY <2>1
    <3> QED
      BY <1>1, <2>1, <3>1
  <2>2. CASE Len(ps) # 2
    <3>1. Len(ps) = 0 \/ Len(ps) = 1
      BY <1>1, <2>2
    <3>2. \A j \in 1 .. Len(ps) : j = 1
      <4> DEFINE m == Len(ps)
      <4>1. m = 0 \/ m = 1
        BY <3>1
      <4> HIDE DEF m
      <4>2. \A j \in 1 .. m : j = 1
        BY <4>1
      <4> QED
        BY <4>2 DEF m
    <3> QED
      BY <3>2
  <2> QED
    BY <2>1, <2>2
<1>8. \A i \in DOMAIN s : s[i] \in ToSet(s)
  BY DEF ToSet
<1>9. IsInjective(t)
  <2> SUFFICES ASSUME NEW a \in DOMAIN t, NEW b \in DOMAIN t, t[a] = t[b]  PROVE a = b
    BY DEF IsInjective
  <2>1. CASE a \in DOMAIN s /\ b \in DOMAIN s
    BY <1>6, <2>1 DEF IsInjective
  <2>2. CASE a \in DOMAIN s /\ b \notin DOMAIN s
    <3>1. PICK j \in 1 .. Len(ps) : b = Len(s) + j
      BY <1>5, <2>2
    <3>2. s[a] = <<c, ps[j]>>
      BY <1>6, <2>2, <3>1
    <3> QED
      BY <1>8, <2>2, <3>2
  <2>3. CASE b \in DOMAIN s /\ a \notin DOMAIN s
    <3>1. PICK j \in 1 .. Len(ps) : a = Len(s) + j
      BY <1>5, <2>3
    <3>2. s[b] = <<c, ps[j]>>
      BY <1>6, <2>3, <3>1
    <3> QED
      BY <1>8, <2>3, <3>2
  <2>4. CASE a \notin DOMAIN s /\ b \notin DOMAIN s
    <3>1. PICK j \in 1 .. Len(ps) : a = Len(s) + j
      BY <1>5, <2>4
    <3>2. PICK k \in 1 .. Len(ps) : b = Len(s) + k
      BY <1>5, <2>4
    <3>3. <<c, ps[j]>> = <<c, ps[k]>>
      BY <1>6, <3>1, <3>2
    <3>4. j = k
      BY <1>7, <3>3
    <3> QED
      BY <3>1, <3>2, <3>4
  <2> QED
    BY <2>1, <2>2, <2>3, <2>4
<1>10. ToSet(t) = ToSet(s) \cup LinesOf({c})
  <2>1. LinesOf({c}) = {<<c, ps[j]>> : j \in 1 .. Len(ps)}
    BY <1>1 DEF LinesOf, ToSet, ps
  <2>2. ASSUME NEW l  PROVE l \in ToSet(t) <=> l \in ToSet(s) \cup LinesOf({c})
    <3>1. CASE l \in ToSet(t)
      <4>1. PICK i \in DOMAIN t : l = t[i]
        BY <3>1 DEF ToSet
      <4>2. CASE i \in DOMAIN s
        BY <1>6, <1>8, <3>1, <4>1, <4>2
      <4>3. CASE \E j \in 1 .. Len(ps) : i = Len(s) + j
        <5>1. PICK j \in 1 .. Len(ps) : i = Len(s) + j
          BY <4>3
        <5>2. l = <<c, ps[j]>>
          BY <1>6, <4>1, <5>1
        <5> QED
          BY <2>1, <3>1, <5>2
      <4> QED
        BY <1>5, <4>2, <4>3
    <3>2. CASE l \in ToSet(s)
      <4>1. PICK i \in DOMAIN s : l = s[i]
        BY <3>2 DEF ToSet
      <4> QED
        BY <1>6, <4>1 DEF ToSet
    <3>3. CASE l \in LinesOf({c})
      <4>1. PICK j \in 1 .. Len(ps) : l = <<c, ps[j]>>
        BY <2>1, <3>3
      <4>2. l = t[Len(s) + j] /\ Len(s) + j \in DOMAIN t
        BY <1>6, <4>1
      <4> QED
        BY <3>3, <4>2 DEF ToSet
    <3> QED
      BY <3>1, <3>2, <3>3
  <2> QED
    BY <2>2
<1> QED
  BY <1>4, <1>9, <1>10

\* What the steps of a drawing do to the page.
LEMMA PageThrown ==
  ASSUME NEW p \in Page
  PROVE  /\ Threw(p) \in Page /\ Threw(p).drawn = p.drawn /\ Threw(p).lines = p.lines
         /\ Threw(p).how = "threw"
<1> DEFINE D == SUBSET (1 .. Len(commits))
           L == Seq(Line)
           W == {"returned", "threw", "hangs"}
<1>1. Page = [drawn : D, lines : L, how : W]
  BY DEF Page, Line
<1>2. "threw" \in W
  OBVIOUS
<1> HIDE DEF D, L, W
<1> QED
  BY <1>1, <1>2 DEF Threw

\* What each step of the drawing leaves alone.
LEMMA PageEdits ==
  ASSUME Commits(commits), NEW p \in Page, NEW c \in 1 .. Len(commits)
  PROVE  /\ p.drawn \in SUBSET (1 .. Len(commits)) /\ p.lines \in Seq(Line)
         /\ p.how \in {"returned", "threw", "hangs"}
         /\ Hung(p) \in Page /\ Hung(p).drawn = p.drawn /\ Hung(p).lines = p.lines
         /\ Hung(p).how = "hangs"
         /\ Threw(p) \in Page /\ Threw(p).drawn = p.drawn /\ Threw(p).lines = p.lines
         /\ Threw(p).how = "threw"
         /\ Flagged(p, c) \in Page /\ Flagged(p, c).drawn = p.drawn \cup {c}
         /\ Flagged(p, c).lines = p.lines /\ Flagged(p, c).how = p.how
<1> DEFINE D == SUBSET (1 .. Len(commits))
           L == Seq(Line)
           W == {"returned", "threw", "hangs"}
<1>1. Page = [drawn : D, lines : L, how : W]
  BY DEF Page, Line
<1>2. \A d \in D : d \cup {c} \in D
  OBVIOUS
<1>3. "hangs" \in W
  OBVIOUS
<1> HIDE DEF D, L, W
<1>4. p.drawn \in D /\ p.lines \in L /\ p.how \in W
  BY <1>1
<1>5. /\ Hung(p) \in Page /\ Hung(p).drawn = p.drawn /\ Hung(p).lines = p.lines
      /\ Hung(p).how = "hangs"
  BY <1>1, <1>3 DEF Hung
<1>6. /\ Threw(p) \in Page /\ Threw(p).drawn = p.drawn /\ Threw(p).lines = p.lines
      /\ Threw(p).how = "threw"
  BY PageThrown
<1>7. /\ Flagged(p, c) \in Page /\ Flagged(p, c).drawn = p.drawn \cup {c}
      /\ Flagged(p, c).lines = p.lines /\ Flagged(p, c).how = p.how
  BY <1>1, <1>2, <1>4 DEF Flagged
<1> QED
  BY <1>4, <1>5, <1>6, <1>7 DEF D, L, W

\* The lines that are put on a page for a commit that has none there.
LEMMA LinesEdit ==
  ASSUME Commits(commits), NEW p \in Page, NEW c \in 1 .. Len(commits),
         IsInjective(p.lines), \A l \in ToSet(p.lines) : l[1] # c
  PROVE  /\ WithLines(p, c) \in Page /\ WithLines(p, c).drawn = p.drawn
         /\ WithLines(p, c).how = p.how
         /\ IsInjective(WithLines(p, c).lines)
         /\ ToSet(WithLines(p, c).lines) = ToSet(p.lines) \cup LinesOf({c})
<1> DEFINE t == p.lines \o [i \in DOMAIN commits[c] |-> <<c, commits[c][i]>>]
           r == [p EXCEPT !.lines = t]
           L == Seq(Line)
           D == SUBSET (1 .. Len(commits))
           W == {"returned", "threw", "hangs"}
<1>1. p.lines \in L /\ Page = [drawn : D, lines : L, how : W]
  BY DEF Page, Line
<1>2. t \in L /\ IsInjective(t) /\ ToSet(t) = ToSet(p.lines) \cup LinesOf({c})
  BY <1>1, LinesAppended
<1>3. WithLines(p, c) = r
  BY Zenon DEF WithLines
<1> HIDE DEF t, L, D, W
<1>4. r \in Page /\ r.drawn = p.drawn /\ r.how = p.how /\ r.lines = t
  BY <1>1, <1>2
<1> QED
  BY <1>2, <1>3, <1>4

\* A set that holds with each commit its parents, but for the flagged ones.
Closed(S, G) ==
  /\ S \in SUBSET (1 .. Len(commits))
  /\ \A e \in S : (ToSet(commits[e]) \ G) \ {Null} \subseteq S

\* A commit whose lines and parents have been drawn.
Complete(d, done) ==
  /\ d # 1 /\ commits[d] # << >> /\ commits[d][1] # Null
  /\ ToSet(commits[d]) \subseteq done \cup {1}

\* Why a drawing hangs or throws.
Stuck(how, S) ==
  \/ how = "hangs" /\ \E x \in S : x # 1 /\ commits[x] = << >>
  \/ how = "threw" /\ \E x \in S : commits[x] # << >> /\ commits[x][1] = Null

\* A page on which the drawing may go on with the commit c: the lines there are
\* start at flagged commits, or at those after c that are still being drawn.
Ready(p, c, S, G) ==
  /\ p \in Page /\ Go(p) /\ G \subseteq p.drawn /\ c \in S \cup p.drawn
  /\ IsInjective(p.lines)
  /\ \A l \in ToSet(p.lines) : l[1] \in p.drawn \/ l[1] > c

\* What the drawing of c has made of the page p.
Drawn(p, c, r, S) ==
  /\ r \in Page /\ p.drawn \subseteq r.drawn /\ r.drawn \subseteq p.drawn \cup S
  /\ IsInjective(r.lines)
  /\ ~Go(r) => Stuck(r.how, S)
  /\ Go(r) => /\ c \in r.drawn \cup {1}
              /\ \A d \in r.drawn \ p.drawn : Complete(d, r.drawn)
              /\ ToSet(r.lines) = ToSet(p.lines) \cup LinesOf(r.drawn \ p.drawn)

\* What is complete stays so when more is drawn.
LEMMA CompleteMore ==
  ASSUME NEW d, NEW D, NEW E, Complete(d, D), D \subseteq E
  PROVE  Complete(d, E)
BY DEF Complete

\* One call of renderLines, if the calls for earlier commits do what they should.
LEMMA RenderOne ==
  ASSUME Commits(commits), NEW S, NEW G, Closed(S, G), NEW c \in 1 .. Len(commits), NEW p,
         Ready(p, c, S, G),
         \A d \in 1 .. c - 1 : \A q : Ready(q, d, S, G) => Drawn(q, d, RenderLines(q, d), S)
  PROVE  Drawn(p, c, RenderLines(p, c), S)
<1> DEFINE r == RenderLines(p, c)
           f == commits[c][1]
           lined == WithLines(p, c)
           side == IF Len(commits[c]) = 2 THEN RenderLines(lined, commits[c][2]) ELSE lined
           next == Flagged(side, c)
<1>0. /\ p \in Page /\ Go(p) /\ c \in Nat
      /\ G \subseteq p.drawn /\ c \in S \cup p.drawn
      /\ IsInjective(p.lines)
      /\ \A l \in ToSet(p.lines) : l[1] \in p.drawn \/ l[1] > c
  BY DEF Ready
<1>p. LET ps == commits[c]
      IN  /\ ToSet(ps) \subseteq 0 .. c - 1
          /\ Len(ps) \in {0, 1, 2}
          /\ Len(ps) = 0 <=> ps = << >>
          /\ Len(ps) = 1 => ps[1] \in 1 .. c - 1 /\ ToSet(ps) = {ps[1]}
          /\ Len(ps) = 2 => /\ ps[1] \in 0 .. c - 1 /\ ps[2] \in 1 .. c - 1
                            /\ ToSet(ps) = {ps[1], ps[2]}
  BY ParentsBefore
<1>1. r = IF ~Go(p) \/ c = 1 \/ c \in p.drawn THEN p
          ELSE IF commits[c] = << >> THEN Hung(p)
          ELSE IF f = Null THEN Threw(p)
          ELSE IF Go(side) THEN RenderLines(next, f) ELSE side
  <2>1. r = Body(p, c, RenderLines)
    BY <1>0, RenderStep
  <2> QED
    BY <2>1, Zenon DEF Body
<1> HIDE DEF r
<1>2. CASE c = 1 \/ c \in p.drawn
  <2>1. r = p
    BY <1>1, <1>2
  <2>2. LinesOf({}) = {}
    BY DEF LinesOf
  <2>3. r.drawn \ p.drawn = {}
    BY <2>1
  <2> QED
    BY <1>0, <1>2, <2>1, <2>2, <2>3 DEF Drawn, r
<1>3. CASE c # 1 /\ c \notin p.drawn /\ commits[c] = << >>
  <2>1. r = Hung(p)
    BY <1>0, <1>1, <1>3
  <2>2. /\ r \in Page /\ r.drawn = p.drawn /\ r.lines = p.lines
        /\ r.how = "hangs"
    BY <1>0, <2>1, PageEdits
  <2>3. Stuck(r.how, S)
    BY <1>0, <1>3, <2>2 DEF Stuck
  <2> QED
    BY <1>0, <2>2, <2>3 DEF Drawn, Go, r
<1>4. CASE c # 1 /\ c \notin p.drawn /\ commits[c] # << >> /\ f = Null
  <2>1. r = Threw(p)
    BY <1>0, <1>1, <1>4
  <2>2. /\ r \in Page /\ r.drawn = p.drawn /\ r.lines = p.lines
        /\ r.how = "threw"
    BY <1>0, <2>1, PageEdits
  <2>3. Stuck(r.how, S)
    BY <1>0, <1>4, <2>2 DEF Stuck
  <2> QED
    BY <1>0, <2>2, <2>3 DEF Drawn, Go, r
<1>5. CASE c # 1 /\ c \notin p.drawn /\ commits[c] # << >> /\ f # Null
  <2>0. c \in S
    BY <1>0, <1>5
  <2>1. /\ \A l \in ToSet(p.lines) : l[1] # c
        /\ \A d \in 1 .. c - 1 : \A l \in ToSet(p.lines) : l[1] \in p.drawn \/ l[1] > d
    <3> SUFFICES ASSUME NEW l \in ToSet(p.lines)
                 PROVE  l[1] # c /\ \A d \in 1 .. c - 1 : l[1] \in p.drawn \/ l[1] > d
      OBVIOUS
    <3>1. CASE l[1] \in p.drawn
      BY <1>5, <3>1
    <3>2. CASE l[1] \notin p.drawn /\ l[1] > c
      <4>1. l \in Line
        BY <1>0, PageEdits, ElementOfSeq DEF ToSet
      <4>2. l[1] \in Nat
        BY <4>1 DEF Line
      <4> QED
        BY <1>0, <3>2, <4>2
    <3> QED
      BY <1>0, <3>1, <3>2
  <2>2. /\ lined \in Page /\ lined.drawn = p.drawn /\ lined.how = p.how
        /\ IsInjective(lined.lines)
        /\ ToSet(lined.lines) = ToSet(p.lines) \cup LinesOf({c})
    BY <1>0, <2>1, LinesEdit
  <2>3. \A d \in 1 .. c - 1 : d \in S \cup p.drawn => Ready(lined, d, S, G)
    <3> SUFFICES ASSUME NEW d \in 1 .. c - 1, d \in S \cup p.drawn  PROVE Ready(lined, d, S, G)
      OBVIOUS
    <3> HIDE DEF lined
    <3>1. ASSUME NEW l \in ToSet(lined.lines)  PROVE l[1] \in p.drawn \/ l[1] > d
      <4>1. CASE l \in ToSet(p.lines)
        BY <2>1, <4>1
      <4>2. CASE l \in LinesOf({c})
        <5>1. l[1] = c
          BY <4>2, LinesStart
        <5> QED
          BY <1>0, <5>1
      <4> QED
        BY <2>2, <4>1, <4>2
    <3> QED
      BY <1>0, <2>2, <3>1 DEF Ready, Go
  <2>4. \A x \in ToSet(commits[c]) : x # Null => x \in S \cup p.drawn
    BY <1>0, <2>0 DEF Closed
  <2>5. f \in 1 .. c - 1 /\ f \in S \cup p.drawn
    <3>1. f \in ToSet(commits[c])
      BY <1>5, <1>p
    <3>2. f \in 0 .. c - 1
      BY <1>p, <3>1
    <3> QED
      BY <1>0, <1>5, <2>4, <3>1, <3>2 DEF Null
  <2> DEFINE Shown(s) ==
               /\ s \in Page /\ p.drawn \subseteq s.drawn /\ s.drawn \subseteq p.drawn \cup S
               /\ IsInjective(s.lines)
               /\ ~Go(s) => Stuck(s.how, S)
               /\ Go(s) =>
                    /\ \A d \in s.drawn \ p.drawn : Complete(d, s.drawn)
                    /\ ToSet(s.lines) = (ToSet(p.lines) \cup LinesOf({c}))
                                          \cup LinesOf(s.drawn \ p.drawn)
                    /\ ToSet(commits[c]) \subseteq s.drawn \cup {1, f}
  <2>6. Shown(side)
    <3>1. CASE Len(commits[c]) = 2
      <4> DEFINE q == commits[c][2]
      <4>1. side = RenderLines(lined, q)
        BY <3>1
      <4>2. q \in 1 .. c - 1 /\ q \in ToSet(commits[c]) /\ ToSet(commits[c]) = {f, q}
        BY <1>p, <3>1
      <4> HIDE DEF lined, side, q, f
      <4>3. q # Null
        BY <1>0, <4>2 DEF Null
      <4>4. Drawn(lined, q, side, S)
        BY <2>3, <2>4, <4>1, <4>2, <4>3
      <4> QED
        BY <2>2, <4>2, <4>4 DEF Drawn
    <3>2. CASE Len(commits[c]) # 2
      <4>1. side = lined
        BY <3>2
      <4>2. ToSet(commits[c]) = {f}
        BY <1>p, <1>5, <3>2
      <4> HIDE DEF lined, side, f
      <4>3. LinesOf(lined.drawn \ p.drawn) = {}
        BY <2>2 DEF LinesOf
      <4>4. Go(lined)
        BY <1>0, <2>2 DEF Go
      <4> QED
        BY <2>2, <4>1, <4>2, <4>3, <4>4
    <3> QED
      BY <3>1, <3>2
  <2> HIDE DEF side
  <2>7. r = IF Go(side) THEN RenderLines(next, f) ELSE side
    BY <1>0, <1>1, <1>5
  <2>8. CASE ~Go(side)
    <3>1. r = side
      BY <2>7, <2>8
    <3> QED
      BY <2>6, <2>8, <3>1 DEF Drawn, r
  <2>9. CASE Go(side)
    <3> HIDE DEF lined, f
    <3>0. r = RenderLines(next, f)
      BY <2>7, <2>9
    <3>1. /\ next \in Page /\ next.drawn = side.drawn \cup {c}
          /\ next.lines = side.lines /\ next.how = side.how
      BY <2>6, PageEdits
    <3> HIDE DEF next
    <3>2. Ready(next, f, S, G)
      <4>1. ASSUME NEW l \in ToSet(next.lines)  PROVE l[1] \in next.drawn \/ l[1] > f
        <5>1. CASE l \in ToSet(p.lines)
          BY <2>1, <2>5, <2>6, <3>1, <5>1
        <5>2. CASE l \in LinesOf({c})
          BY <3>1, <5>2, LinesStart
        <5>3. CASE l \in LinesOf(side.drawn \ p.drawn)
          BY <3>1, <5>3, LinesStart
        <5> QED
          BY <2>6, <2>9, <3>1, <5>1, <5>2, <5>3
      <4>2. Go(next) /\ G \subseteq next.drawn /\ f \in S \cup next.drawn
        BY <1>0, <2>5, <2>6, <2>9, <3>1 DEF Go
      <4> QED
        BY <2>6, <3>1, <4>1, <4>2 DEF Ready
    <3>3. Drawn(next, f, r, S)
      BY <2>5, <3>0, <3>2
    <3>4. r.drawn \subseteq p.drawn \cup S /\ p.drawn \subseteq r.drawn
          /\ side.drawn \subseteq r.drawn /\ c \in r.drawn
      BY <2>0, <2>6, <3>1, <3>3 DEF Drawn
    <3>5. ASSUME Go(r), NEW d \in r.drawn \ p.drawn  PROVE Complete(d, r.drawn)
      <4>1. CASE d \in r.drawn \ next.drawn
        BY <3>3, <3>5, <4>1 DEF Drawn
      <4>2. CASE d \in side.drawn \ p.drawn
        BY <2>6, <2>9, <3>4, <4>2, CompleteMore
      <4>3. CASE d = c
        <5>1. ToSet(commits[c]) \subseteq r.drawn \cup {1}
          BY <2>6, <2>9, <3>3, <3>4, <3>5 DEF Drawn
        <5> QED
          BY <1>5, <4>3, <5>1 DEF Complete, f
      <4> QED
        BY <3>1, <3>5, <4>1, <4>2, <4>3
    <3>6. ASSUME Go(r)
          PROVE  ToSet(r.lines) = ToSet(p.lines) \cup LinesOf(r.drawn \ p.drawn)
      <4>1. r.drawn \ p.drawn = ({c} \cup (side.drawn \ p.drawn)) \cup (r.drawn \ next.drawn)
        BY <1>5, <2>6, <3>1, <3>4
      <4>2. LinesOf(r.drawn \ p.drawn) =
              (LinesOf({c}) \cup LinesOf(side.drawn \ p.drawn)) \cup LinesOf(r.drawn \ next.drawn)
        <5> DEFINE A == {c}
                   B == side.drawn \ p.drawn
                   E == r.drawn \ next.drawn
        <5>1. r.drawn \ p.drawn = (A \cup B) \cup E
          BY <4>1
        <5> HIDE DEF A, B, E
        <5>2. LinesOf((A \cup B) \cup E) = LinesOf(A \cup B) \cup LinesOf(E)
          BY LinesJoin, Zenon
        <5>3. LinesOf(A \cup B) = LinesOf(A) \cup LinesOf(B)
          BY LinesJoin, Zenon
        <5>4. LinesOf(r.drawn \ p.drawn) = (LinesOf(A) \cup LinesOf(B)) \cup LinesOf(E)
          BY <5>1, <5>2, <5>3, Zenon
        <5> QED
          BY <5>4 DEF A, B, E
      <4>3. ToSet(r.lines) = ToSet(side.lines) \cup LinesOf(r.drawn \ next.drawn)
        BY <3>1, <3>3, <3>6 DEF Drawn
      <4>4. ToSet(side.lines) = (ToSet(p.lines) \cup LinesOf({c}))
                                  \cup LinesOf(side.drawn \ p.drawn)
        BY <2>6, <2>9
      <4> QED
        BY <4>2, <4>3, <4>4
    <3>7. r \in Page /\ IsInjective(r.lines) /\ (~Go(r) => Stuck(r.how, S))
      BY <3>3 DEF Drawn
    <3> QED
      BY <3>4, <3>5, <3>6, <3>7 DEF Drawn, r
  <2> QED
    BY <2>8, <2>9
<1> QED
  BY <1>2, <1>3, <1>4, <1>5

\* All the calls, by induction on the commit.
LEMMA RenderRight ==
  ASSUME Commits(commits), NEW S, NEW G, Closed(S, G), NEW c \in 1 .. Len(commits), NEW p,
         Ready(p, c, S, G)
  PROVE  Drawn(p, c, RenderLines(p, c), S)
<1> DEFINE n == Len(commits)
           Right(d) == \A q : Ready(q, d, S, G) => Drawn(q, d, RenderLines(q, d), S)
           K == {k \in Nat : \A d \in 1 .. n : d <= k => Right(d)}
<1>0. n \in Nat
  BY LenProperties DEF Commits
<1> HIDE DEF Right
<1>1. 0 \in K
  BY <1>0
<1>2. ASSUME NEW k \in Nat, k \in K  PROVE k + 1 \in K
  <2> SUFFICES ASSUME NEW d \in 1 .. n, d = k + 1  PROVE Right(d)
    BY <1>0, <1>2
  <2>1. \A e \in 1 .. d - 1 : Right(e)
    BY <1>0, <1>2
  <2> QED
    BY <2>1, RenderOne DEF Right
<1> HIDE DEF K
<1>3. n \in K
  BY <1>0, <1>1, <1>2, NatSetInduction
<1>4. Right(c)
  BY <1>0, <1>3 DEF K
<1> QED
  BY <1>4 DEF Right

\* The pages of a drawing, one after the other.
LEMMA DrawingIs ==
  ASSUME Len(branches) \in Nat
  PROVE  \E page :
           /\ page[0] = [drawn |-> lineDrawn, lines |-> << >>, how |-> "returned"]
           /\ \A i \in 1 .. Len(branches) :
                page[i] = IF ~Go(page[i - 1]) THEN page[i - 1]
                          ELSE IF branches[i].commit = Null THEN Threw(page[i - 1])
                          ELSE RenderLines(page[i - 1], branches[i].commit)
           /\ DrawGitGraph = page[Len(branches)]
<1> DEFINE n == Len(branches)
           first == [drawn |-> lineDrawn, lines |-> << >>, how |-> "returned"]
           F(i, g) == IF i = 0 THEN first
                      ELSE IF ~Go(g[i - 1]) THEN g[i - 1]
                      ELSE IF branches[i].commit = Null THEN Threw(g[i - 1])
                      ELSE RenderLines(g[i - 1], branches[i].commit)
           Is(k, g) == g = [i \in 0 .. k |-> F(i, g)]
           page == CHOOSE g : Is(n, g)
<1>1. DrawGitGraph = page[n]
  BY Zenon DEF DrawGitGraph, Threw
<1> HIDE DEF first
<1>2. ASSUME NEW i \in Nat, NEW g, NEW h, i = 0 \/ g[i - 1] = h[i - 1]
      PROVE  F(i, g) = F(i, h)
  BY <1>2
<1>3. ASSUME NEW g  PROVE F(0, g) = first
  OBVIOUS
<1> HIDE DEF F
<1>4. \E g : Is(n, g)
  <2> DEFINE S == {k \in Nat : \E g : Is(k, g)}
  <2>1. 0 \in S
    <3> DEFINE h == [i \in 0 .. 0 |-> first]
    <3>1. Is(0, h)
      BY <1>3
    <3> HIDE DEF h
    <3> QED
      BY <3>1
  <2>2. ASSUME NEW k \in Nat, k \in S  PROVE k + 1 \in S
    <3>1. PICK g : Is(k, g)
      BY <2>2
    <3>2. \A i \in 0 .. k : g[i] = F(i, g)
      BY <3>1, Zenon
    <3> DEFINE h == [i \in 0 .. k + 1 |-> IF i = k + 1 THEN F(i, g) ELSE g[i]]
    <3>3. ASSUME NEW i \in 0 .. k + 1  PROVE h[i] = F(i, h)
      <4>1. i = 0 \/ g[i - 1] = h[i - 1]
        OBVIOUS
      <4>2. F(i, g) = F(i, h)
        BY <1>2, <4>1
      <4>3. h[i] = F(i, g)
        BY <3>2
      <4> QED
        BY <4>2, <4>3
    <3>4. Is(k + 1, h)
      BY <3>3
    <3> HIDE DEF h, Is
    <3> QED
      BY <3>4
  <2> HIDE DEF S
  <2>3. n \in S
    BY <2>1, <2>2, NatSetInduction
  <2> QED
    BY <2>3 DEF S
<1>5. Is(n, page)
  BY <1>4, Zenon
<1> HIDE DEF page
<1>6. \A i \in 0 .. n : page[i] = F(i, page)
  BY <1>5, Zenon
<1>7. page[0] = first
  BY <1>3, <1>6
<1>8. \A i \in 1 .. n : page[i] = IF ~Go(page[i - 1]) THEN page[i - 1]
                                  ELSE IF branches[i].commit = Null THEN Threw(page[i - 1])
                                  ELSE RenderLines(page[i - 1], branches[i].commit)
  BY <1>6 DEF F
<1> QED
  BY <1>1, <1>7, <1>8 DEF first

\* The pages up to the i-th: S is what can be reached from the tips.
Shown(i, p, S) ==
  /\ p \in Page /\ lineDrawn \subseteq p.drawn /\ p.drawn \subseteq lineDrawn \cup S
  /\ IsInjective(p.lines)
  /\ ~Go(p) => \/ Stuck(p.how, S)
               \/ p.how = "threw" /\ \E j \in DOMAIN branches : branches[j].commit = Null
  /\ Go(p) => /\ \A d \in p.drawn \ lineDrawn : Complete(d, p.drawn)
              /\ ToSet(p.lines) = LinesOf(p.drawn \ lineDrawn)
              /\ \A j \in 1 .. i : branches[j].commit \in (p.drawn \cup {1}) \ {Null}

\* No branch has been drawn yet.
LEMMA FirstPage ==
  ASSUME GitGood, lineDrawn \subseteq 1 .. Len(commits), NEW S,
         NEW p, p = [drawn |-> lineDrawn, lines |-> << >>, how |-> "returned"]
  PROVE  Shown(0, p, S)
<1>1. p \in Page
  BY DEF Page
<1>2. p.drawn = lineDrawn /\ p.lines = << >> /\ p.how = "returned"
  OBVIOUS
<1>3. ToSet(p.lines) = {} /\ IsInjective(p.lines)
  BY <1>2 DEF ToSet, IsInjective
<1>4. LinesOf(p.drawn \ lineDrawn) = {}
  BY <1>2 DEF LinesOf
<1>5. Go(p) /\ p.drawn \ lineDrawn = {} /\ lineDrawn \subseteq p.drawn
      /\ p.drawn \subseteq lineDrawn \cup S
  BY <1>2 DEF Go
<1>6. \A j \in 1 .. 0 : branches[j].commit \in (p.drawn \cup {1}) \ {Null}
  OBVIOUS
<1> QED
  BY <1>1, <1>3, <1>4, <1>5, <1>6, Zenon DEF Shown

\* One branch more.
LEMMA NextPage ==
  ASSUME GitGood, NEW S, Closed(S, lineDrawn), NEW i \in 1 .. Len(branches),
         branches[i].commit \in (S \cup lineDrawn) \cup {Null},
         NEW p, Shown(i - 1, p, S),
         NEW r, r = IF ~Go(p) THEN p
                    ELSE IF branches[i].commit = Null THEN Threw(p)
                    ELSE RenderLines(p, branches[i].commit)
  PROVE  Shown(i, r, S)
<1> DEFINE c == branches[i].commit
<1>0. Commits(commits) /\ Len(branches) \in Nat /\ i \in DOMAIN branches
      /\ c \in 0 .. Len(commits) /\ Len(commits) \in Nat
  <2>1. Len(branches) \in Nat /\ i \in DOMAIN branches
    BY LenProperties DEF GitGood, Branches
  <2>2. TipOf(branches, branches[i].name) = c
    BY <2>1, GoodFacts, TipFound DEF GitGood
  <2> QED
    BY <2>1, <2>2, GoodFacts DEF GitGood
<1>1. CASE ~Go(p)
  BY <1>1 DEF Shown
<1>2. CASE Go(p) /\ c = Null
  <2>1. r = Threw(p)
    BY <1>2
  <2>2. r \in Page /\ r.drawn = p.drawn /\ r.lines = p.lines /\ r.how = "threw"
    <3>1. p \in Page
      BY DEF Shown
    <3> QED
      BY <2>1, <3>1, PageThrown
  <2> QED
    BY <1>0, <1>2, <2>2 DEF Shown, Go
<1>3. CASE Go(p) /\ c # Null
  <2>1. r = RenderLines(p, c)
    BY <1>3
  <2>2. c \in 1 .. Len(commits)
    BY <1>0, <1>3 DEF Null
  <2>3. Ready(p, c, S, lineDrawn)
    <3>1. \A l \in ToSet(p.lines) : l[1] \in p.drawn
      BY <1>3, LinesStart DEF Shown
    <3> QED
      BY <1>3, <3>1 DEF Ready, Shown
  <2> HIDE DEF c
  <2>4. Drawn(p, c, r, S)
    BY <1>0, <2>1, <2>2, <2>3, RenderRight
  <2>5. r.drawn \subseteq lineDrawn \cup S /\ lineDrawn \subseteq r.drawn
        /\ p.drawn \subseteq r.drawn
    BY <2>4 DEF Drawn, Shown
  <2>6. CASE ~Go(r)
    BY <2>4, <2>5, <2>6 DEF Drawn, Shown
  <2>7. CASE Go(r)
    <3>1. ASSUME NEW d \in r.drawn \ lineDrawn  PROVE Complete(d, r.drawn)
      <4>1. CASE d \in p.drawn
        <5>1. Complete(d, p.drawn)
          BY <1>3, <3>1, <4>1 DEF Shown
        <5> QED
          BY <2>5, <5>1, CompleteMore
      <4>2. CASE d \notin p.drawn
        BY <2>4, <2>7, <3>1, <4>2 DEF Drawn
      <4> QED
        BY <4>1, <4>2
    <3>2. ToSet(r.lines) = LinesOf(r.drawn \ lineDrawn)
      <4> DEFINE A == p.drawn \ lineDrawn
                 B == r.drawn \ p.drawn
      <4>1. ToSet(r.lines) = LinesOf(A) \cup LinesOf(B)
        BY <1>3, <2>4, <2>7 DEF Drawn, Shown
      <4>2. A \cup B = r.drawn \ lineDrawn
        BY <2>5 DEF Shown
      <4> HIDE DEF A, B
      <4>3. LinesOf(A \cup B) = LinesOf(A) \cup LinesOf(B)
        BY LinesJoin, Zenon
      <4> QED
        BY <4>1, <4>2, <4>3, Zenon
    <3>3. ASSUME NEW j \in 1 .. i  PROVE branches[j].commit \in (r.drawn \cup {1}) \ {Null}
      <4>1. CASE j = i
        BY <1>3, <2>4, <2>7, <4>1 DEF Drawn, c
      <4>2. CASE j # i
        <5>1. j \in 1 .. i - 1
          BY <1>0, <4>2
        <5> QED
          BY <1>3, <2>5, <5>1 DEF Shown
      <4> QED
        BY <4>1, <4>2
    <3> QED
      BY <2>4, <2>5, <2>7, <3>1, <3>2, <3>3 DEF Drawn, Shown
  <2> QED
    BY <2>6, <2>7
<1> QED
  BY <1>1, <1>2, <1>3

\* What a drawing has made of the flags and the lines, and why it stopped.
LEMMA DrawingRight ==
  ASSUME GitGood, lineDrawn \subseteq 1 .. Len(commits),
         NEW S, Closed(S, lineDrawn),
         \A i \in DOMAIN branches : branches[i].commit \in (S \cup lineDrawn) \cup {Null}
  PROVE  Shown(Len(branches), DrawGitGraph, S)
<1> DEFINE n == Len(branches)
<1>0. n \in Nat /\ DOMAIN branches = 1 .. n
  BY LenProperties DEF GitGood, Branches
<1>1. PICK page :
        /\ page[0] = [drawn |-> lineDrawn, lines |-> << >>, how |-> "returned"]
        /\ \A i \in 1 .. n :
             page[i] = IF ~Go(page[i - 1]) THEN page[i - 1]
                       ELSE IF branches[i].commit = Null THEN Threw(page[i - 1])
                       ELSE RenderLines(page[i - 1], branches[i].commit)
        /\ DrawGitGraph = page[n]
  BY <1>0, DrawingIs
<1> HIDE DEF n
<1> DEFINE K == {k \in Nat : k <= n => Shown(k, page[k], S)}
<1>2. 0 \in K
  BY <1>1, FirstPage
<1>3. ASSUME NEW k \in Nat, k \in K  PROVE k + 1 \in K
  <2> SUFFICES ASSUME k + 1 <= n  PROVE Shown(k + 1, page[k + 1], S)
    OBVIOUS
  <2> DEFINE i == k + 1
  <2>1. i \in 1 .. n /\ i - 1 = k /\ i \in DOMAIN branches
    BY <1>0
  <2>2. Shown(i - 1, page[i - 1], S)
    BY <1>0, <1>3, <2>1
  <2>3. page[i] = IF ~Go(page[i - 1]) THEN page[i - 1]
                  ELSE IF branches[i].commit = Null THEN Threw(page[i - 1])
                  ELSE RenderLines(page[i - 1], branches[i].commit)
    BY <1>1, <2>1
  <2> HIDE DEF i, K
  <2>4. Shown(i, page[i], S)
    BY <2>1, <2>2, <2>3, NextPage DEF n
  <2> QED
    BY <2>4 DEF i
<1> HIDE DEF K
<1>4. n \in K
  BY <1>0, <1>2, <1>3, NatSetInduction
<1>5. Shown(n, page[n], S)
  BY <1>0, <1>4 DEF K
<1> QED
  BY <1>1, <1>5 DEF n

\* Where a drawing has come to its end, what can be reached is what it flagged,
\* but for the first commit.
LEMMA FreshIs ==
  ASSUME Commits(commits), lineDrawn \subseteq 1 .. Len(commits),
         NEW tips \in SUBSET (0 .. Len(commits)),
         NEW D \in SUBSET (1 .. Len(commits)),
         tips \subseteq D \cup {1}, Null \notin tips,
         D \subseteq lineDrawn \cup ReachOf(commits, tips, lineDrawn),
         \A d \in D \ lineDrawn : Complete(d, D)
  PROVE  /\ ReachOf(commits, tips, lineDrawn) \subseteq (D \ lineDrawn) \cup {1}
         /\ D \ lineDrawn \subseteq ReachOf(commits, tips, lineDrawn)
<1> DEFINE n == Len(commits)
           T == ((D \cup {1}) \cap (1 .. n)) \ lineDrawn
<1>0. n \in Nat
  BY LenProperties DEF Commits
<1>1. T \in SUBSET (1 .. n)
  OBVIOUS
<1>2. (tips \ lineDrawn) \ {Null} \subseteq T
  BY <1>0 DEF Null
<1>3. ASSUME NEW e \in T  PROVE (ToSet(commits[e]) \ lineDrawn) \ {Null} \subseteq T
  <2>0. e \in 1 .. n
    OBVIOUS
  <2>1. ToSet(commits[e]) \subseteq 0 .. e - 1
    BY <2>0, ParentsBefore
  <2>2. CASE e = 1
    BY <2>1, <2>2 DEF Null
  <2>3. CASE e # 1
    <3>1. Complete(e, D)
      BY <2>3
    <3>2. ToSet(commits[e]) \subseteq D \cup {1}
      BY <3>1 DEF Complete
    <3>3. 1 \in 1 .. n
      BY <1>0, <2>0
    <3> QED
      BY <3>2, <3>3
  <2> QED
    BY <2>2, <2>3
<1> HIDE DEF T
<1>4. ReachOf(commits, tips, lineDrawn) \subseteq T
  BY <1>1, <1>2, <1>3, ReachLeast
<1> QED
  BY <1>4 DEF T

\* The first commit has no parent.
LEMMA FirstCommit ==
  ASSUME Commits(commits), 1 <= Len(commits)
  PROVE  commits[1] = << >> /\ ToSet(commits[1]) = {}
<1>1. 1 \in 1 .. Len(commits)
  BY LenProperties DEF Commits
<1>2. ParentsOf(1, commits[1])
  BY <1>1 DEF Commits
<1>3. commits[1] = << >>
  BY <1>2 DEF ParentsOf
<1> QED
  BY <1>1, <1>3, ParentsBefore

\* DrawsEveryLine, of any list of commits and branches.
DrawsOf(l, cs, bs) ==
  l.op = "draw" =>
    LET tips == {bs[i].commit : i \in DOMAIN bs}
        fresh == ReachOf(cs, tips, l.facts[1])
        lateRoots == {c \in fresh \ {1} : cs[c] = << >>}
        broken == {c \in fresh : cs[c] # << >> /\ cs[c][1] = Null}
    IN  /\ l.how = "returned" <=> Null \notin tips /\ lateRoots = {} /\ broken = {}
        /\ l.how = "hangs" => lateRoots # {}
        /\ IsInjective(l.facts[2])
        /\ l.how = "returned" =>
             ToSet(l.facts[2]) = UNION {{<<c, p>> : p \in ToSet(cs[c])} : c \in fresh}

\* A drawing has every line once.
LEMMA DrawRight ==
  ASSUME GitGood, lineDrawn \subseteq 1 .. Len(commits), Draw
  PROVE  DrawsOf(outcome', commits, branches) /\ lineDrawn' \subseteq 1 .. Len(commits)
<1> DEFINE n == Len(commits)
           tips == {branches[i].commit : i \in DOMAIN branches}
           fresh == ReachOf(commits, tips, lineDrawn)
           lateRoots == {c \in fresh \ {1} : commits[c] = << >>}
           broken == {c \in fresh : commits[c] # << >> /\ commits[c][1] = Null}
           r == DrawGitGraph
<1>0. Commits(commits) /\ n \in Nat /\ Len(branches) \in Nat /\ DOMAIN branches = 1 .. Len(branches)
  BY GoodFacts, LenProperties DEF GitGood, Branches
<1>1. tips \in SUBSET (0 .. n)
  <2>1. \A i \in DOMAIN branches : TipOf(branches, branches[i].name) = branches[i].commit
    BY <1>0, TipFound DEF GitGood
  <2> QED
    BY <2>1, GoodFacts
<1>2. outcome' = [op |-> "draw", how |-> r.how, facts |-> <<lineDrawn, r.lines>>]
      /\ lineDrawn' = r.drawn
  BY DEF Draw, Did
<1> HIDE DEF r, tips
<1>3. /\ fresh \subseteq 1 .. n
      /\ (tips \ lineDrawn) \ {Null} \subseteq fresh
      /\ \A d \in fresh : (ToSet(commits[d]) \ lineDrawn) \ {Null} \subseteq fresh
  BY <1>0, <1>1, ReachClosed
<1> HIDE DEF fresh
<1>4. Closed(fresh, lineDrawn)
  BY <1>3 DEF Closed
<1>5. \A i \in DOMAIN branches : branches[i].commit \in (fresh \cup lineDrawn) \cup {Null}
  BY <1>3 DEF tips
<1>6. Shown(Len(branches), r, fresh)
  BY <1>4, <1>5, DrawingRight DEF r
<1>7. r.drawn \in SUBSET (1 .. n) /\ r.how \in {"returned", "threw", "hangs"}
      /\ IsInjective(r.lines)
  BY <1>6 DEF Shown, Page
<1>8. 1 \in fresh => commits[1] = << >> /\ ToSet(commits[1]) = {}
  BY <1>0, <1>3, FirstCommit
<1>9. CASE Go(r)
  <2>1. r.how = "returned"
    BY <1>9 DEF Go
  <2>2. Null \notin tips /\ tips \subseteq r.drawn \cup {1}
    BY <1>0, <1>6, <1>9 DEF Shown, tips
  <2>3. \A d \in r.drawn \ lineDrawn : Complete(d, r.drawn)
    BY <1>6, <1>9 DEF Shown
  <2>4. fresh \subseteq (r.drawn \ lineDrawn) \cup {1} /\ r.drawn \ lineDrawn \subseteq fresh
    <3>1. r.drawn \subseteq lineDrawn \cup ReachOf(commits, tips, lineDrawn)
      BY <1>6 DEF Shown, fresh
    <3> QED
      BY <1>0, <1>1, <1>7, <2>2, <2>3, <3>1, FreshIs DEF fresh
  <2>5. lateRoots = {}
    BY <2>3, <2>4 DEF Complete
  <2>6. broken = {}
    BY <1>8, <2>3, <2>4 DEF Complete
  <2>7. ToSet(r.lines) = UNION {{<<c, p>> : p \in ToSet(commits[c])} : c \in fresh}
    <3> DEFINE A == r.drawn \ lineDrawn
    <3>1. ToSet(r.lines) = LinesOf(A)
      BY <1>6, <1>9 DEF Shown
    <3> HIDE DEF A
    <3>2. LinesOf(fresh) = LinesOf(A)
      <4>1. \A c \in fresh : c \in A \/ ToSet(commits[c]) = {}
        BY <1>8, <2>4 DEF A
      <4>2. A \subseteq fresh
        BY <2>4 DEF A
      <4> QED
        BY <4>1, <4>2 DEF LinesOf
    <3> QED
      BY <3>1, <3>2 DEF LinesOf
  <2> HIDE DEF lateRoots, broken
  <2>8. DrawsOf(outcome', commits, branches)
    BY <1>2, <1>7, <2>1, <2>2, <2>5, <2>6, <2>7 DEF DrawsOf, tips, fresh, lateRoots, broken
  <2> QED
    BY <1>2, <1>7, <2>8
<1>10. CASE ~Go(r)
  <2>1. r.how # "returned"
    BY <1>10 DEF Go
  <2>2. \/ Stuck(r.how, fresh)
        \/ r.how = "threw" /\ \E j \in DOMAIN branches : branches[j].commit = Null
    BY <1>6, <1>10 DEF Shown
  <2>3. Null \in tips \/ lateRoots # {} \/ broken # {}
    BY <2>2 DEF Stuck, tips
  <2>4. r.how = "hangs" => lateRoots # {}
    BY <2>2 DEF Stuck
  <2> HIDE DEF lateRoots, broken
  <2>5. DrawsOf(outcome', commits, branches)
    BY <1>2, <1>7, <2>1, <2>3, <2>4 DEF DrawsOf, tips, fresh, lateRoots, broken
  <2> QED
    BY <1>2, <1>7, <2>5
<1> QED
  BY <1>9, <1>10

\* The inductive invariant: the graph is as it should be, only commits there are
\* carry the flag, and both properties.
GitInv ==
  GitGood /\ lineDrawn \subseteq 1 .. Len(commits) /\ MergeLosesNothing /\ DrawsEveryLine

\* Every step keeps the invariant.
LEMMA GitInvStep == GitInv /\ [GitNext]_gitVars => GitInv'
<1> SUFFICES ASSUME GitInv, [GitNext]_gitVars  PROVE GitInv'
  OBVIOUS
<1>0. GitGood' /\ MergeLosesNothing'
  BY GitStep DEF GitInv
<1>1. DrawsEveryLine' <=> DrawsOf(outcome', commits', branches')
  BY Zenon DEF DrawsEveryLine, DrawsOf, Reach, ReachOf
<1>2. CASE Draw
  <2>1. UNCHANGED <<commits, branches>>
    BY <1>2 DEF Draw
  <2>2. DrawsOf(outcome', commits, branches) /\ lineDrawn' \subseteq 1 .. Len(commits)
    BY <1>2, DrawRight DEF GitInv
  <2> QED
    BY <1>0, <1>1, <2>1, <2>2 DEF GitInv
<1>3. CASE UNCHANGED gitVars
  <2>1. UNCHANGED <<commits, branches, lineDrawn, outcome>>
    BY <1>3 DEF gitVars
  <2>2. DrawsEveryLine <=> DrawsOf(outcome, commits, branches)
    BY Zenon DEF DrawsEveryLine, DrawsOf, Reach, ReachOf
  <2> QED
    BY <1>0, <1>1, <2>1, <2>2 DEF GitInv
<1>4. CASE \/ Commit
           \/ \E name \in Branch : CreateBranch(name) \/ Checkout(name) \/ Merge(name)
           \/ \E ref \in Branch \cup {"HEAD"}, count \in 0 .. 2 : Reset(ref, count)
  <2>1. lineDrawn' = lineDrawn /\ outcome'.op # "draw"
    <3>1. CASE Commit
      BY <3>1 DEF Commit, Nothing, Did
    <3>2. ASSUME NEW name \in Branch, CreateBranch(name) \/ Checkout(name)
          PROVE  lineDrawn' = lineDrawn /\ outcome'.op # "draw"
      BY <3>2 DEF CreateBranch, Checkout, Nothing, Did
    <3>3. ASSUME NEW name \in Branch, Merge(name)
          PROVE  lineDrawn' = lineDrawn /\ outcome'.op # "draw"
      <4>1. lineDrawn' = lineDrawn /\ \E how, facts : Did("merge", how, facts)
        BY <3>3, Zenon DEF Merge, Throws
      <4> QED
        BY <4>1 DEF Did
    <3>4. ASSUME NEW ref \in Branch \cup {"HEAD"}, NEW count \in 0 .. 2, Reset(ref, count)
          PROVE  lineDrawn' = lineDrawn /\ outcome'.op # "draw"
      <4>1. lineDrawn' = lineDrawn /\ (Nothing \/ Throws("reset"))
        BY <3>4, Zenon DEF Reset
      <4> QED
        BY <4>1 DEF Nothing, Throws, Did
    <3> QED
      BY <1>4, <3>1, <3>2, <3>3, <3>4
  <2>2. 1 .. Len(commits) \subseteq 1 .. Len(commits')
    <3>1. Len(commits) \in Nat /\ commits \in Seq(Seq(Nat))
      BY GoodFacts DEF GitInv, GitGood, Commits
    <3>2. commits' = commits \/ \E x : commits' = Append(commits, x)
      BY <1>4
         DEF Commit, CreateBranch, Checkout, Merge, Reset, Throws, AddCommit
    <3>3. Len(commits') \in Nat /\ Len(commits) <= Len(commits')
      <4>1. CASE commits' = commits
        BY <3>1, <4>1
      <4>2. ASSUME NEW x, commits' = Append(commits, x)
            PROVE  Len(commits') \in Nat /\ Len(commits) <= Len(commits')
        BY <3>1, <4>2
      <4> QED
        BY <3>2, <4>1, <4>2
    <3> QED
      BY <3>1, <3>3
  <2>3. DrawsEveryLine'
    BY <1>1, <2>1 DEF DrawsOf
  <2> QED
    BY <1>0, <2>1, <2>2, <2>3 DEF GitInv
<1> QED
  BY <1>2, <1>3, <1>4 DEF GitNext

\* The invariant holds in the beginning.
LEMMA GitInvInit == GitInit => GitInv
BY GitStart DEF GitInit, GitInv, DrawsEveryLine

\* Nothing is lost in a merge: it is a fast forward or nothing exactly if one tip
\* is in the history of the other, and the branch has both histories after it,
\* whatever statements have built the graph.
THEOREM MergesLoseNothing == GitSpec => []MergeLosesNothing
<1>1. GitInv => MergeLosesNothing
  BY DEF GitInv
<1> QED
  BY <1>1, GitInvInit, GitInvStep, PTL DEF GitSpec

\* A drawing that ends has each line once, and none is missing behind commits
\* that have not been drawn before; it hangs or throws only for a root that is
\* not the first commit, or for a null.
THEOREM DrawingsAreComplete == GitSpec => []DrawsEveryLine
<1>1. GitInv => DrawsEveryLine
  BY DEF GitInv
<1> QED
  BY <1>1, GitInvInit, GitInvStep, PTL DEF GitSpec

-----------------------------------------------------------------------------
\* The walk along what the tasks of a gantt diagram wait for.

\* The walk of Walk, for any n tasks each of which waits for wait[i], as a path
\* of any length.
Onward(wait, w) ==
  IF w.at = 0 THEN w
  ELSE [at |-> wait[w.at], needs |-> IF wait[w.at] > w.at THEN w.needs + 1 ELSE w.needs]

Path(wait, f, i, m) ==
  /\ f[0] = [at |-> i, needs |-> 1]
  /\ \A k \in 1 .. m : f[k] = Onward(wait, f[k - 1])

WalkOf(wait, n, i) ==
  LET walk[k \in 0 .. n] ==
        IF k = 0 THEN [at |-> i, needs |-> 1] ELSE Onward(wait, walk[k - 1])
  IN  walk[n]

\* There are paths of any length; WalkOf is the end of one.
LEMMA PathIs ==
  ASSUME NEW wait, NEW n \in Nat, NEW i
  PROVE  \E f : Path(wait, f, i, n) /\ WalkOf(wait, n, i) = f[n]
<1> DEFINE start == [at |-> i, needs |-> 1]
           F(k, g) == IF k = 0 THEN start ELSE Onward(wait, g[k - 1])
           Is(m, g) == g = [k \in 0 .. m |-> F(k, g)]
           walk == CHOOSE g : Is(n, g)
<1>1. WalkOf(wait, n, i) = walk[n]
  BY Zenon DEF WalkOf
<1> HIDE DEF start
<1>2. ASSUME NEW k \in Nat, NEW g, NEW h, k = 0 \/ g[k - 1] = h[k - 1]
      PROVE  F(k, g) = F(k, h)
  BY <1>2
<1>3. ASSUME NEW g  PROVE F(0, g) = start
  OBVIOUS
<1> HIDE DEF F
<1>4. \E g : Is(n, g)
  <2> DEFINE S == {m \in Nat : \E g : Is(m, g)}
  <2>1. 0 \in S
    <3> DEFINE h == [k \in 0 .. 0 |-> start]
    <3>1. Is(0, h)
      BY <1>3
    <3> HIDE DEF h
    <3> QED
      BY <3>1
  <2>2. ASSUME NEW m \in Nat, m \in S  PROVE m + 1 \in S
    <3>1. PICK g : Is(m, g)
      BY <2>2
    <3>2. \A k \in 0 .. m : g[k] = F(k, g)
      BY <3>1, Zenon
    <3> DEFINE h == [k \in 0 .. m + 1 |-> IF k = m + 1 THEN F(k, g) ELSE g[k]]
    <3>3. ASSUME NEW k \in 0 .. m + 1  PROVE h[k] = F(k, h)
      <4>1. k = 0 \/ g[k - 1] = h[k - 1]
        OBVIOUS
      <4>2. F(k, g) = F(k, h)
        BY <1>2, <4>1
      <4>3. h[k] = F(k, g)
        BY <3>2
      <4> QED
        BY <4>2, <4>3
    <3>4. Is(m + 1, h)
      BY <3>3
    <3> HIDE DEF h, Is
    <3> QED
      BY <3>4
  <2> HIDE DEF S
  <2>3. n \in S
    BY <2>1, <2>2, NatSetInduction
  <2> QED
    BY <2>3 DEF S
<1>5. Is(n, walk)
  BY <1>4, Zenon
<1> HIDE DEF walk
<1>6. \A k \in 0 .. n : walk[k] = F(k, walk)
  BY <1>5, Zenon
<1>7. walk[0] = start
  BY <1>3, <1>6
<1>8. \A k \in 1 .. n : walk[k] = Onward(wait, walk[k - 1])
  BY <1>6 DEF F
<1>9. Path(wait, walk, i, n)
  BY <1>7, <1>8 DEF Path, start
<1> QED
  BY <1>1, <1>9

\* Two paths from one task agree as far as both go.
LEMMA PathSame ==
  ASSUME NEW wait, NEW i, NEW m \in Nat, NEW f, Path(wait, f, i, m),
         NEW l \in Nat, NEW g, Path(wait, g, i, l), NEW k \in Nat, k <= m, k <= l
  PROVE  f[k] = g[k]
<1> DEFINE S == {j \in Nat : j <= k => f[j] = g[j]}
<1>1. 0 \in S
  BY DEF Path
<1>2. ASSUME NEW j \in Nat, j \in S  PROVE j + 1 \in S
  <2> SUFFICES ASSUME j + 1 <= k  PROVE f[j + 1] = g[j + 1]
    OBVIOUS
  <2>1. f[j] = g[j]
    BY <1>2
  <2>2. j + 1 \in 1 .. m /\ j + 1 \in 1 .. l /\ (j + 1) - 1 = j
    OBVIOUS
  <2>3. f[j + 1] = Onward(wait, f[j]) /\ g[j + 1] = Onward(wait, g[j])
    BY <2>2 DEF Path
  <2> QED
    BY <2>1, <2>3
<1> HIDE DEF S
<1>3. k \in S
  BY <1>1, <1>2, NatSetInduction
<1> QED
  BY <1>3 DEF S

Waits(wait, n) == n \in Nat /\ wait \in [1 .. n -> 0 .. n]

\* A path only comes to tasks, or to none.
LEMMA PathRange ==
  ASSUME NEW n, NEW wait, Waits(wait, n), NEW i \in 0 .. n, NEW m \in Nat, NEW f,
         Path(wait, f, i, m), NEW k \in 0 .. m
  PROVE  f[k] \in [at : 0 .. n, needs : Nat \ {0}]
<1> DEFINE R == [at : 0 .. n, needs : Nat \ {0}]
           S == {j \in Nat : j <= m => f[j] \in R}
<1>1. 0 \in S
  BY DEF Path
<1>2. ASSUME NEW j \in Nat, j \in S  PROVE j + 1 \in S
  <2> SUFFICES ASSUME j + 1 <= m  PROVE f[j + 1] \in R
    OBVIOUS
  <2>1. f[j] \in R
    BY <1>2
  <2>2. j + 1 \in 1 .. m /\ (j + 1) - 1 = j
    OBVIOUS
  <2>3. f[j + 1] = Onward(wait, f[j])
    BY <2>2 DEF Path
  <2>4. ASSUME NEW w \in R  PROVE Onward(wait, w) \in R
    BY <2>4 DEF Onward, Waits
  <2> QED
    BY <2>1, <2>3, <2>4
<1> HIDE DEF S
<1>3. k \in S
  BY <1>1, <1>2, NatSetInduction
<1> QED
  BY <1>3 DEF S

\* A path that has come to 0 stays there.
LEMMA PathStays ==
  ASSUME NEW wait, NEW i, NEW m \in Nat, NEW f, Path(wait, f, i, m),
         NEW j \in 0 .. m, f[j].at = 0, NEW k \in j .. m
  PROVE  f[k] = f[j]
<1> DEFINE S == {l \in Nat : j + l <= m => f[j + l] = f[j]}
<1>1. 0 \in S
  OBVIOUS
<1>2. ASSUME NEW l \in Nat, l \in S  PROVE l + 1 \in S
  <2> SUFFICES ASSUME j + (l + 1) <= m  PROVE f[j + (l + 1)] = f[j]
    OBVIOUS
  <2>1. f[j + l] = f[j]
    BY <1>2
  <2>2. j + (l + 1) \in 1 .. m /\ (j + (l + 1)) - 1 = j + l
    OBVIOUS
  <2>3. f[j + (l + 1)] = Onward(wait, f[j + l])
    BY <2>2 DEF Path
  <2> QED
    BY <2>1, <2>3 DEF Onward
<1> HIDE DEF S
<1>3. k - j \in S
  BY <1>1, <1>2, NatSetInduction
<1> QED
  BY <1>3 DEF S

\* A path of the n tasks that comes to 0 is there after n steps: if it had not, it
\* would have been at some task twice, and would come there again and again.
LEMMA PathEnds ==
  ASSUME NEW n, NEW wait, Waits(wait, n), NEW i \in 1 .. n, NEW f,
         Path(wait, f, i, n + 1), f[n + 1].at = 0
  PROVE  f[n].at = 0
<1> SUFFICES ASSUME f[n].at # 0  PROVE FALSE
  OBVIOUS
<1>0. n \in Nat /\ n + 1 \in Nat /\ n \in 0 .. n + 1
  BY DEF Waits
<1>1. \A k \in 0 .. n + 1 : f[k].at \in 0 .. n
  <2> SUFFICES ASSUME NEW k \in 0 .. n + 1  PROVE f[k].at \in 0 .. n
    OBVIOUS
  <2>1. f[k] \in [at : 0 .. n, needs : Nat \ {0}]
    BY <1>0, PathRange
  <2> QED
    BY <2>1
<1>2. \A k \in 0 .. n : f[k].at # 0
  <2> SUFFICES ASSUME NEW k \in 0 .. n, f[k].at = 0  PROVE FALSE
    OBVIOUS
  <2>1. k \in 0 .. n + 1 /\ n \in k .. n + 1
    BY <1>0
  <2>2. f[n] = f[k]
    BY <1>0, <2>1, PathStays
  <2> QED
    BY <2>2
<1>3. PICK x \in 0 .. n, y \in 0 .. n : x < y /\ f[x].at = f[y].at
  <2> DEFINE S == 0 .. n
             T == 1 .. n
             g == [k \in S |-> f[k].at]
  <2>1. IsFiniteSet(S) /\ Cardinality(S) = n + 1 /\ IsFiniteSet(T) /\ Cardinality(T) = n
    <3>1. \A a, b \in Int : /\ IsFiniteSet(a .. b)
                            /\ Cardinality(a .. b) = IF a > b THEN 0 ELSE b - a + 1
      BY FS_Interval, Zenon
    <3>2. 0 \in Int /\ 1 \in Int /\ n \in Int /\ n >= 0
      BY <1>0
    <3>3. IsFiniteSet(S) /\ Cardinality(S) = IF 0 > n THEN 0 ELSE n - 0 + 1
      BY <3>1, <3>2, Zenon
    <3>4. IsFiniteSet(T) /\ Cardinality(T) = IF 1 > n THEN 0 ELSE n - 1 + 1
      BY <3>1, <3>2, Zenon
    <3> HIDE DEF S, T
    <3> QED
      BY <3>2, <3>3, <3>4
  <2>2. g \in [S -> T]
    BY <1>0, <1>1, <1>2
  <2> HIDE DEF g, S, T
  <2>3. \E x, y \in S : x # y /\ g[x] = g[y]
    BY <1>0, <2>1, <2>2, FS_PigeonHole
  <2>4. PICK x \in S, y \in S : x # y /\ g[x] = g[y]
    BY <2>3
  <2>5. x \in 0 .. n /\ y \in 0 .. n /\ f[x].at = f[y].at
    BY <2>4 DEF S, g
  <2> QED
    BY <1>0, <2>4, <2>5
<1> DEFINE P == {l \in Nat : y + l <= n + 1 => f[x + l].at = f[y + l].at}
<1>4. 0 \in P
  BY <1>0, <1>3
<1>5. ASSUME NEW l \in Nat, l \in P  PROVE l + 1 \in P
  <2> SUFFICES ASSUME y + (l + 1) <= n + 1  PROVE f[x + (l + 1)].at = f[y + (l + 1)].at
    OBVIOUS
  <2>1. f[x + l].at = f[y + l].at
    BY <1>0, <1>3, <1>5
  <2>2. /\ y + (l + 1) \in 1 .. n + 1 /\ (y + (l + 1)) - 1 = y + l
        /\ x + (l + 1) \in 1 .. n + 1 /\ (x + (l + 1)) - 1 = x + l
        /\ x + l \in 0 .. n /\ y + l \in 0 .. n
    BY <1>0, <1>3
  <2>3. /\ f[y + (l + 1)] = Onward(wait, f[y + l])
        /\ f[x + (l + 1)] = Onward(wait, f[x + l])
    BY <2>2 DEF Path
  <2>4. f[x + l].at # 0 /\ f[y + l].at # 0
    BY <1>2, <2>2
  <2>5. f[y + (l + 1)].at = wait[f[y + l].at] /\ f[x + (l + 1)].at = wait[f[x + l].at]
    BY <2>3, <2>4 DEF Onward
  <2> QED
    BY <2>1, <2>5
<1> HIDE DEF P
<1> DEFINE l == (n + 1) - y
<1>6. l \in Nat /\ y + l = n + 1 /\ x + l \in 0 .. n
  BY <1>0, <1>3
<1>7. l \in P
  BY <1>4, <1>5, <1>6, NatSetInduction
<1> HIDE DEF l
<1>8. f[x + l].at = f[n + 1].at
  <2>1. y + l <= n + 1 => f[x + l].at = f[y + l].at
    BY <1>7 DEF P
  <2> QED
    BY <1>0, <1>6, <2>1
<1> QED
  BY <1>2, <1>6, <1>8

\* The path from a task is that from the one it waits for, one step later, and
\* with a pass more if that comes later.
LEMMA PathShift ==
  ASSUME NEW n, NEW wait, Waits(wait, n), NEW i \in 1 .. n, NEW m \in Nat,
         NEW f, Path(wait, f, i, m + 1), NEW g, Path(wait, g, wait[i], m),
         NEW k \in 0 .. m
  PROVE  /\ f[k + 1].at = g[k].at
         /\ f[k + 1].needs = IF wait[i] > i THEN g[k].needs + 1 ELSE g[k].needs
<1> DEFINE a == wait[i]
           Same(j) == /\ f[j + 1].at = g[j].at
                      /\ f[j + 1].needs = IF a > i THEN g[j].needs + 1 ELSE g[j].needs
           S == {j \in Nat : j <= m => Same(j)}
<1>0. n \in Nat /\ a \in 0 .. n /\ i # 0 /\ i \in 0 .. n
  BY DEF Waits
<1>1. \A j \in 0 .. m : g[j].at \in 0 .. n /\ g[j].needs \in Nat
  <2> SUFFICES ASSUME NEW j \in 0 .. m  PROVE g[j].at \in 0 .. n /\ g[j].needs \in Nat
    OBVIOUS
  <2>1. g[j] \in [at : 0 .. n, needs : Nat \ {0}]
    BY <1>0, PathRange
  <2> QED
    BY <2>1
<1>2. Same(0)
  <2>1. f[0] = [at |-> i, needs |-> 1] /\ g[0] = [at |-> a, needs |-> 1]
    BY DEF Path
  <2>2. 1 \in 1 .. m + 1 /\ 1 - 1 = 0
    OBVIOUS
  <2>3. f[1] = Onward(wait, f[0])
    BY <2>2 DEF Path
  <2> HIDE DEF a
  <2>4. f[1] = [at |-> a, needs |-> IF a > i THEN 1 + 1 ELSE 1]
    BY <1>0, <2>1, <2>3 DEF Onward, a
  <2> QED
    BY <2>1, <2>4
<1>3. ASSUME NEW j \in Nat, j \in S  PROVE j + 1 \in S
  <2> SUFFICES ASSUME j + 1 <= m  PROVE Same(j + 1)
    OBVIOUS
  <2>1. Same(j)
    BY <1>3
  <2>2. /\ j + 1 \in 1 .. m /\ (j + 1) - 1 = j
        /\ (j + 1) + 1 \in 1 .. m + 1 /\ ((j + 1) + 1) - 1 = j + 1
    OBVIOUS
  <2>3. g[j + 1] = Onward(wait, g[j]) /\ f[(j + 1) + 1] = Onward(wait, f[j + 1])
    BY <2>2 DEF Path
  <2>4. g[j].at \in 0 .. n /\ g[j].needs \in Nat
    BY <1>1
  <2> HIDE DEF a
  <2>5. CASE g[j].at = 0
    BY <2>1, <2>3, <2>5 DEF Onward
  <2>6. CASE g[j].at # 0
    <3> DEFINE b == wait[g[j].at]
               d == IF b > g[j].at THEN 1 ELSE 0
    <3>1. g[j + 1].at = b /\ f[(j + 1) + 1].at = b
      BY <2>1, <2>3, <2>6 DEF Onward
    <3>2. g[j + 1].needs = g[j].needs + d /\ f[(j + 1) + 1].needs = f[j + 1].needs + d
      <4>1. f[j + 1].needs \in Nat
        BY <2>1, <2>4
      <4> QED
        BY <2>1, <2>3, <2>4, <2>6, <4>1 DEF Onward
    <3>3. d \in Nat
      OBVIOUS
    <3> HIDE DEF b, d
    <3> QED
      BY <2>1, <2>4, <3>1, <3>2, <3>3
  <2> QED
    BY <2>5, <2>6
<1>4. 0 \in S
  BY <1>2
<1> HIDE DEF S
<1>5. k \in S
  BY <1>3, <1>4, NatSetInduction
<1>6. Same(k)
  BY <1>5 DEF S
<1> QED
  BY <1>6

\* Whether a walk comes to an end, and what it takes, as a recursion over what is
\* waited for.
LEMMA WalkStep ==
  ASSUME NEW n, NEW wait, Waits(wait, n), NEW i \in 1 .. n
  PROVE  /\ WalkOf(wait, n, i).needs \in Nat \ {0}
         /\ wait[i] = 0 => WalkOf(wait, n, i).at = 0 /\ WalkOf(wait, n, i).needs = 1
         /\ wait[i] = i => WalkOf(wait, n, i).at # 0
         /\ wait[i] # 0 => (WalkOf(wait, n, i).at = 0 <=> WalkOf(wait, n, wait[i]).at = 0)
         /\ wait[i] # 0 /\ WalkOf(wait, n, i).at = 0 =>
              WalkOf(wait, n, i).needs =
                IF wait[i] > i THEN WalkOf(wait, n, wait[i]).needs + 1
                ELSE WalkOf(wait, n, wait[i]).needs
<1> DEFINE a == wait[i]
<1>0. n \in Nat /\ n + 1 \in Nat /\ a \in 0 .. n /\ i \in 0 .. n /\ n \in 0 .. n + 1 /\ 1 \in 0 .. n
  BY DEF Waits
<1>1. PICK f : Path(wait, f, i, n) /\ WalkOf(wait, n, i) = f[n]
  BY <1>0, PathIs
<1>2. PICK h : Path(wait, h, i, n + 1)
  BY <1>0, PathIs
<1>3. PICK g : Path(wait, g, a, n) /\ WalkOf(wait, n, a) = g[n]
  BY <1>0, PathIs
<1>4. f[n] = h[n]
  BY <1>0, <1>1, <1>2, PathSame
<1>5. h[n] \in [at : 0 .. n, needs : Nat \ {0}] /\ g[n] \in [at : 0 .. n, needs : Nat \ {0}]
  BY <1>0, <1>2, <1>3, PathRange
<1>6. /\ h[n + 1].at = g[n].at
      /\ h[n + 1].needs = IF a > i THEN g[n].needs + 1 ELSE g[n].needs
  BY <1>0, <1>2, <1>3, PathShift
<1> HIDE DEF a
<1>7. h[n].at = 0 <=> g[n].at = 0
  <2>1. CASE h[n].at = 0
    <3>1. n + 1 \in n .. n + 1
      BY <1>0
    <3>2. h[n + 1] = h[n]
      BY <1>0, <1>2, <2>1, <3>1, PathStays
    <3> QED
      BY <1>6, <2>1, <3>2
  <2>2. CASE g[n].at = 0
    <3>1. h[n].at = 0
      BY <1>2, <1>6, <2>2, PathEnds
    <3> QED
      BY <2>2, <3>1
  <2> QED
    BY <2>1, <2>2
<1>8. h[n].at = 0 => h[n].needs = IF a > i THEN g[n].needs + 1 ELSE g[n].needs
  <2> SUFFICES ASSUME h[n].at = 0
               PROVE  h[n].needs = IF a > i THEN g[n].needs + 1 ELSE g[n].needs
    OBVIOUS
  <2>1. n + 1 \in n .. n + 1
    BY <1>0
  <2>2. h[n + 1] = h[n]
    BY <1>0, <1>2, <2>1, PathStays
  <2> QED
    BY <1>6, <2>2
<1>9. a = 0 => h[n].at = 0 /\ h[n].needs = 1
  <2> SUFFICES ASSUME a = 0  PROVE h[n].at = 0 /\ h[n].needs = 1
    OBVIOUS
  <2>1. g[0] = [at |-> 0, needs |-> 1]
    BY <1>3 DEF Path
  <2>2. g[n] = g[0]
    <3>1. 0 \in 0 .. n /\ n \in 0 .. n /\ g[0].at = 0
      BY <1>0, <2>1
    <3> QED
      BY <1>0, <1>3, <3>1, PathStays
  <2>3. ~(a > i)
    BY <1>0
  <2> QED
    BY <1>7, <1>8, <2>1, <2>2, <2>3
<1>10. a = i => h[n].at # 0
  <2> SUFFICES ASSUME a = i  PROVE h[n].at = i
    BY <1>0
  <2> DEFINE S == {k \in Nat : k <= n => h[k].at = i}
  <2>1. 0 \in S
    BY <1>2 DEF Path
  <2>2. ASSUME NEW k \in Nat, k \in S  PROVE k + 1 \in S
    <3> SUFFICES ASSUME k + 1 <= n  PROVE h[k + 1].at = i
      OBVIOUS
    <3>1. h[k].at = i
      BY <1>0, <2>2
    <3>2. k + 1 \in 1 .. n + 1 /\ (k + 1) - 1 = k
      BY <1>0
    <3>3. h[k + 1] = Onward(wait, h[k])
      BY <1>2, <3>2 DEF Path
    <3> QED
      BY <1>0, <3>1, <3>3 DEF Onward, a
  <2> HIDE DEF S
  <2>3. n \in S
    BY <1>0, <2>1, <2>2, NatSetInduction
  <2> QED
    BY <1>0, <2>3 DEF S
<1> QED
  BY <1>1, <1>3, <1>4, <1>5, <1>7, <1>8, <1>9, <1>10 DEF a

-----------------------------------------------------------------------------
\* What a task waits for.

\* Ids that are written, those that are made, and that of a task without one;
\* where a task starts; a task.
Ids == Id \cup ToSet(AutoId) \cup {NoId}
Start == Written \cup {[type |-> "prevTaskEnd"], [type |-> "none"]}
Task == [id : Ids, raw : Start, end : End, startTime : Nat, endTime : Nat,
         processed : BOOLEAN]

\* What a task is told to start after, if anything, is an id.
LEMMA StartIs ==
  ASSUME NEW r \in Start
  PROVE  /\ r.type \in {"date", "prevTaskEnd", "after", "none"}
         /\ r.type = "after" => r.id \in Ids
BY DEF Start, Written, Ids

\* Every end is a time.
LEMMA EndIs ==
  ASSUME NEW t, NEW start \in Nat
  PROVE  EndTime(t, start) \in Nat \ {0}
BY DEF EndTime, Day, Length

\* The tasks and taskDb fit together: the id of a task leads to the last one that
\* carries it.  In the first diagram no other id leads anywhere.
TasksGood ==
  /\ rawTasks \in Seq(Task)
  /\ taskDb \in [Ids -> Nat]
  /\ drawn \in Nat
  /\ \A i \in 1 .. Len(rawTasks) :
       /\ taskDb[rawTasks[i].id] \in i .. Len(rawTasks)
       /\ rawTasks[taskDb[rawTasks[i].id]].id = rawTasks[i].id
  /\ drawn = 0 => \A id \in Ids : taskDb[id] # 0 =>
       taskDb[id] \in 1 .. Len(rawTasks) /\ rawTasks[taskDb[id]].id = id

\* getTasks() does not throw.
NoneThrows == \A i \in 1 .. Len(rawTasks) : ~CompileThrows(i)

\* The task that compileTask() finds for the i-th.
WaitOf(ts, i) ==
  IF ts[i].raw.type = "after" THEN Position(ts[i].raw.id, ts)
  ELSE IF ts[i].raw.type = "prevTaskEnd" THEN Position(PrevTaskId(i, ts), ts)
  ELSE 0

Wait == [i \in 1 .. Len(rawTasks) |-> WaitOf(rawTasks, i)]

\* What the tasks in a list have.
LEMMA TaskIs ==
  ASSUME NEW ts \in Seq(Task), NEW i \in 1 .. Len(ts)
  PROVE  /\ ts[i] \in Task /\ ts[i].id \in Ids /\ ts[i].raw \in Start
         /\ ts[i].startTime \in Nat /\ ts[i].endTime \in Nat /\ ts[i].processed \in BOOLEAN
         /\ ts[i].raw.type \in {"date", "prevTaskEnd", "after", "none"}
         /\ ts[i].raw.type = "after" => ts[i].raw.id \in Ids
<1>1. ts[i] \in Task
  BY ElementOfSeq
<1>2. /\ ts[i].id \in Ids /\ ts[i].raw \in Start
      /\ ts[i].startTime \in Nat /\ ts[i].endTime \in Nat /\ ts[i].processed \in BOOLEAN
  BY <1>1 DEF Task
<1> QED
  BY <1>1, <1>2, StartIs

\* The id of the task before.
LEMMA PrevIdIs ==
  ASSUME TasksGood, NEW i \in 1 .. Len(rawTasks)
  PROVE  PrevTaskId(i, rawTasks) \in Ids
<1>1. rawTasks \in Seq(Task) /\ Len(rawTasks) \in Nat
  BY LenProperties DEF TasksGood
<1>2. CASE i = 1
  BY <1>2 DEF PrevTaskId, Ids
<1>3. CASE i # 1
  <2>1. i - 1 \in 1 .. Len(rawTasks)
    BY <1>1, <1>3
  <2>2. rawTasks[i - 1].id \in Ids
    BY <1>1, <2>1, TaskIs
  <2> QED
    BY <1>3, <2>2 DEF PrevTaskId
<1> QED
  BY <1>2, <1>3

\* It is the one the text of the diagram means.
LEMMA AwaitedId ==
  ASSUME TasksGood, NEW id \in Ids
  PROVE  LET carriers == Carriers(id)
             stale == {taskDb[id]} \cap Positions
         IN  /\ Position(id, rawTasks) \in 0 .. Len(rawTasks)
             /\ (IF carriers # {} THEN CHOOSE c \in carriers : \A d \in carriers : d <= c
                 ELSE IF drawn > 0 /\ stale # {} THEN CHOOSE c \in stale : TRUE ELSE 0)
                  = Position(id, rawTasks)
<1> DEFINE carriers == Carriers(id)
           stale == {taskDb[id]} \cap Positions
           n == Len(rawTasks)
           p == taskDb[id]
<1>0. n \in Nat /\ Positions = 1 .. n /\ p \in Nat /\ drawn \in Nat
  BY LenProperties DEF TasksGood, Positions
<1>1. Position(id, rawTasks) = IF p <= n THEN p ELSE 0
  BY DEF Position
<1>2. \A i : i \in carriers <=> i \in 1 .. n /\ rawTasks[i].id = id
  BY <1>0 DEF Carriers
<1>3. \A i \in carriers : p \in i .. n /\ p \in carriers
  <2> SUFFICES ASSUME NEW i \in carriers  PROVE p \in i .. n /\ p \in carriers
    OBVIOUS
  <2>1. i \in 1 .. n /\ rawTasks[i].id = id
    BY <1>2
  <2>2. p \in i .. n /\ rawTasks[p].id = id
    BY <2>1 DEF TasksGood
  <2>3. p \in 1 .. n
    BY <1>0, <2>1, <2>2
  <2> QED
    BY <1>2, <2>2, <2>3
<1>4. CASE carriers # {}
  <2>1. p \in carriers /\ p \in 1 .. n /\ \A d \in carriers : d <= p
    BY <1>0, <1>2, <1>3, <1>4
  <2> DEFINE m == CHOOSE c \in carriers : \A d \in carriers : d <= c
  <2>2. m \in carriers /\ \A d \in carriers : d <= m
    BY <2>1, Zenon
  <2>3. m \in 1 .. n /\ m <= p /\ p <= m
    BY <1>2, <2>1, <2>2
  <2>4. m = p
    BY <1>0, <2>3
  <2> HIDE DEF m
  <2>5. (IF carriers # {} THEN CHOOSE c \in carriers : \A d \in carriers : d <= c
         ELSE IF drawn > 0 /\ stale # {} THEN CHOOSE c \in stale : TRUE ELSE 0) = m
    BY <1>4, Zenon DEF m
  <2> HIDE DEF carriers, stale, p, n
  <2>6. Position(id, rawTasks) = p /\ p \in 0 .. n
    BY <1>0, <1>1, <2>1
  <2> QED
    BY <2>4, <2>5, <2>6 DEF carriers, stale, n
<1>5. CASE carriers = {}
  <2>1. ~(p \in 1 .. n /\ rawTasks[p].id = id)
    BY <1>2, <1>5
  <2>2. drawn = 0 => p = 0
    BY <2>1 DEF TasksGood
  <2> DEFINE c == IF drawn > 0 /\ stale # {} THEN CHOOSE c \in stale : TRUE ELSE 0
  <2>3. c = Position(id, rawTasks)
    <3>1. CASE drawn > 0 /\ stale # {}
      <4>1. c \in stale
        BY <3>1
      <4>2. c = p /\ p \in 1 .. n
        BY <1>0, <4>1
      <4> HIDE DEF c
      <4> QED
        BY <1>1, <4>2
    <3>2. CASE ~(drawn > 0 /\ stale # {})
      <4>1. c = 0
        BY <3>2
      <4>2. drawn = 0 \/ p \notin 1 .. n
        BY <1>0, <3>2
      <4>3. p = 0 \/ p > n
        BY <1>0, <2>2, <4>2
      <4> HIDE DEF c
      <4> QED
        BY <1>0, <1>1, <4>1, <4>3
    <3> QED
      BY <3>1, <3>2
  <2>4. (IF carriers # {} THEN CHOOSE d \in carriers : \A e \in carriers : e <= d
         ELSE IF drawn > 0 /\ stale # {} THEN CHOOSE d \in stale : TRUE ELSE 0) = c
    BY <1>5, Zenon
  <2> HIDE DEF c
  <2>5. Position(id, rawTasks) \in 0 .. n
    BY <1>0, <1>1
  <2> QED
    BY <1>5, <2>3, <2>4, <2>5
<1> QED
  BY <1>4, <1>5

\* What the text means for the i-th task is what compileTask() finds.
LEMMA AwaitedIs ==
  ASSUME TasksGood, NoneThrows, NEW i \in 1 .. Len(rawTasks)
  PROVE  /\ WaitOf(rawTasks, i) \in 0 .. Len(rawTasks)
         /\ Awaited(i) = WaitOf(rawTasks, i)
         /\ rawTasks[i].raw.type = "prevTaskEnd" => WaitOf(rawTasks, i) # 0
<1>0. rawTasks \in Seq(Task) /\ Len(rawTasks) \in Nat
  BY LenProperties DEF TasksGood
<1>1. /\ rawTasks[i].raw.type \in {"date", "prevTaskEnd", "after"}
      /\ rawTasks[i].raw.type = "after" => rawTasks[i].raw.id \in Ids
  BY <1>0, TaskIs DEF NoneThrows, CompileThrows
<1>2. CASE rawTasks[i].raw.type = "after"
  <2> DEFINE id == rawTasks[i].raw.id
  <2>1. WaitOf(rawTasks, i) = Position(id, rawTasks)
    BY <1>2 DEF WaitOf
  <2>2. UNION {Carriers(x) : x \in {id}} = Carriers(id) /\ {taskDb[x] : x \in {id}} = {taskDb[id]}
    OBVIOUS
  <2>3. Awaited(i) =
          IF Carriers(id) # {} THEN CHOOSE c \in Carriers(id) : \A d \in Carriers(id) : d <= c
          ELSE IF drawn > 0 /\ ({taskDb[id]} \cap Positions) # {}
                 THEN CHOOSE c \in {taskDb[id]} \cap Positions : TRUE ELSE 0
    BY <1>2, <2>2 DEF Awaited
  <2>4. id \in Ids
    BY <1>1, <1>2
  <2> HIDE DEF id
  <2> QED
    BY <1>2, <2>1, <2>3, <2>4, AwaitedId
<1>3. CASE rawTasks[i].raw.type = "prevTaskEnd"
  <2> DEFINE id == PrevTaskId(i, rawTasks)
  <2>1. WaitOf(rawTasks, i) = Position(id, rawTasks)
    BY <1>3 DEF WaitOf
  <2>2. UNION {Carriers(x) : x \in {id}} = Carriers(id) /\ {taskDb[x] : x \in {id}} = {taskDb[id]}
    OBVIOUS
  <2>3. Awaited(i) =
          IF Carriers(id) # {} THEN CHOOSE c \in Carriers(id) : \A d \in Carriers(id) : d <= c
          ELSE IF drawn > 0 /\ ({taskDb[id]} \cap Positions) # {}
                 THEN CHOOSE c \in {taskDb[id]} \cap Positions : TRUE ELSE 0
    BY <1>3, <2>2 DEF Awaited
  <2>4. id \in Ids
    BY PrevIdIs
  <2>5. Position(id, rawTasks) # 0
    BY <1>3 DEF NoneThrows, CompileThrows
  <2> HIDE DEF id
  <2> QED
    BY <2>1, <2>3, <2>4, <2>5, AwaitedId
<1>4. CASE rawTasks[i].raw.type = "date"
  <2>1. WaitOf(rawTasks, i) = 0
    BY <1>4 DEF WaitOf
  <2>2. UNION {Carriers(x) : x \in {}} = {} /\ ({taskDb[x] : x \in {}} \cap Positions) = {}
    OBVIOUS
  <2>3. Awaited(i) = 0
    BY <1>4, <2>2 DEF Awaited
  <2> QED
    BY <1>0, <1>4, <2>1, <2>3
<1> QED
  BY <1>1, <1>2, <1>3, <1>4

-----------------------------------------------------------------------------
\* A pass over the tasks.

\* Wait is a function on the tasks.
LEMMA WaitIs ==
  ASSUME TasksGood, NoneThrows
  PROVE  /\ Waits(Wait, Len(rawTasks))
         /\ \A i \in 1 .. Len(rawTasks) : Wait[i] = WaitOf(rawTasks, i)
<1>1. Len(rawTasks) \in Nat
  BY LenProperties DEF TasksGood
<1>2. \A i \in 1 .. Len(rawTasks) : WaitOf(rawTasks, i) \in 0 .. Len(rawTasks)
  BY AwaitedIs
<1> QED
  BY <1>1, <1>2 DEF Wait, Waits

\* The i-th task is one that gets its times in the p-th pass, or before.
Timely(i, p) ==
  WalkOf(Wait, Len(rawTasks), i).at = 0 /\ WalkOf(Wait, Len(rawTasks), i).needs <= p

\* A task is timely by when the one it waits for is.
LEMMA TimelyStep ==
  ASSUME TasksGood, NoneThrows, NEW i \in 1 .. Len(rawTasks), NEW p \in Nat
  PROVE  /\ ~Timely(i, 0)
         /\ Timely(i, p) => Timely(i, p + 1)
         /\ Wait[i] = 0 => Timely(i, p + 1)
         /\ Wait[i] = i => ~Timely(i, p)
         /\ Wait[i] \in 1 .. i - 1 => (Timely(i, p) <=> Timely(Wait[i], p))
         /\ Wait[i] > i => (Timely(i, p + 1) <=> Timely(Wait[i], p))
<1> DEFINE n == Len(rawTasks)
           W(j) == WalkOf(Wait, n, j)
           a == Wait[i]
<1>0. Waits(Wait, n) /\ n \in Nat /\ a \in 0 .. n
  BY WaitIs DEF Waits
<1>1. /\ W(i).needs \in Nat \ {0}
      /\ a = 0 => W(i).at = 0 /\ W(i).needs = 1
      /\ a = i => W(i).at # 0
      /\ a # 0 => (W(i).at = 0 <=> W(a).at = 0)
      /\ a # 0 /\ W(i).at = 0 => W(i).needs = IF a > i THEN W(a).needs + 1 ELSE W(a).needs
  BY <1>0, WalkStep
<1>2. a # 0 => W(a).needs \in Nat
  BY <1>0, WalkStep
<1>3. \A j, q : Timely(j, q) <=> W(j).at = 0 /\ W(j).needs <= q
  BY DEF Timely
<1> HIDE DEF n, W, a
<1>4. i \in Nat
  BY <1>0 DEF n
<1>5. /\ ~Timely(i, 0)
      /\ Timely(i, p) => Timely(i, p + 1)
      /\ a = 0 => Timely(i, p + 1)
      /\ a = i => ~Timely(i, p)
  BY <1>1, <1>3
<1>6. a \in 1 .. i - 1 => (Timely(i, p) <=> Timely(a, p))
  BY <1>0, <1>1, <1>2, <1>3, <1>4
<1>7. ASSUME a > i  PROVE Timely(i, p + 1) <=> Timely(a, p)
  <2>1. a # 0
    BY <1>0, <1>4, <1>7
  <2>2. (W(i).at = 0 <=> W(a).at = 0) /\ W(a).needs \in Nat
    BY <1>1, <1>2, <2>1
  <2>3. W(i).at = 0 => W(i).needs = W(a).needs + 1
    BY <1>1, <1>7, <2>1
  <2>4. W(i).at = 0 => (W(i).needs <= p + 1 <=> W(a).needs <= p)
    BY <2>2, <2>3
  <2> QED
    BY <1>3, <2>2, <2>4
<1> QED
  BY <1>5, <1>6, <1>7 DEF a

\* The start of a task by what it waits for.
StartOf(us, i) ==
  IF us[i].raw.type = "date" THEN Day
  ELSE IF Wait[i] = 0 THEN Today ELSE us[Wait[i]].endTime

\* A task that has times has the right ones.
TimesRight(us, i) ==
  IF us[i].processed
  THEN /\ us[i].startTime = StartOf(us, i)
       /\ us[i].endTime = EndTime(us[i], us[i].startTime)
       /\ Wait[i] # 0 => us[Wait[i]].processed
  ELSE us[i].startTime = Undefined /\ us[i].endTime = Undefined

\* The tasks in the pass after the p-th, when it has come over the first j.
Compiled(us, p, j) ==
  /\ us \in Seq(Task) /\ Len(us) = Len(rawTasks)
  /\ \A i \in 1 .. Len(rawTasks) : us[i].id = rawTasks[i].id /\ us[i].raw = rawTasks[i].raw
  /\ \A i \in 1 .. Len(rawTasks) : TimesRight(us, i)
  /\ \A i \in 1 .. j : us[i].processed <=> Timely(i, p + 1)
  /\ \A i \in j + 1 .. Len(rawTasks) : us[i].processed <=> Timely(i, p)

\* The id of the task before, with the ids of the tasks.
LEMMA PrevIdSame ==
  ASSUME Len(rawTasks) \in Nat, NEW us,
         \A j \in 1 .. Len(rawTasks) : us[j].id = rawTasks[j].id,
         NEW i \in 1 .. Len(rawTasks)
  PROVE  PrevTaskId(i, us) = PrevTaskId(i, rawTasks)
<1>1. CASE i = 1
  BY <1>1 DEF PrevTaskId
<1>2. CASE i # 1
  <2>1. i - 1 \in 1 .. Len(rawTasks)
    BY <1>2
  <2> QED
    BY <1>2, <2>1 DEF PrevTaskId
<1> QED
  BY <1>1, <1>2

\* compileTask() finds the task that is awaited.
LEMMA StartFound ==
  ASSUME TasksGood, NoneThrows, NEW us \in Seq(Task), Len(us) = Len(rawTasks),
         \A j \in 1 .. Len(rawTasks) : us[j].id = rawTasks[j].id /\ us[j].raw = rawTasks[j].raw,
         NEW i \in 1 .. Len(rawTasks)
  PROVE  /\ StartTime(us[i], i, us) = StartOf(us, i)
         /\ us[i].raw.type = "date" => Wait[i] = 0
<1> DEFINE type == us[i].raw.type
           a == Wait[i]
<1>0. /\ Len(rawTasks) \in Nat /\ rawTasks \in Seq(Task)
      /\ a = WaitOf(rawTasks, i)
      /\ us[i].id = rawTasks[i].id /\ us[i].raw = rawTasks[i].raw
      /\ \A id : Position(id, us) = Position(id, rawTasks)
  BY WaitIs DEF Waits, TasksGood, Position
<1>1. type \in {"date", "prevTaskEnd", "after"}
  BY <1>0, TaskIs DEF NoneThrows, CompileThrows
<1>2. CASE type = "date"
  <2>1. a = 0
    BY <1>0, <1>2 DEF WaitOf
  <2>2. StartTime(us[i], i, us) = Day
    BY <1>2 DEF StartTime
  <2>3. StartOf(us, i) = Day
    BY <1>2 DEF StartOf
  <2> QED
    BY <2>1, <2>2, <2>3
<1>3. CASE type = "after"
  <2> DEFINE r == Position(us[i].raw.id, us)
  <2>0. type # "date" /\ type # "prevTaskEnd"
    BY <1>3
  <2>1. a = r
    <3>1. rawTasks[i].raw.type = "after"
      BY <1>0, <1>3
    <3>2. a = Position(rawTasks[i].raw.id, rawTasks)
      BY <1>0, <3>1 DEF WaitOf
    <3> QED
      BY <1>0, <3>2
  <2>2. StartTime(us[i], i, us) = IF r = 0 THEN Today ELSE us[r].endTime
    BY <1>3 DEF StartTime
  <2>3. StartOf(us, i) = IF a = 0 THEN Today ELSE us[a].endTime
    BY <2>0, Zenon DEF StartOf
  <2>5. StartTime(us[i], i, us) = StartOf(us, i)
    <3> HIDE DEF r, a
    <3>1. CASE r = 0
      <4>1. a = 0
        BY <2>1, <3>1
      <4>2. StartTime(us[i], i, us) = Today
        BY <2>2, <3>1, Zenon
      <4>3. StartOf(us, i) = Today
        BY <2>3, <4>1, Zenon
      <4> QED
        BY <4>2, <4>3, Zenon
    <3>2. CASE r # 0
      <4>1. a # 0
        BY <2>1, <3>2
      <4>2. StartTime(us[i], i, us) = us[r].endTime
        BY <2>2, <3>2, Zenon
      <4>3. StartOf(us, i) = us[a].endTime
        BY <2>3, <4>1, Zenon
      <4>4. us[r].endTime = us[a].endTime
        BY <2>1, Zenon
      <4> QED
        BY <4>2, <4>3, <4>4, Zenon
    <3> QED
      BY <3>1, <3>2
  <2> QED
    BY <2>0, <2>5, Zenon
<1>4. CASE type = "prevTaskEnd"
  <2>0. type # "date"
    BY <1>4
  <2>1. rawTasks[i].raw.type = "prevTaskEnd" /\ a # 0
    BY <1>0, <1>4, AwaitedIs
  <2> DEFINE r == Position(PrevTaskId(i, us), us)
  <2>2. PrevTaskId(i, us) = PrevTaskId(i, rawTasks)
    BY <1>0, PrevIdSame
  <2>4. a = r
    BY <1>0, <2>1, <2>2 DEF WaitOf
  <2>5. StartTime(us[i], i, us) = us[r].endTime
    BY <1>4 DEF StartTime
  <2>6. StartOf(us, i) = us[a].endTime
    BY <2>0, <2>1, Zenon DEF StartOf
  <2> HIDE DEF r, a
  <2>7. us[r].endTime = us[a].endTime
    BY <2>4, Zenon
  <2>8. StartTime(us[i], i, us) = StartOf(us, i)
    BY <2>5, <2>6, <2>7, Zenon
  <2> QED
    BY <2>0, <2>8, Zenon
<1> QED
  BY <1>1, <1>2, <1>3, <1>4

\* A task of the pass has an end exactly if it is processed.
LEMMA CompiledIs ==
  ASSUME TasksGood, NoneThrows, NEW p \in Nat, NEW k \in Nat, NEW us, Compiled(us, p, k),
         NEW j \in 1 .. Len(rawTasks)
  PROVE  /\ us[j] \in Task
         /\ us[j].id = rawTasks[j].id /\ us[j].raw = rawTasks[j].raw
         /\ us[j].startTime \in Nat /\ us[j].endTime \in Nat /\ us[j].processed \in BOOLEAN
         /\ us[j].endTime # Undefined <=> us[j].processed
         /\ us[j].processed <=> Timely(j, IF j <= k THEN p + 1 ELSE p)
<1>0. us \in Seq(Task) /\ j \in 1 .. Len(us) /\ Len(rawTasks) \in Nat /\ j \in Nat
  BY LenProperties DEF Compiled, TasksGood
<1>1. /\ us[j] \in Task /\ us[j].startTime \in Nat /\ us[j].endTime \in Nat
      /\ us[j].processed \in BOOLEAN
  BY <1>0, TaskIs
<1>2. TimesRight(us, j) /\ us[j].id = rawTasks[j].id /\ us[j].raw = rawTasks[j].raw
  BY DEF Compiled
<1>3. us[j].endTime # Undefined <=> us[j].processed
  <2>1. CASE us[j].processed
    <3>1. us[j].endTime = EndTime(us[j], us[j].startTime)
      BY <1>2, <2>1 DEF TimesRight
    <3> QED
      BY <1>1, <2>1, <3>1, EndIs DEF Undefined
  <2>2. CASE ~us[j].processed
    BY <1>2, <2>2 DEF TimesRight
  <2> QED
    BY <2>1, <2>2
<1>4. us[j].processed <=> Timely(j, IF j <= k THEN p + 1 ELSE p)
  <2>1. CASE j <= k
    <3>1. j \in 1 .. k
      BY <1>0, <2>1
    <3>2. us[j].processed <=> Timely(j, p + 1)
      BY <3>1 DEF Compiled
    <3> QED
      BY <2>1, <3>2
  <2>2. CASE ~(j <= k)
    <3>1. j \in k + 1 .. Len(rawTasks)
      BY <1>0, <2>2
    <3>2. us[j].processed <=> Timely(j, p)
      BY <3>1 DEF Compiled
    <3> QED
      BY <2>2, <3>2
  <2> QED
    BY <2>1, <2>2
<1> QED
  BY <1>1, <1>2, <1>3, <1>4

\* The start that compileTask() finds is there exactly if the task is timely.
LEMMA StartTimely ==
  ASSUME TasksGood, NoneThrows, NEW p \in Nat, NEW i \in 1 .. Len(rawTasks),
         NEW us, Compiled(us, p, i - 1)
  PROVE  /\ StartOf(us, i) \in Nat
         /\ StartOf(us, i) # Undefined <=> Timely(i, p + 1)
         /\ StartOf(us, i) # Undefined /\ Wait[i] # 0 => us[Wait[i]].processed
<1> DEFINE a == Wait[i]
           start == StartOf(us, i)
<1>0. /\ Len(rawTasks) \in Nat /\ i \in Nat /\ i - 1 \in Nat /\ p + 1 \in Nat
      /\ us \in Seq(Task) /\ Len(us) = Len(rawTasks) /\ a \in 0 .. Len(rawTasks)
      /\ \A j \in 1 .. Len(rawTasks) : us[j].id = rawTasks[j].id /\ us[j].raw = rawTasks[j].raw
  BY WaitIs, LenProperties DEF Waits, Compiled, TasksGood
<1>1. us[i].raw.type = "date" => a = 0
  BY <1>0, StartFound
<1>2. CASE a = 0
  <2>1. start = Day \/ start = Today
    BY <1>2 DEF StartOf
  <2>2. Timely(i, p + 1)
    BY <1>2, TimelyStep
  <2> HIDE DEF start
  <2> QED
    BY <1>2, <2>1, <2>2 DEF Day, Today, Undefined, start
<1>3. CASE a # 0
  <2>0. a \in 1 .. Len(rawTasks) /\ a \in Nat
    BY <1>0, <1>3
  <2>1. start = us[a].endTime
    BY <1>1, <1>3, Zenon DEF StartOf
  <2> HIDE DEF start
  <2>2. /\ us[a].endTime \in Nat
        /\ us[a].endTime # Undefined <=> us[a].processed
        /\ us[a].processed <=> Timely(a, IF a <= i - 1 THEN p + 1 ELSE p)
    BY <1>0, <2>0, CompiledIs
  <2>3. /\ Wait[i] = i => ~Timely(i, p + 1) /\ ~Timely(i, p)
        /\ Wait[i] \in 1 .. i - 1 => (Timely(i, p + 1) <=> Timely(Wait[i], p + 1))
        /\ Wait[i] > i => (Timely(i, p + 1) <=> Timely(Wait[i], p))
    BY <1>0, TimelyStep
  <2> HIDE DEF a
  <2>4. us[a].processed <=> Timely(i, p + 1)
    <3>1. CASE a < i
      <4>1. a <= i - 1 /\ a \in 1 .. i - 1
        BY <1>0, <2>0, <3>1
      <4> QED
        BY <2>2, <2>3, <4>1 DEF a
    <3>2. CASE a = i
      <4>1. ~(a <= i - 1)
        BY <1>0, <3>2
      <4> QED
        BY <2>2, <2>3, <3>2, <4>1 DEF a
    <3>3. CASE a > i
      <4>1. ~(a <= i - 1)
        BY <1>0, <2>0, <3>3
      <4> QED
        BY <2>2, <2>3, <3>3, <4>1 DEF a
    <3> QED
      BY <1>0, <2>0, <3>1, <3>2, <3>3
  <2>5. start \in Nat /\ (start # Undefined <=> us[a].processed)
    BY <2>1, <2>2, Zenon
  <2> QED
    BY <2>4, <2>5 DEF a, start
<1> QED
  BY <1>2, <1>3

\* A task gets its times.
Timed(t, start) ==
  [t EXCEPT !.startTime = start, !.endTime = EndTime(t, start), !.processed = TRUE]

\* It is still a task, with the same id and text.
LEMMA TimedIs ==
  ASSUME NEW t \in Task, NEW start \in Nat
  PROVE  /\ Timed(t, start) \in Task
         /\ Timed(t, start).id = t.id /\ Timed(t, start).raw = t.raw
         /\ Timed(t, start).end = t.end
         /\ Timed(t, start).startTime = start
         /\ Timed(t, start).endTime = EndTime(t, start)
         /\ Timed(t, start).processed
BY EndIs DEF Timed, Task

\* The start of a task depends on its own text and the end of the task awaited.
LEMMA StartSame ==
  ASSUME NEW us, NEW vs, NEW i, vs[i].raw = us[i].raw,
         Wait[i] # 0 => vs[Wait[i]].endTime = us[Wait[i]].endTime
  PROVE  StartOf(vs, i) = StartOf(us, i)
<1>1. CASE us[i].raw.type = "date"
  <2>1. StartOf(us, i) = Day /\ StartOf(vs, i) = Day
    BY <1>1 DEF StartOf
  <2> QED
    BY <2>1
<1>2. CASE us[i].raw.type # "date" /\ Wait[i] = 0
  <2>1. StartOf(us, i) = Today /\ StartOf(vs, i) = Today
    BY <1>2 DEF StartOf
  <2> QED
    BY <2>1
<1>3. CASE us[i].raw.type # "date" /\ Wait[i] # 0
  <2>1. vs[i].raw.type # "date"
    BY <1>3
  <2>2. StartOf(us, i) = us[Wait[i]].endTime
    BY <1>3, Zenon DEF StartOf
  <2>3. StartOf(vs, i) = vs[Wait[i]].endTime
    BY <1>3, <2>1, Zenon DEF StartOf
  <2> QED
    BY <1>3, <2>2, <2>3, Zenon
<1> QED
  BY <1>1, <1>2, <1>3

\* A task gets its times, once and for all.
LEMMA TimesGiven ==
  ASSUME TasksGood, NoneThrows, NEW p \in Nat, NEW i \in 1 .. Len(rawTasks),
         NEW us, Compiled(us, p, i - 1), StartOf(us, i) # Undefined
  PROVE  Compiled([us EXCEPT ![i] = Timed(us[i], StartOf(us, i))], p, i)
<1> DEFINE n == Len(rawTasks)
           start == StartOf(us, i)
           vs == [us EXCEPT ![i] = Timed(us[i], start)]
<1>0. /\ n \in Nat /\ i \in Nat /\ i - 1 \in Nat /\ i \in 1 .. n
      /\ us \in Seq(Task) /\ Len(us) = n /\ DOMAIN us = 1 .. n
      /\ \A j \in 1 .. n : Wait[j] \in 0 .. n
  BY WaitIs, LenProperties DEF Waits, Compiled, TasksGood
<1>1. start \in Nat /\ Timely(i, p + 1) /\ (Wait[i] # 0 => us[Wait[i]].processed)
  BY StartTimely
<1>2. us[i] \in Task
  BY <1>0, CompiledIs
<1> HIDE DEF start
<1>3. /\ Timed(us[i], start) \in Task
      /\ Timed(us[i], start).id = us[i].id /\ Timed(us[i], start).raw = us[i].raw
      /\ Timed(us[i], start).end = us[i].end
      /\ Timed(us[i], start).startTime = start
      /\ Timed(us[i], start).endTime = EndTime(us[i], start)
      /\ Timed(us[i], start).processed
  BY <1>1, <1>2, TimedIs
<1>4. /\ vs \in Seq(Task) /\ Len(vs) = n
      /\ vs[i] = Timed(us[i], start)
      /\ \A j \in 1 .. n : j # i => vs[j] = us[j]
  <2> DEFINE t == Timed(us[i], start)
  <2>1. t \in Task
    BY <1>3
  <2> HIDE DEF t
  <2>2. [us EXCEPT ![i] = t] \in Seq(Task) /\ Len([us EXCEPT ![i] = t]) = n
    BY <1>0, <2>1, ExceptSeq
  <2>3. \A j \in 1 .. n : [us EXCEPT ![i] = t][j] = IF j = i THEN t ELSE us[j]
    BY <1>0
  <2> QED
    BY <1>0, <2>2, <2>3 DEF t
<1> HIDE DEF vs
<1>5. us[i].processed => us[i].startTime = start /\ us[i].endTime = EndTime(us[i], start)
  <2>1. TimesRight(us, i)
    BY DEF Compiled
  <2> QED
    BY <2>1 DEF TimesRight, start
<1>6. ASSUME NEW j \in 1 .. n, us[j].processed
      PROVE  vs[j].processed /\ vs[j].endTime = us[j].endTime /\ vs[j].startTime = us[j].startTime
  <2>1. CASE j = i
    BY <1>3, <1>4, <1>5, <1>6, <2>1
  <2>2. CASE j # i
    BY <1>4, <1>6, <2>2
  <2> QED
    BY <2>1, <2>2
<1>7. \A j \in 1 .. n : vs[j].id = us[j].id /\ vs[j].raw = us[j].raw
  <2> SUFFICES ASSUME NEW j \in 1 .. n  PROVE vs[j].id = us[j].id /\ vs[j].raw = us[j].raw
    OBVIOUS
  <2>1. CASE j = i
    BY <1>3, <1>4, <2>1
  <2>2. CASE j # i
    BY <1>4, <2>2
  <2> QED
    BY <2>1, <2>2
<1>8. ASSUME NEW j \in 1 .. n  PROVE TimesRight(vs, j)
  <2>0. TimesRight(us, j) /\ Wait[j] \in 0 .. n /\ vs[j].raw = us[j].raw
    BY <1>0, <1>7 DEF Compiled
  <2>1. CASE vs[j].processed /\ (us[j].processed \/ j = i)
    <3>1. Wait[j] # 0 => us[Wait[j]].processed
      BY <1>1, <2>0, <2>1 DEF TimesRight
    <3>2. Wait[j] # 0 => /\ vs[Wait[j]].processed
                         /\ vs[Wait[j]].endTime = us[Wait[j]].endTime
      <4> SUFFICES ASSUME Wait[j] # 0
                   PROVE  /\ vs[Wait[j]].processed
                          /\ vs[Wait[j]].endTime = us[Wait[j]].endTime
        OBVIOUS
      <4>1. Wait[j] \in 1 .. n
        BY <1>0, <2>0
      <4> QED
        BY <1>6, <3>1, <4>1
    <3>3. StartOf(vs, j) = StartOf(us, j)
      BY <2>0, <3>2, StartSame
    <3>4. vs[j].startTime = StartOf(us, j) /\ vs[j].endTime = EndTime(vs[j], vs[j].startTime)
      <4>1. CASE j = i
        <5>1. vs[j].startTime = start /\ vs[j].endTime = EndTime(vs[j], start)
          BY <1>3, <1>4, <4>1 DEF EndTime
        <5> QED
          BY <4>1, <5>1 DEF start
      <4>2. CASE j # i
        <5>1. vs[j] = us[j] /\ us[j].processed
          BY <1>4, <2>1, <4>2
        <5> QED
          BY <2>0, <5>1 DEF TimesRight
      <4> QED
        BY <4>1, <4>2
    <3> QED
      BY <2>1, <3>2, <3>3, <3>4 DEF TimesRight
  <2>2. CASE ~(vs[j].processed /\ (us[j].processed \/ j = i))
    <3>1. j # i
      BY <1>3, <1>4, <2>2
    <3>2. vs[j] = us[j]
      BY <1>4, <3>1
    <3>3. ~us[j].processed
      BY <2>2, <3>2
    <3> QED
      BY <2>0, <3>2, <3>3 DEF TimesRight
  <2> QED
    BY <2>1, <2>2
<1>9. \A j \in 1 .. i : vs[j].processed <=> Timely(j, p + 1)
  <2> SUFFICES ASSUME NEW j \in 1 .. i  PROVE vs[j].processed <=> Timely(j, p + 1)
    OBVIOUS
  <2>1. CASE j = i
    BY <1>1, <1>3, <1>4, <2>1
  <2>2. CASE j # i
    <3>1. j \in 1 .. i - 1 /\ j \in 1 .. n
      BY <1>0, <2>2
    <3>2. us[j].processed <=> Timely(j, p + 1)
      BY <3>1 DEF Compiled
    <3> QED
      BY <1>4, <2>2, <3>1, <3>2
  <2> QED
    BY <2>1, <2>2
<1>10. \A j \in i + 1 .. n : vs[j].processed <=> Timely(j, p)
  <2> SUFFICES ASSUME NEW j \in i + 1 .. n  PROVE vs[j].processed <=> Timely(j, p)
    OBVIOUS
  <2>1. j \in (i - 1) + 1 .. n /\ j \in 1 .. n /\ j # i
    BY <1>0
  <2>2. us[j].processed <=> Timely(j, p)
    BY <2>1 DEF Compiled
  <2> QED
    BY <1>4, <2>1, <2>2
<1>11. \A j \in 1 .. n : vs[j].id = rawTasks[j].id /\ vs[j].raw = rawTasks[j].raw
  BY <1>7 DEF Compiled
<1> QED
  BY <1>4, <1>8, <1>9, <1>10, <1>11 DEF Compiled, vs, start

\* compileTask() takes the pass one task further.
LEMMA CompileStep ==
  ASSUME TasksGood, NoneThrows, NEW p \in Nat, NEW i \in 1 .. Len(rawTasks),
         NEW us, Compiled(us, p, i - 1)
  PROVE  Compiled(CompileTask(i, us), p, i)
<1>0. /\ Len(rawTasks) \in Nat /\ i \in Nat
      /\ us \in Seq(Task) /\ Len(us) = Len(rawTasks)
      /\ \A j \in 1 .. Len(rawTasks) : us[j].id = rawTasks[j].id /\ us[j].raw = rawTasks[j].raw
  BY LenProperties DEF Compiled, TasksGood
<1>1. StartTime(us[i], i, us) = StartOf(us, i)
  BY <1>0, StartFound
<1>2. CASE StartOf(us, i) # Undefined
  <2>1. CompileTask(i, us) = [us EXCEPT ![i] = Timed(us[i], StartOf(us, i))]
    <3> DEFINE start == StartOf(us, i)
    <3>1. CompileTask(i, us) =
            [us EXCEPT ![i].startTime = start, ![i].endTime = EndTime(us[i], start),
                       ![i].processed = TRUE]
      BY <1>1, <1>2 DEF CompileTask
    <3>2. i \in DOMAIN us /\ us[i] \in Task
      BY <1>0, LenProperties, ElementOfSeq
    <3> HIDE DEF start
    <3> QED
      BY <3>1, <3>2 DEF Timed, Task, start
  <2> QED
    BY <1>2, <2>1, TimesGiven
<1>3. CASE StartOf(us, i) = Undefined
  <2>1. CompileTask(i, us) = us
    BY <1>1, <1>3 DEF CompileTask
  <2>2. ~Timely(i, p + 1) /\ ~Timely(i, p)
    BY <1>3, StartTimely, TimelyStep
  <2>3. us[i].processed <=> Timely(i, p)
    <3>1. i \in (i - 1) + 1 .. Len(rawTasks)
      BY <1>0
    <3> QED
      BY <3>1 DEF Compiled
  <2>4. \A j \in 1 .. i : us[j].processed <=> Timely(j, p + 1)
    <3> SUFFICES ASSUME NEW j \in 1 .. i  PROVE us[j].processed <=> Timely(j, p + 1)
      OBVIOUS
    <3>1. CASE j = i
      BY <2>2, <2>3, <3>1
    <3>2. CASE j # i
      <4>1. j \in 1 .. i - 1
        BY <1>0, <3>2
      <4> QED
        BY <4>1 DEF Compiled
    <3> QED
      BY <3>1, <3>2
  <2>5. \A j \in i + 1 .. Len(rawTasks) : us[j].processed <=> Timely(j, p)
    <3> SUFFICES ASSUME NEW j \in i + 1 .. Len(rawTasks)
                 PROVE  us[j].processed <=> Timely(j, p)
      OBVIOUS
    <3>1. j \in (i - 1) + 1 .. Len(rawTasks)
      BY <1>0
    <3> QED
      BY <3>1 DEF Compiled
  <2> QED
    BY <2>1, <2>4, <2>5 DEF Compiled
<1> QED
  BY <1>2, <1>3

\* compileTasks() comes over all tasks.
LEMMA CompileTasksRight ==
  ASSUME TasksGood, NoneThrows, NEW p \in Nat, Compiled(rawTasks, p, 0)
  PROVE  Compiled(CompileTasks(Len(rawTasks)), p, Len(rawTasks))
<1> DEFINE n == Len(rawTasks)
           F(i, g) == IF i = 0 THEN rawTasks ELSE CompileTask(i, g[i - 1])
           Is(k, g) == g = [i \in 0 .. k |-> F(i, g)]
           upTo == CHOOSE g : Is(n, g)
<1>0. n \in Nat
  BY LenProperties DEF TasksGood
<1>1. CompileTasks(n) = upTo[n]
  BY Zenon DEF CompileTasks
<1>2. ASSUME NEW i \in Nat, NEW g, NEW h, i = 0 \/ g[i - 1] = h[i - 1]
      PROVE  F(i, g) = F(i, h)
  BY <1>2
<1>3. ASSUME NEW g  PROVE F(0, g) = rawTasks
  OBVIOUS
<1> HIDE DEF F
<1>4. \E g : Is(n, g)
  <2> DEFINE S == {k \in Nat : \E g : Is(k, g)}
  <2>1. 0 \in S
    <3> DEFINE h == [i \in 0 .. 0 |-> rawTasks]
    <3>1. Is(0, h)
      BY <1>3
    <3> HIDE DEF h
    <3> QED
      BY <3>1
  <2>2. ASSUME NEW k \in Nat, k \in S  PROVE k + 1 \in S
    <3>1. PICK g : Is(k, g)
      BY <2>2
    <3>2. \A i \in 0 .. k : g[i] = F(i, g)
      BY <3>1, Zenon
    <3> DEFINE h == [i \in 0 .. k + 1 |-> IF i = k + 1 THEN F(i, g) ELSE g[i]]
    <3>3. ASSUME NEW i \in 0 .. k + 1  PROVE h[i] = F(i, h)
      <4>1. i = 0 \/ g[i - 1] = h[i - 1]
        OBVIOUS
      <4>2. F(i, g) = F(i, h)
        BY <1>2, <4>1
      <4>3. h[i] = F(i, g)
        BY <3>2
      <4> QED
        BY <4>2, <4>3
    <3>4. Is(k + 1, h)
      BY <3>3
    <3> HIDE DEF h, Is
    <3> QED
      BY <3>4
  <2> HIDE DEF S
  <2>3. n \in S
    BY <1>0, <2>1, <2>2, NatSetInduction
  <2> QED
    BY <2>3 DEF S
<1>5. Is(n, upTo)
  BY <1>4, Zenon
<1> HIDE DEF upTo
<1>6. \A i \in 0 .. n : upTo[i] = F(i, upTo)
  BY <1>5, Zenon
<1> DEFINE K == {k \in Nat : k <= n => Compiled(upTo[k], p, k)}
<1>7. 0 \in K
  <2>1. upTo[0] = rawTasks
    BY <1>0, <1>3, <1>6
  <2> QED
    BY <2>1
<1>8. ASSUME NEW k \in Nat, k \in K  PROVE k + 1 \in K
  <2> SUFFICES ASSUME k + 1 <= n  PROVE Compiled(upTo[k + 1], p, k + 1)
    OBVIOUS
  <2> DEFINE i == k + 1
  <2>1. i \in 1 .. n /\ i - 1 = k /\ i \in 0 .. n /\ i # 0 /\ k <= n
    BY <1>0
  <2>2. Compiled(upTo[i - 1], p, i - 1)
    BY <1>8, <2>1
  <2> HIDE DEF i
  <2>3. upTo[i] = CompileTask(i, upTo[i - 1])
    BY <1>6, <2>1 DEF F
  <2> HIDE DEF K
  <2>4. Compiled(upTo[i], p, i)
    BY <2>1, <2>2, <2>3, CompileStep
  <2> QED
    BY <2>4 DEF i
<1> HIDE DEF K
<1>9. n \in K
  BY <1>0, <1>7, <1>8, NatSetInduction
<1>10. Compiled(upTo[n], p, n)
  BY <1>0, <1>9 DEF K
<1> QED
  BY <1>1, <1>10

\* The walk along what the text of the diagram says is the one along what
\* compileTask() finds.
LEMMA WalkIs ==
  ASSUME TasksGood, NoneThrows, NEW i \in 1 .. Len(rawTasks)
  PROVE  Walk(i) = WalkOf(Wait, Len(rawTasks), i)
<1> DEFINE n == Len(rawTasks)
           start == [at |-> i, needs |-> 1]
           On(w) == IF w.at = 0 THEN w
                    ELSE [at |-> Awaited(w.at),
                          needs |-> IF Awaited(w.at) > w.at THEN w.needs + 1 ELSE w.needs]
           F(k, g) == IF k = 0 THEN start ELSE On(g[k - 1])
           Is(g) == g = [k \in 0 .. n |-> F(k, g)]
           walk == CHOOSE g : Is(g)
<1>0. n \in Nat /\ i \in 0 .. n
  BY LenProperties DEF TasksGood
<1>1. Walk(i) = walk[n]
  BY Zenon DEF Walk
<1>2. Waits(Wait, n) /\ \A j \in 1 .. n : Awaited(j) = Wait[j]
  BY WaitIs, AwaitedIs
<1>3. PICK f : Path(Wait, f, i, n) /\ WalkOf(Wait, n, i) = f[n]
  BY <1>0, PathIs
<1>4. \A k \in 0 .. n : f[k] \in [at : 0 .. n, needs : Nat \ {0}]
  BY <1>0, <1>2, <1>3, PathRange
<1>5. ASSUME NEW w \in [at : 0 .. n, needs : Nat \ {0}]
      PROVE  On(w) = Onward(Wait, w)
  <2>1. CASE w.at = 0
    BY <2>1 DEF Onward
  <2>2. CASE w.at # 0
    <3>1. Awaited(w.at) = Wait[w.at]
      BY <1>0, <1>2, <2>2
    <3> QED
      BY <2>2, <3>1 DEF Onward
  <2> QED
    BY <2>1, <2>2
<1> HIDE DEF On
<1>6. ASSUME NEW k \in 1 .. n  PROVE f[k] = On(f[k - 1])
  <2>1. f[k] = Onward(Wait, f[k - 1])
    BY <1>3 DEF Path
  <2>2. k - 1 \in 0 .. n
    BY <1>0
  <2> QED
    BY <1>4, <1>5, <2>1, <2>2
<1>7. f[0] = start
  BY <1>3 DEF Path
<1>8. \E g : Is(g)
  <2> DEFINE g == [k \in 0 .. n |-> f[k]]
  <2>1. ASSUME NEW k \in 0 .. n  PROVE f[k] = F(k, g)
    <3>1. CASE k = 0
      BY <1>7, <3>1
    <3>2. CASE k # 0
      <4>1. k \in 1 .. n /\ k - 1 \in 0 .. n
        BY <1>0, <3>2
      <4>2. g[k - 1] = f[k - 1]
        BY <4>1
      <4>3. f[k] = On(f[k - 1])
        BY <1>6, <4>1
      <4> HIDE DEF g, start
      <4> QED
        BY <3>2, <4>2, <4>3
    <3> QED
      BY <3>1, <3>2
  <2> HIDE DEF F
  <2>2. Is(g)
    BY <2>1
  <2> HIDE DEF g, Is
  <2> QED
    BY <2>2
<1>9. Is(walk)
  BY <1>8, Zenon
<1> HIDE DEF walk, start
<1>10. \A k \in 0 .. n : walk[k] = F(k, walk)
  BY <1>9, Zenon
<1> HIDE DEF Is
<1> DEFINE S == {k \in Nat : k <= n => walk[k] = f[k]}
<1>11. 0 \in S
  <2>1. walk[0] = start
    BY <1>0, <1>10
  <2> QED
    BY <1>7, <2>1
<1>12. ASSUME NEW k \in Nat, k \in S  PROVE k + 1 \in S
  <2> SUFFICES ASSUME k + 1 <= n  PROVE walk[k + 1] = f[k + 1]
    OBVIOUS
  <2>1. k + 1 \in 1 .. n /\ k + 1 \in 0 .. n /\ (k + 1) - 1 = k /\ k + 1 # 0 /\ k <= n
    BY <1>0
  <2>2. walk[k + 1] = On(walk[k])
    BY <1>10, <2>1
  <2>3. f[k + 1] = On(f[k])
    BY <1>6, <2>1
  <2>4. walk[k] = f[k]
    BY <1>12, <2>1
  <2> QED
    BY <2>2, <2>3, <2>4
<1> HIDE DEF S
<1>13. n \in S
  BY <1>0, <1>11, <1>12, NatSetInduction
<1>14. walk[n] = f[n]
  BY <1>0, <1>13 DEF S
<1> QED
  BY <1>1, <1>3, <1>14

-----------------------------------------------------------------------------
\* The tasks of a diagram, from the first to the last pass.

\* No task has times yet.
Fresh ==
  \A i \in 1 .. Len(rawTasks) :
    /\ ~rawTasks[i].processed
    /\ rawTasks[i].startTime = Undefined /\ rawTasks[i].endTime = Undefined

\* The invariant: after each pass the tasks that are timely by then have times,
\* and the right ones; it ends after the last pass or when all have them.
GanttInv ==
  /\ taskDb \in [Ids -> Nat] /\ drawn \in Nat
  /\ stage # "threw" => TasksGood
  /\ taskCnt \in Nat /\ passes \in Nat
  /\ stage \in {"parsing", "compiling", "compiled", "threw"}
  /\ stage = "parsing" => passes = 0 /\ Fresh
  /\ stage = "compiling" => passes <= MaxDepth
  /\ stage \in {"compiling", "compiled"} => NoneThrows /\ Compiled(rawTasks, passes, 0)
  /\ stage = "compiled" =>
       /\ passes <= MaxDepth + 1
       /\ passes = MaxDepth + 1 \/ \A i \in 1 .. Len(rawTasks) : rawTasks[i].processed

\* A task is added.
LEMMA NewTask ==
  ASSUME TasksGood, Fresh, NEW id \in Ids, NEW start \in Start, NEW end \in End,
         AddTask(id, start, end)
  PROVE  TasksGood' /\ Fresh'
<1> DEFINE n == Len(rawTasks)
           t == [id |-> id, raw |-> start, end |-> end, startTime |-> Undefined,
                 endTime |-> Undefined, processed |-> FALSE]
<1>0. /\ rawTasks \in Seq(Task) /\ n \in Nat /\ taskDb \in [Ids -> Nat]
      /\ drawn' = drawn /\ drawn \in Nat
  BY LenProperties DEF AddTask, TasksGood
<1>1. t \in Task
  BY DEF Task, Undefined
<1>2. t.id = id /\ ~t.processed /\ t.startTime = Undefined /\ t.endTime = Undefined
  OBVIOUS
<1>3. rawTasks' = Append(rawTasks, t)
  BY DEF AddTask
<1> HIDE DEF t
<1>4. /\ rawTasks' \in Seq(Task) /\ Len(rawTasks') = n + 1
      /\ rawTasks'[n + 1] = t
      /\ \A i \in 1 .. n : rawTasks'[i] = rawTasks[i]
  BY <1>0, <1>1, <1>3
<1>5. /\ taskDb' \in [Ids -> Nat] /\ taskDb'[id] = n + 1
      /\ \A x \in Ids : x # id => taskDb'[x] = taskDb[x]
  BY <1>0 DEF AddTask
<1>6. ASSUME NEW i \in 1 .. n + 1
      PROVE  /\ taskDb'[rawTasks'[i].id] \in i .. n + 1
             /\ rawTasks'[taskDb'[rawTasks'[i].id]].id = rawTasks'[i].id
  <2>1. CASE rawTasks'[i].id = id
    BY <1>0, <1>2, <1>4, <1>5, <2>1
  <2>2. CASE rawTasks'[i].id # id
    <3>1. i \in 1 .. n
      BY <1>0, <1>2, <1>4, <2>2
    <3>2. rawTasks[i].id \in Ids
      BY <1>0, <3>1, TaskIs
    <3> DEFINE x == rawTasks[i].id
    <3>3. taskDb[x] \in i .. n /\ rawTasks[taskDb[x]].id = x
      BY <3>1 DEF TasksGood
    <3>4. rawTasks'[i].id = x /\ taskDb'[x] = taskDb[x]
      BY <1>4, <1>5, <2>2, <3>1, <3>2
    <3> HIDE DEF x
    <3>5. taskDb[x] \in 1 .. n /\ taskDb[x] \in i .. n + 1
      BY <1>0, <3>1, <3>3
    <3> QED
      BY <1>4, <3>3, <3>4, <3>5
  <2> QED
    BY <2>1, <2>2
<1>7. ASSUME drawn = 0, NEW x \in Ids, taskDb'[x] # 0
      PROVE  taskDb'[x] \in 1 .. n + 1 /\ rawTasks'[taskDb'[x]].id = x
  <2>1. CASE x = id
    BY <1>0, <1>2, <1>4, <1>5, <2>1
  <2>2. CASE x # id
    <3>1. taskDb'[x] = taskDb[x]
      BY <1>5, <2>2
    <3>2. taskDb[x] \in 1 .. n /\ rawTasks[taskDb[x]].id = x
      BY <1>7, <3>1 DEF TasksGood
    <3> QED
      BY <1>0, <1>4, <3>1, <3>2
  <2> QED
    BY <2>1, <2>2
<1>8. TasksGood'
  BY <1>0, <1>4, <1>5, <1>6, <1>7 DEF TasksGood
<1>9. Fresh'
  <2> SUFFICES ASSUME NEW i \in 1 .. n + 1
               PROVE  /\ ~rawTasks'[i].processed
                      /\ rawTasks'[i].startTime = Undefined
                      /\ rawTasks'[i].endTime = Undefined
    BY <1>4 DEF Fresh, Undefined
  <2>1. CASE i = n + 1
    BY <1>2, <1>4, <2>1
  <2>2. CASE i # n + 1
    <3>1. i \in 1 .. n
      BY <1>0, <2>2
    <3> QED
      BY <1>4, <3>1 DEF Fresh
  <2> QED
    BY <2>1, <2>2
<1> QED
  BY <1>8, <1>9

\* Before the first pass no task has times.
LEMMA FreshCompiled ==
  ASSUME TasksGood, NoneThrows, Fresh
  PROVE  Compiled(rawTasks, 0, 0)
<1>0. rawTasks \in Seq(Task) /\ Len(rawTasks) \in Nat /\ 0 \in Nat
  BY LenProperties DEF TasksGood
<1>1. \A i \in 1 .. Len(rawTasks) : TimesRight(rawTasks, i)
  BY DEF Fresh, TimesRight
<1>2. \A i \in 0 + 1 .. Len(rawTasks) : rawTasks[i].processed <=> Timely(i, 0)
  <2> SUFFICES ASSUME NEW i \in 1 .. Len(rawTasks)
               PROVE  rawTasks[i].processed <=> Timely(i, 0)
    OBVIOUS
  <2>1. ~Timely(i, 0)
    BY <1>0, TimelyStep
  <2> QED
    BY <2>1 DEF Fresh
<1>3. \A i \in 1 .. 0 : rawTasks[i].processed <=> Timely(i, 0 + 1)
  OBVIOUS
<1> QED
  BY <1>0, <1>1, <1>2, <1>3 DEF Compiled

\* A pass leaves alone what the tasks wait for.
LEMMA PassGood ==
  ASSUME TasksGood, NoneThrows, passes \in Nat, Compiled(rawTasks, passes, 0),
         rawTasks' = CompileTasks(Len(rawTasks)), passes' = passes + 1, UNCHANGED <<taskDb, drawn>>
  PROVE  TasksGood' /\ NoneThrows' /\ Compiled(rawTasks, passes, 0)'
<1> DEFINE n == Len(rawTasks)
           us == rawTasks'
<1>0. n \in Nat /\ rawTasks \in Seq(Task) /\ taskDb' = taskDb /\ drawn' = drawn
  BY LenProperties DEF TasksGood
<1>1. Compiled(us, passes, n)
  BY CompileTasksRight
<1>2. /\ us \in Seq(Task) /\ Len(us) = n
      /\ \A i \in 1 .. n : us[i].id = rawTasks[i].id /\ us[i].raw = rawTasks[i].raw
  BY <1>1 DEF Compiled
<1>3. /\ \A i \in 1 .. n : TimesRight(us, i)
      /\ \A i \in 1 .. n : us[i].processed <=> Timely(i, passes + 1)
  BY <1>1 DEF Compiled
<1>4. TasksGood'
  <2>1. \A i \in 1 .. n : /\ taskDb[us[i].id] \in i .. n
                          /\ us[taskDb[us[i].id]].id = us[i].id
    <3> SUFFICES ASSUME NEW i \in 1 .. n
                 PROVE  /\ taskDb[us[i].id] \in i .. n
                        /\ us[taskDb[us[i].id]].id = us[i].id
      OBVIOUS
    <3> DEFINE c == taskDb[rawTasks[i].id]
    <3>1. c \in i .. n /\ rawTasks[c].id = rawTasks[i].id
      BY DEF TasksGood
    <3>2. c \in 1 .. n /\ us[i].id = rawTasks[i].id
      BY <1>0, <1>2, <3>1
    <3> QED
      BY <1>2, <3>1, <3>2
  <2>2. drawn = 0 => \A id \in Ids : taskDb[id] # 0 =>
                       taskDb[id] \in 1 .. n /\ us[taskDb[id]].id = id
    BY <1>2 DEF TasksGood
  <2> HIDE DEF n
  <2>3. taskDb \in [Ids -> Nat] /\ drawn \in Nat
    BY DEF TasksGood
  <2> QED
    BY <1>0, <1>2, <2>1, <2>2, <2>3 DEF TasksGood
<1>5. ASSUME NEW i \in 1 .. n
      PROVE  /\ us[i].raw = rawTasks[i].raw
             /\ PrevTaskId(i, rawTasks)' = PrevTaskId(i, rawTasks)
             /\ \A id : Position(id, rawTasks)' = Position(id, rawTasks)
  <2>1. PrevTaskId(i, us) = PrevTaskId(i, rawTasks)
    BY <1>0, <1>2, PrevIdSame
  <2>2. PrevTaskId(i, rawTasks)' = PrevTaskId(i, us)
    BY DEF PrevTaskId
  <2> QED
    BY <1>0, <1>2, <2>1, <2>2 DEF Position
<1>6. NoneThrows' /\ Wait' = Wait
  <2>1. ASSUME NEW i \in 1 .. n
        PROVE  (CompileThrows(i)' <=> CompileThrows(i)) /\ WaitOf(rawTasks, i)' = WaitOf(rawTasks, i)
    <3> DEFINE was == PrevTaskId(i, rawTasks)
    <3>1. was' = was /\ Position(was, rawTasks)' = Position(was, rawTasks)
      BY <1>5
    <3>2. Position(rawTasks[i].raw.id, rawTasks)' = Position(rawTasks[i].raw.id, rawTasks)
      BY <1>5
    <3>3. us[i].raw = rawTasks[i].raw
      BY <1>5
    <3> HIDE DEF was
    <3>4. CompileThrows(i)' <=> CompileThrows(i)
      BY <3>1, <3>3 DEF CompileThrows, was
    <3>5. WaitOf(rawTasks, i)' = WaitOf(rawTasks, i)
      BY <3>1, <3>2, <3>3 DEF WaitOf, was
    <3> QED
      BY <3>4, <3>5
  <2> QED
    BY <1>2, <2>1 DEF NoneThrows, Wait
<1>7. \A i \in 1 .. n : Timely(i, passes)' <=> Timely(i, passes + 1)
  BY <1>2, <1>6 DEF Timely
<1>8. \A i \in 1 .. n : TimesRight(rawTasks, i)'
  BY <1>3, <1>6 DEF TimesRight, StartOf
<1>9. \A i \in 1 .. n : us[i].processed <=> Timely(i, passes)'
  BY <1>3, <1>7
<1>10. \A i \in 1 .. 0 : us[i].processed <=> Timely(i, passes + 1)'
  OBVIOUS
<1> QED
  BY <1>0, <1>2, <1>4, <1>6, <1>8, <1>9, <1>10 DEF Compiled

\* The invariant holds in the beginning.
LEMMA GanttInvInit == GanttInit => GanttInv
<1> SUFFICES ASSUME GanttInit  PROVE GanttInv
  OBVIOUS
<1>1. rawTasks = << >> /\ rawTasks \in Seq(Task) /\ Len(rawTasks) = 0
  BY DEF GanttInit
<1>2. taskDb \in [Ids -> Nat] /\ \A id \in Ids : taskDb[id] = 0
  BY DEF GanttInit, Ids
<1>3. TasksGood
  BY <1>1, <1>2 DEF TasksGood, GanttInit
<1> QED
  BY <1>1, <1>2, <1>3 DEF GanttInit, GanttInv, Fresh

\* Every step keeps the invariant.
LEMMA GanttInvStep == GanttInv /\ [GanttNext]_ganttVars => GanttInv'
<1> SUFFICES ASSUME GanttInv, [GanttNext]_ganttVars  PROVE GanttInv'
  OBVIOUS
<1>0. /\ stage # "threw" => TasksGood
      /\ taskDb \in [Ids -> Nat] /\ drawn \in Nat
      /\ taskCnt \in Nat /\ passes \in Nat
  BY DEF GanttInv
<1>1. CASE UNCHANGED ganttVars
  <2>1. (TasksGood <=> TasksGood') /\ (Fresh <=> Fresh') /\ (NoneThrows <=> NoneThrows')
    BY <1>1 DEF ganttVars, TasksGood, Fresh, NoneThrows, CompileThrows, PrevTaskId, Position
  <2>2. Compiled(rawTasks, passes, 0) <=> Compiled(rawTasks, passes, 0)'
    BY <1>1 DEF ganttVars, Compiled, TimesRight, StartOf, Timely, Wait, WaitOf,
                PrevTaskId, Position
  <2> QED
    BY <1>1, <2>1, <2>2 DEF ganttVars, GanttInv
<1>2. ASSUME NEW id \in Ids, NEW start \in Start, NEW end \in End,
             AddTask(id, start, end), taskCnt' \in Nat
      PROVE  GanttInv'
  <2>1. stage = "parsing" /\ stage' = stage /\ passes' = passes /\ drawn' = drawn
    BY <1>2 DEF AddTask
  <2>2. TasksGood /\ Fresh /\ passes = 0
    BY <1>0, <2>1 DEF GanttInv
  <2>3. TasksGood' /\ Fresh'
    BY <1>2, <2>2, NewTask
  <2>4. taskDb' \in [Ids -> Nat] /\ drawn' \in Nat
    BY <2>3 DEF TasksGood
  <2> QED
    BY <1>0, <1>2, <2>1, <2>2, <2>3, <2>4 DEF GanttInv
<1>3. CASE AddAnonymous
  <2>1. PICK start \in Start, end \in End :
          /\ taskCnt < Len(AutoId) /\ taskCnt' = taskCnt + 1
          /\ AddTask(AutoId[taskCnt + 1], start, end)
    BY <1>3 DEF AddAnonymous, Start
  <2>2. AutoId[taskCnt + 1] \in Ids
    <3>1. taskCnt + 1 \in DOMAIN AutoId
      BY <1>0, <2>1, GanttAssumption
    <3> QED
      BY <3>1 DEF Ids, ToSet
  <2>3. taskCnt' \in Nat
    BY <1>0, <2>1
  <2> QED
    BY <1>2, <2>1, <2>2, <2>3
<1>4. CASE AddNamed
  <2>1. PICK id \in Id, start \in Start, end \in End :
          AddTask(id, start, end) /\ UNCHANGED taskCnt
    BY <1>4 DEF AddNamed, Start
  <2>2. id \in Ids /\ taskCnt' \in Nat
    BY <1>0, <2>1 DEF Ids
  <2> QED
    BY <1>2, <2>1, <2>2
<1>7. CASE AddUnread
  <2>1. AddTask(NoId, [type |-> "none"], "length") /\ UNCHANGED taskCnt
    BY <1>7 DEF AddUnread
  <2>2. NoId \in Ids /\ [type |-> "none"] \in Start /\ "length" \in End /\ taskCnt' \in Nat
    BY <1>0, <2>1 DEF Ids, Start, End
  <2> QED
    BY <1>2, <2>1, <2>2
<1>5. CASE Pass
  <2>0. /\ stage \in {"parsing", "compiling"}
        /\ UNCHANGED <<taskDb, taskCnt, drawn>>
    BY <1>5 DEF Pass
  <2>1. TasksGood /\ DOMAIN rawTasks = 1 .. Len(rawTasks)
    BY <1>0, <2>0, LenProperties DEF TasksGood
  <2>2. CASE stage' = "threw"
    <3>1. passes' \in Nat
      BY <1>0, <1>5 DEF Pass
    <3> QED
      BY <1>0, <2>0, <2>2, <3>1 DEF GanttInv
  <2>3. CASE stage' # "threw"
    <3>0. /\ \A i \in DOMAIN rawTasks : ~CompileThrows(i)
          /\ rawTasks' = CompileTasks(Len(rawTasks)) /\ passes' = passes + 1
          /\ stage' = IF passes = MaxDepth \/ \A i \in DOMAIN rawTasks : rawTasks'[i].processed
                      THEN "compiled" ELSE "compiling"
      BY <1>5, <2>3, Zenon DEF Pass
    <3>1. NoneThrows
      BY <2>1, <3>0 DEF NoneThrows
    <3>2. passes <= MaxDepth /\ MaxDepth \in Nat
      BY <2>0, GanttAssumption DEF GanttInv
    <3>3. Compiled(rawTasks, passes, 0)
      <4>1. CASE stage = "parsing"
        <5>1. passes = 0 /\ Fresh
          BY <4>1 DEF GanttInv
        <5> QED
          BY <2>1, <3>1, <5>1, FreshCompiled
      <4>2. CASE stage = "compiling"
        BY <4>2 DEF GanttInv
      <4> QED
        BY <2>0, <4>1, <4>2
    <3>4. TasksGood' /\ NoneThrows' /\ Compiled(rawTasks, passes, 0)'
      BY <1>0, <2>0, <2>1, <3>0, <3>1, <3>3, PassGood
    <3>5. DOMAIN rawTasks = 1 .. Len(rawTasks')
      <4>1. Len(rawTasks') = Len(rawTasks)
        <5>1. Compiled(CompileTasks(Len(rawTasks)), passes, Len(rawTasks))
          BY <1>0, <2>1, <3>1, <3>3, CompileTasksRight
        <5> QED
          BY <3>0, <5>1 DEF Compiled
      <4> QED
        BY <2>1, <4>1
    <3>6. CASE stage' = "compiling"
      <4>1. passes # MaxDepth
        BY <3>0, <3>6
      <4>2. passes' \in Nat /\ passes' <= MaxDepth
        BY <1>0, <3>0, <3>2, <4>1
      <4> QED
        BY <1>0, <2>0, <3>4, <3>6, <4>2 DEF GanttInv
    <3>7. CASE stage' = "compiled"
      <4>1. passes = MaxDepth \/ \A i \in 1 .. Len(rawTasks') : rawTasks'[i].processed
        BY <3>0, <3>5, <3>7
      <4>2. /\ passes' \in Nat /\ passes' <= MaxDepth + 1
            /\ passes = MaxDepth => passes' = MaxDepth + 1
        BY <1>0, <3>0, <3>2
      <4> QED
        BY <1>0, <2>0, <3>4, <3>7, <4>1, <4>2 DEF GanttInv
    <3> QED
      BY <3>0, <3>6, <3>7
  <2> QED
    BY <2>2, <2>3
<1>6. CASE Clear
  <2>1. /\ rawTasks' = << >> /\ rawTasks' \in Seq(Task) /\ Len(rawTasks') = 0
        /\ drawn' \in Nat /\ drawn' # 0 /\ taskDb' = taskDb /\ taskDb' \in [Ids -> Nat]
    BY <1>0, <1>6 DEF Clear
  <2>2. TasksGood' /\ Fresh'
    BY <2>1 DEF TasksGood, Fresh
  <2>3. taskCnt' = 0 /\ passes' = 0 /\ stage' = "parsing"
    BY <1>6 DEF Clear
  <2> QED
    BY <2>1, <2>2, <2>3 DEF GanttInv
<1> QED
  BY <1>1, <1>3, <1>4, <1>5, <1>6, <1>7 DEF GanttNext

\* A diagram's tasks have the right times when getTasks() has passed over them,
\* and lack them only if they wait for themselves or for too many later ones.
THEOREM SchedulesAreRight == GanttSpec => []ScheduleRight
<1>1. GanttInv => ScheduleRight
  <2> SUFFICES ASSUME GanttInv, stage = "compiled", NEW i \in Positions
               PROVE  /\ rawTasks[i].processed <=>
                           Walk(i).at = 0 /\ Walk(i).needs <= MaxDepth + 1
                      /\ rawTasks[i].processed =>
                           /\ rawTasks[i].startTime =
                                IF rawTasks[i].raw.type = "date" THEN Day
                                ELSE IF Awaited(i) = 0 THEN Today
                                ELSE rawTasks[Awaited(i)].endTime
                           /\ rawTasks[i].endTime = EndTime(rawTasks[i], rawTasks[i].startTime)
    BY Zenon DEF ScheduleRight
  <2>0. /\ TasksGood /\ NoneThrows /\ Compiled(rawTasks, passes, 0)
        /\ passes \in Nat /\ passes <= MaxDepth + 1 /\ MaxDepth \in Nat
        /\ passes = MaxDepth + 1 \/ \A j \in 1 .. Len(rawTasks) : rawTasks[j].processed
    BY GanttAssumption DEF GanttInv
  <2>1. i \in 1 .. Len(rawTasks)
    BY <2>0, LenProperties DEF Positions, TasksGood
  <2>2. /\ Walk(i) = WalkOf(Wait, Len(rawTasks), i)
        /\ Walk(i).needs \in Nat
        /\ Wait[i] = Awaited(i)
    <3>1. Walk(i) = WalkOf(Wait, Len(rawTasks), i)
      BY <2>0, <2>1, WalkIs
    <3>2. Waits(Wait, Len(rawTasks)) /\ Wait[i] = WaitOf(rawTasks, i)
      BY <2>0, <2>1, WaitIs
    <3>3. WalkOf(Wait, Len(rawTasks), i).needs \in Nat
      BY <2>1, <3>2, WalkStep
    <3>4. Awaited(i) = WaitOf(rawTasks, i)
      BY <2>0, <2>1, AwaitedIs
    <3> QED
      BY <3>1, <3>2, <3>3, <3>4
  <2>3. rawTasks[i].processed <=> Walk(i).at = 0 /\ Walk(i).needs <= passes
    <3>1. i \in 0 + 1 .. Len(rawTasks)
      BY <2>1
    <3>2. rawTasks[i].processed <=> Timely(i, passes)
      BY <2>0, <3>1 DEF Compiled
    <3> QED
      BY <2>2, <3>2 DEF Timely
  <2>4. rawTasks[i].processed <=> Walk(i).at = 0 /\ Walk(i).needs <= MaxDepth + 1
    BY <2>0, <2>1, <2>2, <2>3
  <2>5. TimesRight(rawTasks, i)
    BY <2>0, <2>1 DEF Compiled
  <2>6. rawTasks[i].processed =>
          /\ rawTasks[i].startTime = StartOf(rawTasks, i)
          /\ rawTasks[i].endTime = EndTime(rawTasks[i], rawTasks[i].startTime)
    BY <2>5, Zenon DEF TimesRight
  <2>7. StartOf(rawTasks, i) =
          IF rawTasks[i].raw.type = "date" THEN Day
          ELSE IF Awaited(i) = 0 THEN Today ELSE rawTasks[Awaited(i)].endTime
    BY <2>2, Zenon DEF StartOf
  <2> QED
    BY <2>4, <2>6, <2>7, Zenon
<1> QED
  BY <1>1, GanttInvInit, GanttInvStep, PTL DEF GanttSpec

-----------------------------------------------------------------------------
\* The parents that the nodes of a flowchart get.

\* The names in a text, and the subgraphs that have ended.
Text == Vertex \cup ToSet(SubGraphIds) \cup {Blank}
Sub == [id : ToSet(SubGraphIds), nodes : Seq(Text), begun : Nat, around : Nat]

\* The subgraphs have the made names, in order, and name nothing twice.
SubsGood ==
  /\ subGraphs \in Seq(Sub)
  /\ Len(subGraphs) <= Len(SubGraphIds)
  /\ \A i \in 1 .. Len(subGraphs) :
       /\ subGraphs[i].id = SubGraphIds[i]
       /\ \A k, l \in 1 .. Len(subGraphs[i].nodes) :
            subGraphs[i].nodes[k] = subGraphs[i].nodes[l] => k = l

\* What the subgraphs have.
LEMMA SubIs ==
  ASSUME SubsGood
  PROVE  /\ Len(subGraphs) \in Nat /\ DOMAIN subGraphs = 1 .. Len(subGraphs)
         /\ \A i \in 1 .. Len(subGraphs) :
              /\ subGraphs[i].nodes \in Seq(Text)
              /\ Len(subGraphs[i].nodes) \in Nat
              /\ DOMAIN subGraphs[i].nodes = 1 .. Len(subGraphs[i].nodes)
              /\ subGraphs[i].begun \in Nat /\ subGraphs[i].around \in Nat
              /\ Named(i) = {subGraphs[i].nodes[k] : k \in 1 .. Len(subGraphs[i].nodes)}
         /\ \A i, j \in 1 .. Len(subGraphs) : subGraphs[i].id = subGraphs[j].id => i = j
<1>1. subGraphs \in Seq(Sub) /\ Len(subGraphs) \in Nat /\ DOMAIN subGraphs = 1 .. Len(subGraphs)
  BY LenProperties DEF SubsGood
<1>2. ASSUME NEW i \in 1 .. Len(subGraphs)
      PROVE  /\ subGraphs[i].nodes \in Seq(Text)
             /\ Len(subGraphs[i].nodes) \in Nat
             /\ DOMAIN subGraphs[i].nodes = 1 .. Len(subGraphs[i].nodes)
             /\ subGraphs[i].begun \in Nat /\ subGraphs[i].around \in Nat
             /\ Named(i) = {subGraphs[i].nodes[k] : k \in 1 .. Len(subGraphs[i].nodes)}
  <2>1. subGraphs[i] \in Sub
    BY <1>1, ElementOfSeq
  <2>2. /\ subGraphs[i].nodes \in Seq(Text)
        /\ subGraphs[i].begun \in Nat /\ subGraphs[i].around \in Nat
    BY <2>1 DEF Sub
  <2>3. /\ Len(subGraphs[i].nodes) \in Nat
        /\ DOMAIN subGraphs[i].nodes = 1 .. Len(subGraphs[i].nodes)
    BY <2>2, LenProperties
  <2> QED
    BY <2>2, <2>3 DEF Named, ToSet
<1>3. ASSUME NEW i \in 1 .. Len(subGraphs), NEW j \in 1 .. Len(subGraphs),
             subGraphs[i].id = subGraphs[j].id
      PROVE  i = j
  <2>1. Len(SubGraphIds) \in Nat /\ DOMAIN SubGraphIds = 1 .. Len(SubGraphIds)
    BY LenProperties, FlowAssumption
  <2>2. i \in DOMAIN SubGraphIds /\ j \in DOMAIN SubGraphIds
    BY <1>1, <2>1 DEF SubsGood
  <2>3. SubGraphIds[i] = SubGraphIds[j]
    BY <1>3 DEF SubsGood
  <2> QED
    BY <2>2, <2>3, FlowAssumption
<1> QED
  BY <1>1, <1>2, <1>3

-----------------------------------------------------------------------------
\* f is a function.
Mapping(f) == f = [w \in DOMAIN f |-> f[w]]

\* f, with v in id.
SetTo(f, v, id) ==
  [w \in DOMAIN f \cup {v, id} |-> IF w = v THEN id ELSE IF w \in DOMAIN f THEN f[w] ELSE Top]

\* setParent() of a node that is no ancestor.
LEMMA SetParentIs ==
  ASSUME NEW f, Mapping(f), NEW v, NEW id, v \notin Ancestors(f, id), NEW g,
         g = [parent |-> f, how |-> "none"]
  PROVE  SetParent(g, v, id) = [parent |-> SetTo(f, v, id), how |-> "none"]
<1> DEFINE h == SetNode(f, id)
           k == SetNode(h, v)
<1>1. h = [w \in DOMAIN f \cup {id} |-> IF w \in DOMAIN f THEN f[w] ELSE Top]
  BY DEF SetNode, Mapping
<1> HIDE DEF h
<1>2. k = [w \in DOMAIN f \cup {id, v} |-> IF w \in DOMAIN f THEN f[w] ELSE Top]
  BY <1>1 DEF SetNode
<1>3. SetParent(g, v, id) = [parent |-> [k EXCEPT ![v] = id], how |-> "none"]
  BY DEF SetParent, h
<1> HIDE DEF k
<1>4. [k EXCEPT ![v] = id] = SetTo(f, v, id)
  BY <1>2 DEF SetTo
<1> QED
  BY <1>3, <1>4

\* Each node has for a parent a subgraph that names it, if any.
Placing(f) ==
  \A b \in DOMAIN f :
    f[b] = Top \/ /\ f[b] \in DOMAIN f
                  /\ \E j \in 1 .. Len(subGraphs) : f[b] = subGraphs[j].id /\ b \in Named(j)

\* A subgraph that names what contains it is in a circle.
LEMMA CycleCircular ==
  ASSUME SubsGood, NEW f, Placing(f), NEW i \in 1 .. Len(subGraphs),
         NEW v \in Named(i), v \in Ancestors(f, subGraphs[i].id)
  PROVE  Circular
<1> DEFINE id == subGraphs[i].id
           ids == {subGraphs[j].id : j \in 1 .. Len(subGraphs)}
           names == DOMAIN f \cup {id}
           Full(T) == id \in T /\ \A a \in T \cap DOMAIN f : f[a] \in T \cup {Top}
           A == Ancestors(f, id)
           S == {j \in 1 .. Len(subGraphs) : subGraphs[j].id \in A}
<1>1. A = {a \in names : \A T \in SUBSET names : Full(T) => a \in T}
  BY DEF Ancestors
<1> HIDE DEF A
<1>2. id \in A /\ A \in SUBSET names
  BY <1>1
<1>3. ASSUME NEW T \in SUBSET names, Full(T)  PROVE A \subseteq T
  BY <1>1, <1>3
<1>4. \A b \in DOMAIN f : f[b] = Top \/ (f[b] \in names /\ f[b] \in ids)
  BY DEF Placing
<1>5. A \subseteq ids
  <2> DEFINE T == names \cap ids
  <2>1. Full(T)
    BY <1>4
  <2>2. T \in SUBSET names
    OBVIOUS
  <2> HIDE DEF T, Full, names, ids
  <2>3. A \subseteq T
    BY <1>3, <2>1, <2>2
  <2> QED
    BY <2>3 DEF T
<1>6. ASSUME NEW b \in A \cap DOMAIN f, f[b] # Top  PROVE f[b] \in A
  <2>1. f[b] \in names
    BY <1>4, <1>6
  <2>2. ASSUME NEW T \in SUBSET names, Full(T)  PROVE f[b] \in T
    <3>1. b \in T
      BY <1>1, <2>2
    <3> QED
      BY <1>6, <2>2, <3>1
  <2> HIDE DEF Full, names
  <2> QED
    BY <1>1, <2>1, <2>2
<1>7. ASSUME NEW a \in A, a # id
      PROVE  \E b \in A \cap DOMAIN f : f[b] = a /\ a # Top
  <2> SUFFICES ASSUME \A b \in A \cap DOMAIN f : ~(f[b] = a /\ a # Top)  PROVE FALSE
    OBVIOUS
  <2> DEFINE T == A \ {a}
  <2>1. T \in SUBSET names /\ id \in T
    BY <1>2, <1>7
  <2>2. ASSUME NEW b \in T \cap DOMAIN f  PROVE f[b] \in T \cup {Top}
    BY <1>6
  <2>3. Full(T)
    BY <2>1, <2>2
  <2>4. a \notin T
    OBVIOUS
  <2> HIDE DEF T, Full, names
  <2> QED
    BY <1>3, <1>7, <2>1, <2>3, <2>4
<1> HIDE DEF Full, names
<1>8. \A j, k \in 1 .. Len(subGraphs) : subGraphs[j].id = subGraphs[k].id => j = k
  BY SubIs
<1>9. ASSUME NEW b \in A  PROVE \E l \in S : b = subGraphs[l].id
  BY <1>5
<1>10. i \in S
  BY <1>2
<1>11. ASSUME NEW j \in S  PROVE \E l \in S : subGraphs[l].id \in Named(j)
  <2>1. CASE j = i
    <3>1. v \in A
      BY DEF A
    <3> QED
      BY <1>9, <2>1, <3>1
  <2>2. CASE j # i
    <3>1. subGraphs[j].id \in A /\ subGraphs[j].id # id
      BY <1>8, <2>2
    <3>2. PICK b \in A \cap DOMAIN f : f[b] = subGraphs[j].id /\ f[b] # Top
      BY <1>7, <3>1
    <3>3. PICK k \in 1 .. Len(subGraphs) : f[b] = subGraphs[k].id /\ b \in Named(k)
      BY <3>2 DEF Placing
    <3>4. k = j
      BY <1>8, <3>2, <3>3
    <3> QED
      BY <1>9, <3>2, <3>3, <3>4
  <2> QED
    BY <2>1, <2>2
<1>12. S \in (SUBSET DOMAIN subGraphs) \ {{}}
  BY <1>10, SubIs
<1> HIDE DEF S
<1> QED
  BY <1>11, <1>12 DEF Circular

\* The inner loop, name by name.
LEMMA SetParentsOfIs ==
  ASSUME NEW g, NEW i, Len(subGraphs[i].nodes) \in Nat
  PROVE  \E upTo :
           /\ upTo[0] = g
           /\ \A k \in 1 .. Len(subGraphs[i].nodes) :
                upTo[k] = SetParent(upTo[k - 1], subGraphs[i].nodes[k], subGraphs[i].id)
           /\ SetParentsOf(g, i) = upTo[Len(subGraphs[i].nodes)]
<1> DEFINE n == Len(subGraphs[i].nodes)
           F(k, h) == IF k = 0 THEN g
                      ELSE SetParent(h[k - 1], subGraphs[i].nodes[k], subGraphs[i].id)
           Is(m, h) == h = [k \in 0 .. m |-> F(k, h)]
           upTo == CHOOSE h : Is(n, h)
<1>1. SetParentsOf(g, i) = upTo[n]
  BY Zenon DEF SetParentsOf
<1>2. ASSUME NEW k \in Nat, NEW h, NEW l, k = 0 \/ h[k - 1] = l[k - 1]
      PROVE  F(k, h) = F(k, l)
  BY <1>2
<1>3. ASSUME NEW h  PROVE F(0, h) = g
  OBVIOUS
<1> HIDE DEF F
<1>4. \E h : Is(n, h)
  <2> DEFINE S == {m \in Nat : \E h : Is(m, h)}
  <2>1. 0 \in S
    <3> DEFINE h == [k \in 0 .. 0 |-> g]
    <3>1. Is(0, h)
      BY <1>3
    <3> HIDE DEF h
    <3> QED
      BY <3>1
  <2>2. ASSUME NEW m \in Nat, m \in S  PROVE m + 1 \in S
    <3>1. PICK h : Is(m, h)
      BY <2>2
    <3>2. \A k \in 0 .. m : h[k] = F(k, h)
      BY <3>1, Zenon
    <3> DEFINE l == [k \in 0 .. m + 1 |-> IF k = m + 1 THEN F(k, h) ELSE h[k]]
    <3>3. ASSUME NEW k \in 0 .. m + 1  PROVE l[k] = F(k, l)
      <4>1. k = 0 \/ h[k - 1] = l[k - 1]
        OBVIOUS
      <4>2. F(k, h) = F(k, l)
        BY <1>2, <4>1
      <4>3. l[k] = F(k, h)
        BY <3>2
      <4> QED
        BY <4>2, <4>3
    <3>4. Is(m + 1, l)
      BY <3>3
    <3> HIDE DEF l, Is
    <3> QED
      BY <3>4
  <2> HIDE DEF S
  <2>3. n \in S
    BY <2>1, <2>2, NatSetInduction
  <2> QED
    BY <2>3 DEF S
<1>5. Is(n, upTo)
  BY <1>4, Zenon
<1> HIDE DEF upTo
<1>6. \A k \in 0 .. n : upTo[k] = F(k, upTo)
  BY <1>5, Zenon
<1>7. upTo[0] = g
  BY <1>3, <1>6
<1>8. \A k \in 1 .. n :
        upTo[k] = SetParent(upTo[k - 1], subGraphs[i].nodes[k], subGraphs[i].id)
  BY <1>6 DEF F
<1> QED
  BY <1>1, <1>7, <1>8

\* The outer loop, subgraph by subgraph.
LEMMA SetParentsIs ==
  ASSUME Len(subGraphs) \in Nat
  PROVE  \E from :
           /\ from[0] = NoParents
           /\ \A k \in 1 .. Len(subGraphs) :
                from[k] = SetParentsOf(from[k - 1], Len(subGraphs) + 1 - k)
           /\ SetParents = from[Len(subGraphs)]
<1> DEFINE n == Len(subGraphs)
           F(k, h) == IF k = 0 THEN NoParents ELSE SetParentsOf(h[k - 1], n + 1 - k)
           Is(m, h) == h = [k \in 0 .. m |-> F(k, h)]
           from == CHOOSE h : Is(n, h)
<1>1. SetParents = from[n]
  BY Zenon DEF SetParents
<1>2. ASSUME NEW k \in Nat, NEW h, NEW l, k = 0 \/ h[k - 1] = l[k - 1]
      PROVE  F(k, h) = F(k, l)
  BY <1>2
<1>3. ASSUME NEW h  PROVE F(0, h) = NoParents
  OBVIOUS
<1> HIDE DEF F
<1>4. \E h : Is(n, h)
  <2> DEFINE S == {m \in Nat : \E h : Is(m, h)}
  <2>1. 0 \in S
    <3> DEFINE h == [k \in 0 .. 0 |-> NoParents]
    <3>1. Is(0, h)
      BY <1>3
    <3> HIDE DEF h
    <3> QED
      BY <3>1
  <2>2. ASSUME NEW m \in Nat, m \in S  PROVE m + 1 \in S
    <3>1. PICK h : Is(m, h)
      BY <2>2
    <3>2. \A k \in 0 .. m : h[k] = F(k, h)
      BY <3>1, Zenon
    <3> DEFINE l == [k \in 0 .. m + 1 |-> IF k = m + 1 THEN F(k, h) ELSE h[k]]
    <3>3. ASSUME NEW k \in 0 .. m + 1  PROVE l[k] = F(k, l)
      <4>1. k = 0 \/ h[k - 1] = l[k - 1]
        OBVIOUS
      <4>2. F(k, h) = F(k, l)
        BY <1>2, <4>1
      <4>3. l[k] = F(k, h)
        BY <3>2
      <4> QED
        BY <4>2, <4>3
    <3>4. Is(m + 1, l)
      BY <3>3
    <3> HIDE DEF l, Is
    <3> QED
      BY <3>4
  <2> HIDE DEF S
  <2>3. n \in S
    BY <2>1, <2>2, NatSetInduction
  <2> QED
    BY <2>3 DEF S
<1>5. Is(n, from)
  BY <1>4, Zenon
<1> HIDE DEF from
<1>6. \A k \in 0 .. n : from[k] = F(k, from)
  BY <1>5, Zenon
<1>7. from[0] = NoParents
  BY <1>3, <1>6
<1>8. \A k \in 1 .. n : from[k] = SetParentsOf(from[k - 1], n + 1 - k)
  BY <1>6 DEF F
<1> QED
  BY <1>1, <1>7, <1>8

\* The subgraphs that name v among those the loops have come over, when they are
\* at the k-th name of the i-th subgraph.
Already(i, k, v) ==
  {j \in i .. Len(subGraphs) : \E l \in 1 .. Len(subGraphs[j].nodes) :
     subGraphs[j].nodes[l] = v /\ (j > i \/ l <= k)}

\* Each node is where the first of them names it.
Placed(f, i, k) ==
  /\ Mapping(f)
  /\ \A v \in DOMAIN f :
       /\ Already(i, k, v) = {} => f[v] = Top
       /\ \A j \in Already(i, k, v) : (\A m \in Already(i, k, v) : j <= m) => f[v] = subGraphs[j].id
  /\ \A v : \A j \in Already(i, k, v) : v \in DOMAIN f /\ subGraphs[j].id \in DOMAIN f
  /\ \A v \in DOMAIN f :
       (\E j \in 1 .. Len(subGraphs) : v = subGraphs[j].id \/ v \in Named(j))

\* The graph when the loops are there.
Loop(g, i, k) ==
  \/ \E f : g = [parent |-> f, how |-> "none"] /\ Placed(f, i, k)
  \/ g.how = "cycle" /\ Circular

\* A node that is where it is named has such a parent.
LEMMA LoopPlacing ==
  ASSUME SubsGood, NEW i \in 1 .. Len(subGraphs), NEW k \in Nat, NEW f, Placed(f, i, k)
  PROVE  Placing(f)
<1> SUFFICES ASSUME NEW b \in DOMAIN f, f[b] # Top
             PROVE  /\ f[b] \in DOMAIN f
                    /\ \E j \in 1 .. Len(subGraphs) : f[b] = subGraphs[j].id /\ b \in Named(j)
  BY Zenon DEF Placing
<1> DEFINE S == Already(i, k, b)
<1>0. Len(subGraphs) \in Nat
  BY SubIs
<1>1. S # {}
  BY DEF Placed
<1>2. S \in SUBSET Nat
  BY <1>0 DEF Already
<1> HIDE DEF S
<1>3. PICK j \in S : \A m \in S : j <= m
  BY <1>1, <1>2, LeastElement
<1>4. j \in Already(i, k, b) /\ \A m \in Already(i, k, b) : j <= m
  BY <1>3 DEF S
<1>5. f[b] = subGraphs[j].id /\ subGraphs[j].id \in DOMAIN f
  BY <1>4 DEF Placed
<1>6. j \in 1 .. Len(subGraphs) /\ \E l \in 1 .. Len(subGraphs[j].nodes) : subGraphs[j].nodes[l] = b
  BY <1>0, <1>4 DEF Already
<1>7. b \in Named(j)
  BY <1>6, SubIs
<1> QED
  BY <1>5, <1>6, <1>7

\* One more name.
LEMMA LoopStep ==
  ASSUME SubsGood, NEW i \in 1 .. Len(subGraphs), NEW k \in 1 .. Len(subGraphs[i].nodes),
         NEW g, Loop(g, i, k - 1)
  PROVE  Loop(SetParent(g, subGraphs[i].nodes[k], subGraphs[i].id), i, k)
<1> DEFINE v == subGraphs[i].nodes[k]
           id == subGraphs[i].id
<1>0. /\ Len(subGraphs) \in Nat /\ Len(subGraphs[i].nodes) \in Nat /\ k - 1 \in Nat
      /\ v \in Named(i)
  BY SubIs
<1>1. CASE g.how = "cycle" /\ Circular
  <2>1. SetParent(g, v, id) = g
    BY <1>1 DEF SetParent
  <2> QED
    BY <1>1, <2>1 DEF Loop
<1>2. ASSUME NEW f, g = [parent |-> f, how |-> "none"], Placed(f, i, k - 1)
      PROVE  Loop(SetParent(g, v, id), i, k)
  <2>1. CASE v \in Ancestors(f, id)
    <3>1. Placing(f)
      BY <1>0, <1>2, LoopPlacing
    <3>2. Circular
      BY <1>0, <2>1, <3>1, CycleCircular
    <3>3. SetParent(g, v, id).how = "cycle"
      BY <1>2, <2>1 DEF SetParent
    <3> QED
      BY <3>2, <3>3 DEF Loop
  <2>2. CASE v \notin Ancestors(f, id)
    <3> DEFINE h == SetTo(f, v, id)
    <3>0. Mapping(f)
      BY <1>2 DEF Placed
    <3>1. SetParent(g, v, id) = [parent |-> h, how |-> "none"]
      BY <1>2, <2>2, <3>0, SetParentIs
    <3>2. /\ DOMAIN h = DOMAIN f \cup {v, id}
          /\ Mapping(h)
          /\ h[v] = id
          /\ \A w \in DOMAIN f : w # v => h[w] = f[w]
          /\ \A w \in DOMAIN h : w \notin DOMAIN f /\ w # v => w = id /\ h[w] = Top
      BY DEF SetTo, Mapping
    <3> HIDE DEF h
    <3>3. i \in Already(i, k, v) /\ \A m \in Already(i, k, v) : i <= m
      BY <1>0 DEF Already
    <3>4. \A w : w # v => Already(i, k, w) = Already(i, k - 1, w)
      <4> SUFFICES ASSUME NEW w, w # v  PROVE Already(i, k, w) = Already(i, k - 1, w)
        OBVIOUS
      <4>1. \A j \in i .. Len(subGraphs) : \A l \in 1 .. Len(subGraphs[j].nodes) :
              subGraphs[j].nodes[l] = w => ((j > i \/ l <= k) <=> (j > i \/ l <= k - 1))
        <5> SUFFICES ASSUME NEW j \in i .. Len(subGraphs),
                            NEW l \in 1 .. Len(subGraphs[j].nodes),
                            subGraphs[j].nodes[l] = w
                     PROVE  (j > i \/ l <= k) <=> (j > i \/ l <= k - 1)
          OBVIOUS
        <5>1. j = i => l # k
          OBVIOUS
        <5>2. l \in Nat /\ j \in Nat
          BY <1>0, SubIs
        <5> QED
          BY <1>0, <5>1, <5>2
      <4> QED
        BY <4>1 DEF Already
    <3>5. \A j \in Already(i, k, v) : subGraphs[j].id \in DOMAIN h
      <4> SUFFICES ASSUME NEW j \in Already(i, k, v)  PROVE subGraphs[j].id \in DOMAIN h
        OBVIOUS
      <4>1. CASE j = i
        BY <3>2, <4>1
      <4>2. CASE j # i
        <5>1. /\ j \in i .. Len(subGraphs)
              /\ \E l \in 1 .. Len(subGraphs[j].nodes) : subGraphs[j].nodes[l] = v
          BY DEF Already
        <5>2. j > i
          BY <1>0, <4>2, <5>1
        <5>3. j \in Already(i, k - 1, v)
          BY <5>1, <5>2 DEF Already
        <5> QED
          BY <1>2, <3>2, <5>3 DEF Placed
      <4> QED
        BY <4>1, <4>2
    <3>6. ASSUME NEW w \in DOMAIN h
          PROVE  /\ Already(i, k, w) = {} => h[w] = Top
                 /\ \A j \in Already(i, k, w) :
                      (\A m \in Already(i, k, w) : j <= m) => h[w] = subGraphs[j].id
                 /\ \E j \in 1 .. Len(subGraphs) : w = subGraphs[j].id \/ w \in Named(j)
      <4>1. CASE w = v
        <5>1. \A j \in Already(i, k, v) : (\A m \in Already(i, k, v) : j <= m) => j = i
          <6> SUFFICES ASSUME NEW j \in Already(i, k, v), \A m \in Already(i, k, v) : j <= m
                       PROVE  j = i
            OBVIOUS
          <6>1. j \in i .. Len(subGraphs)
            BY DEF Already
          <6>2. j <= i
            BY <3>3
          <6> QED
            BY <1>0, <6>1, <6>2
        <5> QED
          BY <1>0, <3>2, <3>3, <4>1, <5>1
      <4>2. CASE w # v /\ w \in DOMAIN f
        BY <1>2, <3>2, <3>4, <4>2 DEF Placed
      <4>3. CASE w # v /\ w \notin DOMAIN f
        <5>1. w = id /\ h[w] = Top
          BY <3>2, <4>3
        <5>2. Already(i, k, w) = {}
          BY <1>2, <3>4, <4>3 DEF Placed
        <5> QED
          BY <5>1, <5>2
      <4> QED
        BY <4>1, <4>2, <4>3
    <3>7. \A w : \A j \in Already(i, k, w) : w \in DOMAIN h /\ subGraphs[j].id \in DOMAIN h
      <4> SUFFICES ASSUME NEW w, NEW j \in Already(i, k, w)
                   PROVE  w \in DOMAIN h /\ subGraphs[j].id \in DOMAIN h
        OBVIOUS
      <4>1. CASE w = v
        BY <3>2, <3>5, <4>1
      <4>2. CASE w # v
        BY <1>2, <3>2, <3>4, <4>2 DEF Placed
      <4> QED
        BY <4>1, <4>2
    <3>8. Placed(h, i, k)
      BY <3>2, <3>6, <3>7 DEF Placed
    <3> QED
      BY <3>1, <3>8 DEF Loop
  <2> QED
    BY <2>1, <2>2
<1> QED
  BY <1>1, <1>2 DEF Loop

\* All names of a subgraph.
LEMMA LoopOf ==
  ASSUME SubsGood, NEW i \in 1 .. Len(subGraphs), NEW g, Loop(g, i, 0)
  PROVE  Loop(SetParentsOf(g, i), i - 1, 0)
<1> DEFINE n == Len(subGraphs[i].nodes)
<1>0. n \in Nat /\ Len(subGraphs) \in Nat /\ i \in Nat
  BY SubIs
<1>1. PICK upTo : /\ upTo[0] = g
                  /\ \A k \in 1 .. n : upTo[k] = SetParent(upTo[k - 1], subGraphs[i].nodes[k],
                                                           subGraphs[i].id)
                  /\ SetParentsOf(g, i) = upTo[n]
  BY <1>0, SetParentsOfIs
<1> DEFINE S == {k \in Nat : k <= n => Loop(upTo[k], i, k)}
<1>2. 0 \in S
  BY <1>1
<1>3. ASSUME NEW k \in Nat, k \in S  PROVE k + 1 \in S
  <2> SUFFICES ASSUME k + 1 <= n  PROVE Loop(upTo[k + 1], i, k + 1)
    OBVIOUS
  <2> DEFINE c == k + 1
  <2>1. c \in 1 .. n /\ c - 1 = k /\ k <= n
    BY <1>0
  <2>2. Loop(upTo[c - 1], i, c - 1)
    BY <1>3, <2>1
  <2> HIDE DEF c, S
  <2>3. upTo[c] = SetParent(upTo[c - 1], subGraphs[i].nodes[c], subGraphs[i].id)
    BY <1>1, <2>1
  <2>4. Loop(upTo[c], i, c)
    BY <2>1, <2>2, <2>3, LoopStep
  <2> QED
    BY <2>4 DEF c
<1> HIDE DEF S
<1>4. n \in S
  BY <1>0, <1>2, <1>3, NatSetInduction
<1>5. Loop(upTo[n], i, n)
  BY <1>0, <1>4 DEF S
<1>6. \A v : Already(i, n, v) = Already(i - 1, 0, v)
  <2> SUFFICES ASSUME NEW v  PROVE Already(i, n, v) = Already(i - 1, 0, v)
    OBVIOUS
  <2>1. ASSUME NEW j  PROVE j \in Already(i, n, v) <=> j \in Already(i - 1, 0, v)
    <3>1. CASE j \in i .. Len(subGraphs)
      <4>1. j \in i - 1 .. Len(subGraphs) /\ j > i - 1 /\ (j > i \/ j = i)
        BY <1>0, <3>1
      <4>2. j = i => \A l \in 1 .. Len(subGraphs[j].nodes) : l <= n
        BY <1>0
      <4> HIDE DEF n
      <4> QED
        BY <3>1, <4>1, <4>2 DEF Already
    <3>2. CASE j \notin i .. Len(subGraphs)
      <4>1. j \notin Already(i, n, v)
        BY <3>2 DEF Already
      <4>2. j \in i - 1 .. Len(subGraphs) => ~(j > i - 1)
        BY <1>0, <3>2
      <4>3. \A l \in 1 .. Len(subGraphs[j].nodes) : ~(l <= 0)
        OBVIOUS
      <4> QED
        BY <4>1, <4>2, <4>3 DEF Already
    <3> QED
      BY <3>1, <3>2
  <2> QED
    BY <2>1
<1> HIDE DEF n
<1>7. ASSUME NEW f, Placed(f, i, n)  PROVE Placed(f, i - 1, 0)
  BY <1>6, <1>7 DEF Placed
<1> QED
  BY <1>1, <1>5, <1>7 DEF Loop

\* In the end each node is in the first subgraph that names it, unless there is
\* a circle.
LEMMA ParentsRight ==
  ASSUME SubsGood
  PROVE  Loop(SetParents, 0, 0)
<1> DEFINE n == Len(subGraphs)
<1>0. n \in Nat
  BY SubIs
<1>1. PICK from : /\ from[0] = NoParents
                  /\ \A k \in 1 .. n : from[k] = SetParentsOf(from[k - 1], n + 1 - k)
                  /\ SetParents = from[n]
  BY <1>0, SetParentsIs
<1> DEFINE S == {k \in Nat : k <= n => Loop(from[k], n - k, 0)}
<1>2. 0 \in S
  <2>1. n - 0 = n
    BY <1>0
  <2>2. Placed(<< >>, n, 0)
    <3>1. \A v : Already(n, 0, v) = {}
      <4> SUFFICES ASSUME NEW v, NEW j \in Already(n, 0, v)  PROVE FALSE
        OBVIOUS
      <4>1. j \in n .. n /\ \E l \in 1 .. Len(subGraphs[j].nodes) : j > n \/ l <= 0
        BY DEF Already
      <4> QED
        BY <1>0, <4>1
    <3>2. Mapping(<< >>) /\ DOMAIN << >> = {}
      BY DEF Mapping
    <3> QED
      BY <3>1, <3>2 DEF Placed
  <2>3. from[0] = [parent |-> << >>, how |-> "none"]
    BY <1>1 DEF NoParents
  <2> HIDE DEF n
  <2>4. Loop(from[0], n, 0)
    BY <2>2, <2>3 DEF Loop
  <2> QED
    BY <2>1, <2>4
<1>3. ASSUME NEW k \in Nat, k \in S  PROVE k + 1 \in S
  <2> SUFFICES ASSUME k + 1 <= n  PROVE Loop(from[k + 1], n - (k + 1), 0)
    OBVIOUS
  <2> DEFINE i == n - k
  <2>1. /\ i \in 1 .. n /\ k + 1 \in 1 .. n /\ (k + 1) - 1 = k /\ n + 1 - (k + 1) = i
        /\ n - (k + 1) = i - 1 /\ k <= n
    BY <1>0
  <2>2. Loop(from[k], i, 0)
    BY <1>3, <2>1
  <2>3. from[k + 1] = SetParentsOf(from[k], i)
    BY <1>1, <2>1
  <2> HIDE DEF i, S
  <2>4. Loop(from[k + 1], i - 1, 0)
    BY <2>1, <2>2, <2>3, LoopOf
  <2> QED
    BY <2>1, <2>4
<1> HIDE DEF S
<1>4. n \in S
  BY <1>0, <1>2, <1>3, NatSetInduction
<1>5. Loop(from[n], n - n, 0) /\ n - n = 0
  BY <1>0, <1>4 DEF S
<1> QED
  BY <1>1, <1>5

-----------------------------------------------------------------------------
\* The subgraphs that one calls.

\* The list c, and the subgraph with the k-th name of the i-th, if there is one.
WithCall(c, i, k) ==
  LET child == {j \in DOMAIN subGraphs : subGraphs[j].id = subGraphs[i].nodes[k]}
  IN  IF child = {} THEN c ELSE Append(c, CHOOSE j \in child : TRUE)

\* getPosForId(), name by name.
LEMMA CalledFrom ==
  ASSUME NEW i, Len(subGraphs[i].nodes) \in Nat
  PROVE  \E called :
           /\ called[0] = << >>
           /\ \A k \in 1 .. Len(subGraphs[i].nodes) :
                called[k] = WithCall(called[k - 1], i, k)
           /\ Called(i) = called[Len(subGraphs[i].nodes)]
<1> DEFINE n == Len(subGraphs[i].nodes)
           F(k, h) == IF k = 0 THEN << >> ELSE WithCall(h[k - 1], i, k)
           Is(m, h) == h = [k \in 0 .. m |-> F(k, h)]
           called == CHOOSE h : Is(n, h)
<1>1. Called(i) = called[n]
  BY Zenon DEF Called, WithCall
<1>2. ASSUME NEW k \in Nat, NEW h, NEW l, k = 0 \/ h[k - 1] = l[k - 1]
      PROVE  F(k, h) = F(k, l)
  BY <1>2
<1>3. ASSUME NEW h  PROVE F(0, h) = << >>
  OBVIOUS
<1> HIDE DEF F
<1>4. \E h : Is(n, h)
  <2> DEFINE S == {m \in Nat : \E h : Is(m, h)}
  <2>1. 0 \in S
    <3> DEFINE h == [k \in 0 .. 0 |-> << >>]
    <3>1. Is(0, h)
      BY <1>3
    <3> HIDE DEF h
    <3> QED
      BY <3>1
  <2>2. ASSUME NEW m \in Nat, m \in S  PROVE m + 1 \in S
    <3>1. PICK h : Is(m, h)
      BY <2>2
    <3>2. \A k \in 0 .. m : h[k] = F(k, h)
      BY <3>1, Zenon
    <3> DEFINE l == [k \in 0 .. m + 1 |-> IF k = m + 1 THEN F(k, h) ELSE h[k]]
    <3>3. ASSUME NEW k \in 0 .. m + 1  PROVE l[k] = F(k, l)
      <4>1. k = 0 \/ h[k - 1] = l[k - 1]
        OBVIOUS
      <4>2. F(k, h) = F(k, l)
        BY <1>2, <4>1
      <4>3. l[k] = F(k, h)
        BY <3>2
      <4> QED
        BY <4>2, <4>3
    <3>4. Is(m + 1, l)
      BY <3>3
    <3> HIDE DEF l, Is
    <3> QED
      BY <3>4
  <2> HIDE DEF S
  <2>3. n \in S
    BY <2>1, <2>2, NatSetInduction
  <2> QED
    BY <2>3 DEF S
<1>5. Is(n, called)
  BY <1>4, Zenon
<1> HIDE DEF called
<1>6. \A k \in 0 .. n : called[k] = F(k, called)
  BY <1>5, Zenon
<1>7. called[0] = << >>
  BY <1>3, <1>6
<1>8. \A k \in 1 .. n : called[k] = WithCall(called[k - 1], i, k)
  BY <1>6 DEF F
<1> QED
  BY <1>1, <1>7, <1>8

\* The list c has the subgraphs with the first k names of the i-th, each once.
Calls(c, i, k) ==
  /\ c \in Seq(1 .. Len(subGraphs))
  /\ \A q \in 1 .. Len(c) : \E l \in 1 .. k : subGraphs[i].nodes[l] = subGraphs[c[q]].id
  /\ \A j \in 1 .. Len(subGraphs) : \A l \in 1 .. k :
       subGraphs[i].nodes[l] = subGraphs[j].id => \E q \in 1 .. Len(c) : c[q] = j
  /\ \A q, r \in 1 .. Len(c) : c[q] = c[r] => q = r

\* One more name.
LEMMA CallsStep ==
  ASSUME SubsGood, NEW i \in 1 .. Len(subGraphs), NEW k \in 1 .. Len(subGraphs[i].nodes),
         NEW c, Calls(c, i, k - 1), NEW d,
         d = WithCall(c, i, k)
  PROVE  Calls(d, i, k)
<1> DEFINE n == Len(subGraphs)
           nodes == subGraphs[i].nodes
           child == {j \in DOMAIN subGraphs : subGraphs[j].id = nodes[k]}
<1>0. /\ n \in Nat /\ Len(nodes) \in Nat /\ k \in Nat /\ DOMAIN subGraphs = 1 .. n
      /\ k - 1 \in Nat
      /\ \A j, m \in 1 .. n : subGraphs[j].id = subGraphs[m].id => j = m
      /\ \A a, b \in 1 .. Len(nodes) : nodes[a] = nodes[b] => a = b
      /\ c \in Seq(1 .. n) /\ Len(c) \in Nat
  BY SubIs, LenProperties DEF SubsGood, Calls
<1>1. CASE child = {}
  <2>1. d = c
    BY <1>1, Zenon DEF WithCall
  <2>2. \A j \in 1 .. n : nodes[k] # subGraphs[j].id
    BY <1>0, <1>1
  <2>3. ASSUME NEW l \in 1 .. k, NEW j \in 1 .. n, nodes[l] = subGraphs[j].id
        PROVE  l \in 1 .. k - 1
    <3>1. l # k
      BY <2>2, <2>3
    <3> QED
      BY <1>0, <3>1
  <2>4. \A l \in 1 .. k - 1 : l \in 1 .. k
    BY <1>0
  <2> HIDE DEF child, n, nodes
  <2> QED
    BY <2>1, <2>3, <2>4 DEF Calls, n, nodes
<1>2. CASE child # {}
  <2> DEFINE e == CHOOSE j \in child : TRUE
  <2>1. e \in child /\ d = Append(c, e)
    <3>1. d = Append(c, e)
      BY <1>2, Zenon DEF WithCall
    <3> QED
      BY <1>2, <3>1, Zenon
  <2>2. e \in 1 .. n /\ subGraphs[e].id = nodes[k]
    BY <1>0, <2>1
  <2> HIDE DEF e, child
  <2> HIDE DEF n, nodes
  <2>00. c \in Seq(1 .. n) /\ Len(c) \in Nat /\ k \in 1 .. k
    BY <1>0 DEF nodes
  <2>3. /\ d \in Seq(1 .. n) /\ Len(d) = Len(c) + 1
        /\ d[Len(c) + 1] = e
        /\ \A q \in 1 .. Len(c) : d[q] = c[q]
    BY <2>00, <2>1, <2>2
  <2>4. ASSUME NEW q \in 1 .. Len(d)  PROVE \E l \in 1 .. k : nodes[l] = subGraphs[d[q]].id
    <3>1. CASE q = Len(c) + 1
      BY <2>00, <2>2, <2>3, <3>1
    <3>2. CASE q # Len(c) + 1
      <4>1. q \in 1 .. Len(c)
        BY <1>0, <2>3, <3>2
      <4>2. PICK l \in 1 .. k - 1 : nodes[l] = subGraphs[c[q]].id
        BY <4>1 DEF Calls, nodes
      <4>3. l \in 1 .. k
        BY <1>0
      <4> QED
        BY <2>3, <4>1, <4>2, <4>3
    <3> QED
      BY <3>1, <3>2
  <2>5. ASSUME NEW j \in 1 .. n, NEW l \in 1 .. k, nodes[l] = subGraphs[j].id
        PROVE  \E q \in 1 .. Len(d) : d[q] = j
    <3>1. CASE l = k
      <4>1. j = e
        BY <1>0, <2>2, <2>5, <3>1
      <4>2. Len(c) + 1 \in 1 .. Len(d)
        BY <1>0, <2>3
      <4> QED
        BY <2>3, <4>1, <4>2
    <3>2. CASE l # k
      <4>1. l \in 1 .. k - 1
        BY <1>0, <3>2
      <4>2. PICK q \in 1 .. Len(c) : c[q] = j
        BY <2>5, <4>1 DEF Calls, nodes, n
      <4>3. q \in 1 .. Len(d)
        BY <2>00, <2>3
      <4>4. d[q] = j
        BY <2>3, <4>2
      <4> QED
        BY <4>3, <4>4
    <3> QED
      BY <3>1, <3>2
  <2>6. ASSUME NEW q \in 1 .. Len(c), c[q] = e  PROVE FALSE
    <3>1. PICK l \in 1 .. k - 1 : nodes[l] = subGraphs[c[q]].id
      BY DEF Calls, nodes
    <3>2. nodes[l] = nodes[k]
      BY <2>2, <2>6, <3>1
    <3>3. l \in 1 .. Len(nodes) /\ k \in 1 .. Len(nodes) /\ l # k
      BY <1>0 DEF nodes
    <3> QED
      BY <1>0, <3>2, <3>3
  <2>7. ASSUME NEW q \in 1 .. Len(d), NEW r \in 1 .. Len(d), d[q] = d[r]  PROVE q = r
    <3>1. (q = Len(c) + 1 \/ q \in 1 .. Len(c)) /\ (r = Len(c) + 1 \/ r \in 1 .. Len(c))
      BY <2>00, <2>3
    <3>2. CASE q \in 1 .. Len(c) /\ r \in 1 .. Len(c)
      <4>1. c[q] = c[r]
        BY <2>3, <2>7, <3>2
      <4> QED
        BY <3>2, <4>1 DEF Calls
    <3>3. CASE q = Len(c) + 1 /\ r \in 1 .. Len(c)
      BY <2>3, <2>6, <2>7, <3>3
    <3>4. CASE r = Len(c) + 1 /\ q \in 1 .. Len(c)
      BY <2>3, <2>6, <2>7, <3>4
    <3> QED
      BY <3>1, <3>2, <3>3, <3>4
  <2> QED
    BY <2>3, <2>4, <2>5, <2>7 DEF Calls, n, nodes
<1> QED
  BY <1>1, <1>2

\* getPosForId() finds each subgraph that is named, once.
LEMMA CalledIs ==
  ASSUME SubsGood, NEW i \in 1 .. Len(subGraphs)
  PROVE  /\ Called(i) \in Seq(1 .. Len(subGraphs)) /\ Len(Called(i)) \in Nat
         /\ \A q \in 1 .. Len(Called(i)) :
              /\ Called(i)[q] \in 1 .. Len(subGraphs)
              /\ subGraphs[Called(i)[q]].id \in Named(i)
         /\ \A j \in 1 .. Len(subGraphs) :
              subGraphs[j].id \in Named(i) => \E q \in 1 .. Len(Called(i)) : Called(i)[q] = j
         /\ \A q, r \in 1 .. Len(Called(i)) : Called(i)[q] = Called(i)[r] => q = r
<1> DEFINE n == Len(subGraphs[i].nodes)
<1>0. n \in Nat
  BY SubIs
<1>1. PICK called :
        /\ called[0] = << >>
        /\ \A k \in 1 .. n :
             called[k] = WithCall(called[k - 1], i, k)
        /\ Called(i) = called[n]
  BY <1>0, CalledFrom
<1> DEFINE S == {k \in Nat : k <= n => Calls(called[k], i, k)}
<1>2. 0 \in S
  <2>1. << >> \in Seq(1 .. Len(subGraphs)) /\ Len(<< >>) = 0
    OBVIOUS
  <2>2. Calls(<< >>, i, 0)
    BY <2>1 DEF Calls
  <2> QED
    BY <1>1, <2>2
<1>3. ASSUME NEW k \in Nat, k \in S  PROVE k + 1 \in S
  <2> SUFFICES ASSUME k + 1 <= n  PROVE Calls(called[k + 1], i, k + 1)
    OBVIOUS
  <2> DEFINE c == k + 1
  <2>1. c \in 1 .. n /\ c - 1 = k /\ k <= n
    BY <1>0
  <2>2. Calls(called[c - 1], i, c - 1)
    BY <1>3, <2>1
  <2> HIDE DEF c, S
  <2>3. called[c] = WithCall(called[c - 1], i, c)
    BY <1>1, <2>1
  <2>4. Calls(called[c], i, c)
    BY <2>1, <2>2, <2>3, CallsStep
  <2> QED
    BY <2>4 DEF c
<1> HIDE DEF S
<1>4. n \in S
  BY <1>0, <1>2, <1>3, NatSetInduction
<1>5. Calls(Called(i), i, n)
  BY <1>0, <1>1, <1>4 DEF S
<1>6. Named(i) = {subGraphs[i].nodes[k] : k \in 1 .. n}
  BY SubIs
<1>7. Called(i) \in Seq(1 .. Len(subGraphs)) /\ Len(Called(i)) \in Nat
  BY <1>5, LenProperties DEF Calls
<1>8. \A q \in 1 .. Len(Called(i)) : Called(i)[q] \in 1 .. Len(subGraphs)
  BY <1>7, ElementOfSeq
<1>9. ASSUME NEW q \in 1 .. Len(Called(i))  PROVE subGraphs[Called(i)[q]].id \in Named(i)
  <2> DEFINE id == subGraphs[Called(i)[q]].id
  <2>1. \E l \in 1 .. n : subGraphs[i].nodes[l] = id
    BY <1>5 DEF Calls
  <2> HIDE DEF id
  <2>2. id \in Named(i)
    BY <1>6, <2>1
  <2> QED
    BY <2>2 DEF id
<1>10. ASSUME NEW j \in 1 .. Len(subGraphs), subGraphs[j].id \in Named(i)
       PROVE  \E q \in 1 .. Len(Called(i)) : Called(i)[q] = j
  <2>1. PICK l \in 1 .. n : subGraphs[i].nodes[l] = subGraphs[j].id
    BY <1>6, <1>10
  <2> QED
    BY <1>5, <2>1 DEF Calls
<1>11. \A q, r \in 1 .. Len(Called(i)) : Called(i)[q] = Called(i)[r] => q = r
  BY <1>5 DEF Calls
<1> QED
  BY <1>7, <1>8, <1>9, <1>10, <1>11

-----------------------------------------------------------------------------
\* The calls that are still to come.

\* What a call leaves to be called.
Onto(t) == IF t = << >> THEN t ELSE Called(Head(t)) \o Tail(t)
\* f[c] is what is left to be called after c calls.
Steps(f, m) == \A c \in 1 .. m : f[c] = Onto(f[c - 1])

\* indexNodes2(), call by call, and as far as it is wanted.
LEMMA IndexIs ==
  ASSUME NEW d \in Nat
  PROVE  \E f : /\ f[0] = <<Len(subGraphs)>>
                /\ Steps(f, MaxSections + d)
                /\ f[MaxSections] = IndexNodes2
<1> DEFINE n == MaxSections
           F(k, h) == IF k = 0 THEN <<Len(subGraphs)>> ELSE Onto(h[k - 1])
           Is(m, h) == h = [k \in 0 .. m |-> F(k, h)]
           todo == CHOOSE h : Is(n, h)
<1>0. n \in Nat
  BY FlowAssumption
<1>1. IndexNodes2 = todo[n]
  BY Zenon DEF IndexNodes2, Onto
<1>2. ASSUME NEW k \in Nat, NEW h, NEW l, k = 0 \/ h[k - 1] = l[k - 1]
      PROVE  F(k, h) = F(k, l)
  BY <1>2
<1>3. ASSUME NEW h  PROVE F(0, h) = <<Len(subGraphs)>>
  OBVIOUS
<1> HIDE DEF F, n
<1>4. \E h : Is(n, h)
  <2> DEFINE S == {m \in Nat : \E h : Is(m, h)}
  <2>1. 0 \in S
    <3> DEFINE h == [k \in 0 .. 0 |-> <<Len(subGraphs)>>]
    <3>1. Is(0, h)
      BY <1>3
    <3> HIDE DEF h
    <3> QED
      BY <3>1
  <2>2. ASSUME NEW m \in Nat, m \in S  PROVE m + 1 \in S
    <3>1. PICK h : Is(m, h)
      BY <2>2
    <3>2. \A k \in 0 .. m : h[k] = F(k, h)
      BY <3>1, Zenon
    <3> DEFINE l == [k \in 0 .. m + 1 |-> IF k = m + 1 THEN F(k, h) ELSE h[k]]
    <3>3. ASSUME NEW k \in 0 .. m + 1  PROVE l[k] = F(k, l)
      <4>1. k = 0 \/ h[k - 1] = l[k - 1]
        OBVIOUS
      <4>2. F(k, h) = F(k, l)
        BY <1>2, <4>1
      <4>3. l[k] = F(k, h)
        BY <3>2
      <4> QED
        BY <4>2, <4>3
    <3>4. Is(m + 1, l)
      BY <3>3
    <3> HIDE DEF l, Is
    <3> QED
      BY <3>4
  <2> HIDE DEF S
  <2>3. n \in S
    BY <1>0, <2>1, <2>2, NatSetInduction
  <2> QED
    BY <2>3 DEF S
<1>5. Is(n, todo)
  BY <1>4, Zenon
<1> HIDE DEF todo
<1>6. \A k \in 0 .. n : todo[k] = F(k, todo)
  BY <1>5, Zenon
<1>7. todo[0] = <<Len(subGraphs)>>
  BY <1>0, <1>3, <1>6
<1>8. \A k \in 1 .. n : todo[k] = Onto(todo[k - 1])
  BY <1>0, <1>6 DEF F
<1> DEFINE T == {m \in Nat : \E f : /\ f[0] = <<Len(subGraphs)>>
                                    /\ Steps(f, n + m)
                                    /\ f[n] = IndexNodes2}
<1>9. 0 \in T
  <2>1. n + 0 = n
    BY <1>0
  <2> QED
    BY <1>1, <1>7, <1>8, <2>1 DEF Steps
<1>10. ASSUME NEW m \in Nat, m \in T  PROVE m + 1 \in T
  <2>1. PICK f : f[0] = <<Len(subGraphs)>> /\ Steps(f, n + m) /\ f[n] = IndexNodes2
    BY <1>10
  <2> DEFINE k == n + (m + 1)
             l == [c \in 0 .. k |-> IF c = k THEN Onto(f[k - 1]) ELSE f[c]]
  <2>2. k \in Nat /\ k # 0 /\ n # k /\ n \in 0 .. k /\ 0 \in 0 .. k /\ k - 1 = n + m
    BY <1>0
  <2> HIDE DEF k
  <2>3. l[0] = f[0] /\ l[n] = f[n]
    BY <2>2
  <2>4. ASSUME NEW c \in 1 .. k  PROVE l[c] = Onto(l[c - 1])
    <3>1. l[c - 1] = f[c - 1]
      BY <2>2
    <3>2. CASE c = k
      BY <2>2, <3>1, <3>2
    <3>3. CASE c # k
      <4>1. c \in 1 .. n + m
        BY <2>2, <3>3
      <4>2. f[c] = Onto(f[c - 1])
        BY <2>1, <4>1 DEF Steps
      <4>3. l[c] = f[c]
        BY <2>2, <3>3
      <4> QED
        BY <3>1, <4>2, <4>3
    <3> QED
      BY <3>2, <3>3
  <2> HIDE DEF l
  <2>5. Steps(l, k)
    BY <2>4 DEF Steps
  <2> QED
    BY <2>1, <2>3, <2>5 DEF k
<1> HIDE DEF T
<1>11. d \in T
  BY <1>9, <1>10, NatSetInduction
<1> QED
  BY <1>11 DEF T, n

\* Once there is nothing left to be called, it stays so.
LEMMA StepsEnd ==
  ASSUME NEW f, NEW m \in Nat, Steps(f, m), NEW c \in Nat, f[c] = << >>,
         NEW d \in Nat, c <= d, d <= m
  PROVE  f[d] = << >>
<1> DEFINE S == {k \in Nat : c + k <= m => f[c + k] = << >>}
<1>1. 0 \in S
  OBVIOUS
<1>2. ASSUME NEW k \in Nat, k \in S  PROVE k + 1 \in S
  <2> SUFFICES ASSUME c + (k + 1) <= m  PROVE f[c + (k + 1)] = << >>
    OBVIOUS
  <2>1. f[c + k] = << >>
    BY <1>2
  <2>2. c + (k + 1) \in 1 .. m /\ (c + (k + 1)) - 1 = c + k
    OBVIOUS
  <2>3. f[c + (k + 1)] = Onto(f[c + k])
    BY <2>2 DEF Steps
  <2> QED
    BY <2>1, <2>3 DEF Onto
<1>3. d - c \in Nat /\ c + (d - c) = d
  OBVIOUS
<1> HIDE DEF S
<1>4. d - c \in S
  BY <1>1, <1>2, <1>3, NatSetInduction
<1> QED
  BY <1>3, <1>4 DEF S

-----------------------------------------------------------------------------
\* Subgraphs each of which names the next one.
Linked(p, i) ==
  /\ p \in Seq(1 .. Len(subGraphs)) /\ Len(p) > 0 /\ p[1] = i
  /\ \A k \in 2 .. Len(p) : subGraphs[p[k]].id \in Named(p[k - 1])

\* The chains are the rows that are no longer than there are subgraphs.
LEMMA ChainIs ==
  ASSUME SubsGood, NEW i, NEW p
  PROVE  p \in Chains(i) <=> Linked(p, i) /\ Len(p) <= Len(subGraphs)
<1> DEFINE n == Len(subGraphs)
<1>0. n \in Nat /\ DOMAIN subGraphs = 1 .. n
  BY SubIs
<1> HIDE DEF n
<1>1. ASSUME NEW k \in Nat, NEW q \in [1 .. k -> 1 .. n]
      PROVE  q \in Seq(1 .. n) /\ Len(q) = k
  <2>1. q \in Seq(1 .. n)
    BY SeqDef
  <2>2. Len(q) \in Nat /\ DOMAIN q = 1 .. Len(q) /\ DOMAIN q = 1 .. k
    BY <2>1, LenProperties
  <2> QED
    BY <2>1, <2>2
<1>2. ASSUME NEW q \in Seq(1 .. n)  PROVE q \in [1 .. Len(q) -> 1 .. n] /\ Len(q) \in Nat
  BY LenProperties
<1>3. p \in UNION {[1 .. k -> 1 .. n] : k \in 1 .. n}
        <=> p \in Seq(1 .. n) /\ Len(p) > 0 /\ Len(p) <= n
  <2>1. ASSUME NEW k \in 1 .. n, p \in [1 .. k -> 1 .. n]
        PROVE  p \in Seq(1 .. n) /\ Len(p) > 0 /\ Len(p) <= n
    <3>1. k \in Nat /\ k > 0 /\ k <= n
      BY <1>0
    <3> QED
      BY <1>1, <2>1, <3>1
  <2>2. ASSUME p \in Seq(1 .. n), Len(p) > 0, Len(p) <= n
        PROVE  Len(p) \in 1 .. n /\ p \in [1 .. Len(p) -> 1 .. n]
    BY <1>0, <1>2, <2>2
  <2> QED
    BY <2>1, <2>2
<1> QED
  BY <1>0, <1>3 DEF Chains, Linked, n

\* Without a circle no subgraph is in such a row twice.
LEMMA ChainShort ==
  ASSUME SubsGood, ~Circular, NEW i, NEW p, Linked(p, i)
  PROVE  Len(p) <= Len(subGraphs)
<1> DEFINE n == Len(subGraphs)
           m == Len(p)
<1> SUFFICES ASSUME m > n  PROVE FALSE
  BY SubIs, LenProperties DEF Linked
<1>0. /\ n \in Nat /\ m \in Nat /\ m > n /\ DOMAIN subGraphs = 1 .. n
      /\ p \in [1 .. m -> 1 .. n]
      /\ \A k \in 2 .. m : subGraphs[p[k]].id \in Named(p[k - 1])
  BY SubIs, LenProperties DEF Linked
<1> HIDE DEF n, m
<1>1. PICK x \in 1 .. m, y \in 1 .. m : x < y /\ p[x] = p[y]
  <2> DEFINE S == 1 .. m
             T == 1 .. n
  <2>1. IsFiniteSet(S) /\ Cardinality(S) = m /\ IsFiniteSet(T) /\ Cardinality(T) = n
    <3>1. \A a, b \in Int : /\ IsFiniteSet(a .. b)
                            /\ Cardinality(a .. b) = IF a > b THEN 0 ELSE b - a + 1
      BY FS_Interval, Zenon
    <3>2. 1 \in Int /\ n \in Int /\ m \in Int /\ n >= 0 /\ m >= 0
      BY <1>0
    <3>3. IsFiniteSet(S) /\ Cardinality(S) = IF 1 > m THEN 0 ELSE m - 1 + 1
      BY <3>1, <3>2, Zenon
    <3>4. IsFiniteSet(T) /\ Cardinality(T) = IF 1 > n THEN 0 ELSE n - 1 + 1
      BY <3>1, <3>2, Zenon
    <3> HIDE DEF S, T
    <3> QED
      BY <3>2, <3>3, <3>4
  <2>2. p \in [S -> T]
    BY <1>0
  <2> HIDE DEF S, T
  <2>3. Cardinality(T) < Cardinality(S)
    BY <1>0, <2>1
  <2>4. \E x, y \in S : x # y /\ p[x] = p[y]
    BY <2>1, <2>2, <2>3, FS_PigeonHole
  <2>5. PICK x \in S, y \in S : x # y /\ p[x] = p[y]
    BY <2>4
  <2>6. x \in 1 .. m /\ y \in 1 .. m
    BY DEF S
  <2> QED
    BY <1>0, <2>5, <2>6
<1> DEFINE C == {p[k] : k \in x .. y - 1}
<1>2. C \in SUBSET (1 .. n) /\ p[x] \in C
  BY <1>0, <1>1
<1>3. ASSUME NEW j \in C  PROVE \E l \in C : subGraphs[l].id \in Named(j)
  <2>1. PICK k \in x .. y - 1 : j = p[k]
    OBVIOUS
  <2>2. k + 1 \in 2 .. m /\ (k + 1) - 1 = k
    BY <1>0, <1>1
  <2>3. subGraphs[p[k + 1]].id \in Named(j)
    BY <1>0, <2>1, <2>2
  <2>4. p[k + 1] \in C
    <3>1. CASE k + 1 = y
      BY <1>1, <1>2, <3>1
    <3>2. CASE k + 1 # y
      <4>1. k + 1 \in x .. y - 1
        BY <1>1, <3>2
      <4> QED
        BY <4>1
    <3> QED
      BY <3>1, <3>2
  <2> QED
    BY <2>3, <2>4
<1> HIDE DEF C
<1>4. C \in (SUBSET DOMAIN subGraphs) \ {{}}
  BY <1>0, <1>2
<1> QED
  BY <1>3, <1>4 DEF Circular

\* A list with x before it.
LEMMA Prefixed ==
  ASSUME NEW S, NEW x \in S, NEW p \in Seq(S)
  PROVE  LET t == <<x>> \o p
         IN  /\ t \in Seq(S) /\ Len(t) = Len(p) + 1 /\ t # << >>
             /\ t[1] = x /\ \A k \in 2 .. Len(t) : t[k] = p[k - 1]
             /\ Head(t) = x /\ Tail(t) = p
<1> DEFINE t == <<x>> \o p
<1>1. <<x>> \in Seq(S) /\ Len(<<x>>) = 1 /\ <<x>>[1] = x
  OBVIOUS
<1>2. /\ t \in Seq(S) /\ Len(t) = 1 + Len(p)
      /\ \A k \in 1 .. 1 + Len(p) : t[k] = IF k <= 1 THEN <<x>>[k] ELSE p[k - 1]
  BY <1>1, ConcatProperties
<1>3. Len(p) \in Nat
  BY LenProperties
<1> HIDE DEF t
<1>4. t[1] = x /\ \A k \in 2 .. Len(t) : t[k] = p[k - 1]
  BY <1>1, <1>2, <1>3
<1>5. t # << >> /\ Head(t) = t[1]
  BY <1>2, <1>3
<1>6. Tail(t) = p
  <2>1. /\ Tail(t) \in Seq(S) /\ Len(Tail(t)) = Len(t) - 1
        /\ \A k \in 1 .. Len(Tail(t)) : Tail(t)[k] = t[k + 1]
    BY <1>2, <1>5, HeadTailProperties
  <2>2. Len(Tail(t)) = Len(p)
    BY <1>2, <1>3, <2>1
  <2>3. ASSUME NEW k \in 1 .. Len(p)  PROVE Tail(t)[k] = p[k]
    <3>1. Tail(t)[k] = t[k + 1]
      BY <2>1, <2>2
    <3>2. k + 1 \in 2 .. Len(t) /\ (k + 1) - 1 = k
      BY <1>2, <1>3
    <3> QED
      BY <1>4, <3>1, <3>2
  <2> QED
    BY <2>1, <2>2, <2>3, SeqEqual
<1>7. Len(t) = Len(p) + 1
  BY <1>2, <1>3
<1> QED
  BY <1>2, <1>4, <1>5, <1>6, <1>7 DEF t

\* A list, apart.
LEMMA Rejoined ==
  ASSUME NEW S, NEW t \in Seq(S), Len(t) > 0
  PROVE  /\ t[1] \in S /\ Tail(t) \in Seq(S) /\ t = <<t[1]>> \o Tail(t)
         /\ Len(Tail(t)) = Len(t) - 1
         /\ \A k \in 1 .. Len(Tail(t)) : Tail(t)[k] = t[k + 1]
<1>0. Len(t) \in Nat /\ 1 \in 1 .. Len(t)
  BY LenProperties
<1>1. t[1] \in S
  BY <1>0, ElementOfSeq
<1>2. t # << >>
  OBVIOUS
<1>3. /\ Tail(t) \in Seq(S) /\ Len(Tail(t)) = Len(t) - 1
      /\ \A k \in 1 .. Len(Tail(t)) : Tail(t)[k] = t[k + 1]
  BY <1>2, HeadTailProperties
<1> DEFINE p == Tail(t)
           u == <<t[1]>> \o p
<1> HIDE DEF p
<1>4. /\ u \in Seq(S) /\ Len(u) = Len(p) + 1 /\ u[1] = t[1]
      /\ \A k \in 2 .. Len(u) : u[k] = p[k - 1]
  BY <1>1, <1>3, Prefixed DEF p
<1> HIDE DEF u
<1>5. Len(u) = Len(t)
  BY <1>0, <1>3, <1>4 DEF p
<1>6. ASSUME NEW k \in 1 .. Len(u)  PROVE u[k] = t[k]
  <2>1. CASE k = 1
    BY <1>4, <2>1
  <2>2. CASE k # 1
    <3>1. /\ k \in 2 .. Len(u) /\ k - 1 \in 1 .. Len(p) /\ (k - 1) + 1 = k
      BY <1>0, <1>3, <1>5, <2>2 DEF p
    <3> QED
      BY <1>3, <1>4, <3>1 DEF p
  <2> QED
    BY <2>1, <2>2
<1>7. u = t
  BY <1>4, <1>5, <1>6, SeqEqual
<1> QED
  BY <1>1, <1>3, <1>7 DEF u, p

\* The rows from i on whose second subgraph is the j-th.
Via(i, j) == {p \in Chains(i) : Len(p) > 1 /\ p[2] = j}

\* They are the rows from j on, with i before them.
LEMMA ViaMany ==
  ASSUME SubsGood, ~Circular, NEW i \in 1 .. Len(subGraphs), NEW j \in 1 .. Len(subGraphs),
         subGraphs[j].id \in Named(i), IsFiniteSet(Chains(j))
  PROVE  IsFiniteSet(Via(i, j)) /\ Cardinality(Via(i, j)) = Cardinality(Chains(j))
<1> DEFINE P == 1 .. Len(subGraphs)
           S == Chains(j)
           T == Via(i, j)
           g == [p \in S |-> <<i>> \o p]
<1>1. ASSUME NEW p \in S  PROVE g[p] \in T /\ Tail(g[p]) = p
  <2> DEFINE t == <<i>> \o p
  <2>1. Linked(p, j)
    BY ChainIs
  <2>2. p \in Seq(P) /\ Len(p) \in Nat /\ Len(p) > 0 /\ p[1] = j
    BY <2>1, LenProperties DEF Linked
  <2>3. /\ t \in Seq(P) /\ Len(t) = Len(p) + 1 /\ t[1] = i /\ Tail(t) = p
        /\ \A k \in 2 .. Len(t) : t[k] = p[k - 1]
    <3>1. i \in P /\ p \in Seq(P)
      BY <2>2
    <3> HIDE DEF P
    <3> QED
      BY <3>1, Prefixed
  <2> HIDE DEF t
  <2>4. 2 \in 2 .. Len(t) /\ t[2] = j
    BY <2>2, <2>3
  <2>5. ASSUME NEW k \in 2 .. Len(t)  PROVE subGraphs[t[k]].id \in Named(t[k - 1])
    <3>1. CASE k = 2
      BY <2>3, <2>4, <3>1
    <3>2. CASE k # 2
      <4>1. k - 1 \in 2 .. Len(p) /\ k - 1 \in 2 .. Len(t) /\ k \in 2 .. Len(t)
        BY <2>2, <2>3, <3>2
      <4>2. t[k] = p[k - 1] /\ t[k - 1] = p[(k - 1) - 1]
        BY <2>3, <4>1
      <4>3. subGraphs[p[k - 1]].id \in Named(p[(k - 1) - 1])
        BY <2>1, <4>1 DEF Linked
      <4> QED
        BY <4>2, <4>3
    <3> QED
      BY <3>1, <3>2
  <2>6. Linked(t, i)
    <3>1. Len(t) > 0
      BY <2>2, <2>3
    <3> QED
      BY <2>3, <2>5, <3>1 DEF Linked
  <2>7. t \in Chains(i)
    BY <2>6, ChainIs, ChainShort
  <2>8. Len(t) > 1
    BY <2>2, <2>3
  <2>9. t \in T
    BY <2>4, <2>7, <2>8 DEF Via
  <2>10. g[p] = t
    BY DEF t
  <2> HIDE DEF g, T
  <2> QED
    BY <2>3, <2>9, <2>10
<1>2. ASSUME NEW t \in T  PROVE \E p \in S : g[p] = t
  <2> DEFINE p == Tail(t)
  <2>1. Linked(t, i) /\ Len(t) <= Len(subGraphs) /\ Len(t) > 1 /\ t[2] = j
    BY ChainIs DEF Via
  <2>2. /\ t \in Seq(P) /\ Len(t) \in Nat /\ t[1] = i
        /\ \A k \in 2 .. Len(t) : subGraphs[t[k]].id \in Named(t[k - 1])
    BY <2>1, LenProperties DEF Linked
  <2>3. /\ p \in Seq(P) /\ t = <<i>> \o p /\ Len(p) = Len(t) - 1
        /\ \A k \in 1 .. Len(p) : p[k] = t[k + 1]
    BY <2>1, <2>2, Rejoined
  <2> HIDE DEF p
  <2>4. p[1] = j /\ Len(p) > 0
    BY <2>1, <2>2, <2>3
  <2>5. ASSUME NEW k \in 2 .. Len(p)  PROVE subGraphs[p[k]].id \in Named(p[k - 1])
    <3>1. /\ k \in 1 .. Len(p) /\ k - 1 \in 1 .. Len(p) /\ k + 1 \in 2 .. Len(t)
          /\ (k + 1) - 1 = k /\ (k - 1) + 1 = k
      BY <2>2, <2>3
    <3>2. p[k] = t[k + 1] /\ p[k - 1] = t[k]
      BY <2>3, <3>1
    <3>3. subGraphs[t[k + 1]].id \in Named(t[k])
      BY <2>2, <3>1
    <3> QED
      BY <3>2, <3>3
  <2>6. Linked(p, j)
    BY <2>3, <2>4, <2>5 DEF Linked
  <2>7. p \in S
    BY <2>6, ChainIs, ChainShort
  <2>8. g[p] = t
    BY <2>3, <2>7
  <2> QED
    BY <2>7, <2>8
<1> HIDE DEF S, T
<1>3. g \in [S -> T] /\ DOMAIN g = S
  BY <1>1
<1> HIDE DEF g
<1>4. \A p, q \in S : g[p] = g[q] => p = q
  <2> SUFFICES ASSUME NEW p \in S, NEW q \in S, g[p] = g[q]  PROVE p = q
    OBVIOUS
  <2>1. Tail(g[p]) = p /\ Tail(g[q]) = q
    BY <1>1
  <2> QED
    BY <2>1
<1>5. g \in Bijection(S, T)
  BY <1>2, <1>3, <1>4 DEF Bijection, Injection, Surjection, IsInjective
<1>6. ExistsBijection(S, T)
  BY <1>5 DEF ExistsBijection
<1>7. IsFiniteSet(S)
  BY DEF S
<1>8. IsFiniteSet(T) /\ Cardinality(T) = Cardinality(S)
  BY <1>6, <1>7, FS_Bijection
<1> QED
  BY <1>8 DEF S, T

\* From c on, count steps lead to rest, and not to an end before.
Takes(f, c, count, rest) == f[c + count] = rest /\ \A d \in c .. c + count - 1 : f[d] # << >>

\* There are as many calls for the i-th subgraph as there are rows from it on.
Counted(i) ==
  /\ IsFiniteSet(Chains(i))
  /\ \A m, c \in Nat : \A f : \A rest \in Seq(1 .. Len(subGraphs)) :
       Steps(f, m) /\ c + Cardinality(Chains(i)) <= m /\ f[c] = <<i>> \o rest
         => Takes(f, c, Cardinality(Chains(i)), rest)

\* The rows from i on that end there, or go on to one of the first q it calls.
RowsTo(i, q) ==
  {<<i>>} \cup {p \in Chains(i) : Len(p) > 1 /\ \E r \in 1 .. q : p[2] = Called(i)[r]}

\* There are as many calls for them as there are of these rows.
CountedTo(i, q) ==
  /\ IsFiniteSet(RowsTo(i, q))
  /\ \A m, c \in Nat : \A f : \A rest \in Seq(1 .. Len(subGraphs)) :
       Steps(f, m) /\ c + Cardinality(RowsTo(i, q)) <= m /\ f[c] = <<i>> \o rest
         => Takes(f, c, Cardinality(RowsTo(i, q)),
                  SubSeq(Called(i), q + 1, Len(Called(i))) \o rest)

\* Some steps and some more.
LEMMA TakesMore ==
  ASSUME NEW f, NEW c \in Nat, NEW a \in Nat, NEW b \in Nat, NEW s, NEW t,
         Takes(f, c, a, s), Takes(f, c + a, b, t)
  PROVE  Takes(f, c, a + b, t)
<1>1. ASSUME NEW d \in c .. c + (a + b) - 1  PROVE f[d] # << >>
  <2>1. d \in c .. c + a - 1 \/ d \in c + a .. c + a + b - 1
    OBVIOUS
  <2> QED
    BY <2>1 DEF Takes
<1>2. c + (a + b) = c + a + b
  OBVIOUS
<1> QED
  BY <1>1, <1>2 DEF Takes

\* The call for the i-th subgraph is the first one.
LEMMA CountedFirst ==
  ASSUME SubsGood, NEW i \in 1 .. Len(subGraphs)
  PROVE  CountedTo(i, 0)
<1> DEFINE P == 1 .. Len(subGraphs)
           C == Called(i)
<1>0. C \in Seq(P) /\ Len(C) \in Nat
  BY CalledIs
<1>1. RowsTo(i, 0) = {<<i>>}
  BY DEF RowsTo
<1>2. IsFiniteSet(RowsTo(i, 0)) /\ Cardinality(RowsTo(i, 0)) = 1
  BY <1>1, FS_Singleton
<1>3. ASSUME NEW m \in Nat, NEW c \in Nat, NEW f, NEW rest \in Seq(P),
             Steps(f, m), c + 1 <= m, f[c] = <<i>> \o rest
      PROVE  Takes(f, c, 1, SubSeq(C, 0 + 1, Len(C)) \o rest)
  <2>1. f[c] # << >> /\ Head(f[c]) = i /\ Tail(f[c]) = rest
    <3>1. i \in P /\ rest \in Seq(P)
      OBVIOUS
    <3> HIDE DEF P
    <3>2. <<i>> \o rest # << >> /\ Head(<<i>> \o rest) = i /\ Tail(<<i>> \o rest) = rest
      BY <3>1, Prefixed, Zenon
    <3> QED
      BY <1>3, <3>2, Zenon
  <2>2. c + 1 \in 1 .. m /\ (c + 1) - 1 = c
    BY <1>3
  <2>3. f[c + 1] = Onto(f[c])
    BY <1>3, <2>2 DEF Steps
  <2>4. f[c + 1] = C \o rest
    BY <2>1, <2>3 DEF Onto
  <2>5. SubSeq(C, 1, Len(C)) = C
    BY <1>0, SubSeqFull
  <2>6. \A d \in c .. c + 1 - 1 : d = c
    OBVIOUS
  <2>7. SubSeq(C, 0 + 1, Len(C)) = C
    BY <2>5
  <2> HIDE DEF C
  <2> QED
    BY <2>1, <2>4, <2>6, <2>7 DEF Takes
<1> HIDE DEF C, P
<1> QED
  BY <1>2, <1>3 DEF CountedTo, C, P

\* Then come the calls for the next one that it names.
LEMMA CountedNext ==
  ASSUME SubsGood, ~Circular, NEW i \in 1 .. Len(subGraphs),
         NEW q \in 1 .. Len(Called(i)), CountedTo(i, q - 1), Counted(Called(i)[q])
  PROVE  CountedTo(i, q)
<1> DEFINE P == 1 .. Len(subGraphs)
           C == Called(i)
           j == C[q]
           A == RowsTo(i, q - 1)
           B == RowsTo(i, q)
           V == Via(i, j)
           a == Cardinality(A)
           b == Cardinality(Chains(j))
<1>0. /\ C \in Seq(P) /\ Len(C) \in Nat /\ q \in Nat /\ j \in P
      /\ subGraphs[j].id \in Named(i)
      /\ \A r, s \in 1 .. Len(C) : C[r] = C[s] => r = s
  BY CalledIs
<1>1. /\ IsFiniteSet(A) /\ a \in Nat /\ IsFiniteSet(V) /\ Cardinality(V) = b /\ b \in Nat
  <2>1. IsFiniteSet(A) /\ IsFiniteSet(Chains(j))
    BY DEF CountedTo, Counted
  <2> QED
    BY <1>0, <2>1, ViaMany, FS_CardinalityType
<1>2. B = A \cup V
  <2>1. \A x : (\E r \in 1 .. q : x = C[r]) <=> (\E r \in 1 .. q - 1 : x = C[r]) \/ x = j
    <3>1. \A r : r \in 1 .. q <=> r \in 1 .. q - 1 \/ r = q
      BY <1>0
    <3> QED
      BY <3>1
  <2> HIDE DEF C, j
  <2> QED
    BY <2>1 DEF RowsTo, Via, C
<1>3. A \cap V = {}
  <2> SUFFICES ASSUME NEW p \in A, p \in V  PROVE FALSE
    OBVIOUS
  <2>1. Len(p) > 1 /\ p[2] = j
    BY DEF Via
  <2>2. p # <<i>>
    BY <2>1
  <2>3. PICK r \in 1 .. q - 1 : p[2] = C[r]
    BY <2>2 DEF RowsTo
  <2>4. r \in 1 .. Len(C) /\ r # q
    BY <1>0
  <2> QED
    BY <1>0, <2>1, <2>3, <2>4
<1>4. IsFiniteSet(B) /\ Cardinality(B) = a + b
  <2>1. /\ IsFiniteSet(A \cup V)
        /\ Cardinality(A \cup V) = Cardinality(A) + Cardinality(V) - Cardinality(A \cap V)
    BY <1>1, FS_Union
  <2> HIDE DEF A, V, B
  <2>2. Cardinality(A \cap V) = 0
    BY <1>3, FS_EmptySet
  <2> QED
    BY <1>1, <1>2, <2>1, <2>2
<1>5. ASSUME NEW m \in Nat, NEW c \in Nat, NEW f, NEW rest \in Seq(P),
             Steps(f, m), c + (a + b) <= m, f[c] = <<i>> \o rest
      PROVE  Takes(f, c, a + b, SubSeq(C, q + 1, Len(C)) \o rest)
  <2> DEFINE more == SubSeq(C, q + 1, Len(C)) \o rest
  <2>1. q \in 1 .. Len(C) /\ Len(C) \in q .. Len(C)
    BY <1>0
  <2>2. SubSeq(C, q, Len(C)) = <<j>> \o SubSeq(C, q + 1, Len(C))
    BY <1>0, <2>1, SubSeqRecursiveFirst
  <2>3. SubSeq(C, q + 1, Len(C)) \in Seq(P)
    <3>1. q + 1 \in Int /\ Len(C) \in Int /\ \A k \in q + 1 .. Len(C) : C[k] \in P
      <4>1. \A k \in q + 1 .. Len(C) : k \in 1 .. Len(C)
        BY <1>0
      <4> QED
        BY <1>0, <4>1, ElementOfSeq
    <3> QED
      BY <3>1, SubSeqProperties
  <2>4. <<j>> \in Seq(P)
    BY <1>0
  <2>5. SubSeq(C, q, Len(C)) \o rest = <<j>> \o more /\ more \in Seq(P)
    <3> DEFINE u == SubSeq(C, q + 1, Len(C))
    <3>1. u \in Seq(P) /\ <<j>> \in Seq(P) /\ rest \in Seq(P)
      BY <2>3, <2>4
    <3>2. SubSeq(C, q, Len(C)) = <<j>> \o u /\ more = u \o rest
      BY <2>2
    <3> DEFINE x == <<j>>
    <3> HIDE DEF C, j, P, u, more
    <3>3. (<<j>> \o u) \o rest = <<j>> \o (u \o rest)
      <4>1. x \in Seq(P)
        BY <3>1
      <4> HIDE DEF x
      <4>2. (x \o u) \o rest = x \o (u \o rest)
        BY <3>1, <4>1, ConcatAssociative, SMTT(20)
      <4> QED
        BY <4>2 DEF x
    <3>4. u \o rest \in Seq(P)
      BY <3>1, ConcatProperties, Zenon
    <3> QED
      BY <3>2, <3>3, <3>4
  <2> HIDE DEF more
  <2>6. Takes(f, c, a, SubSeq(C, q, Len(C)) \o rest)
    <3>0. a \in Nat /\ b \in Nat /\ c + (a + b) <= m /\ q \in Nat
      BY <1>0, <1>1, <1>5, Zenon
    <3> HIDE DEF a, b
    <3>1. c + a <= m /\ (q - 1) + 1 = q
      BY <3>0
    <3> USE DEF a
    <3>2. Takes(f, c, a, SubSeq(C, (q - 1) + 1, Len(C)) \o rest)
      BY <1>5, <3>1 DEF CountedTo
    <3> QED
      BY <3>1, <3>2
  <2>7. f[c + a] = <<j>> \o more
    BY <2>5, <2>6 DEF Takes
  <2>8. Takes(f, c + a, b, more)
    <3>1. c + a \in Nat /\ (c + a) + b <= m
      BY <1>1, <1>5
    <3>2. Counted(j)
      OBVIOUS
    <3> HIDE DEF a, b, j, P
    <3> QED
      BY <1>5, <2>5, <2>7, <3>1, <3>2 DEF Counted, b, P
  <2> HIDE DEF a, b
  <2>9. Takes(f, c, a + b, more)
    BY <1>1, <2>6, <2>8, TakesMore
  <2> QED
    BY <2>9 DEF more
<1> HIDE DEF C, P, B, a, b
<1> QED
  BY <1>4, <1>5 DEF CountedTo, C, P, B

\* A subgraph is counted if those it names are.
LEMMA CountedStep ==
  ASSUME SubsGood, ~Circular, NEW i \in 1 .. Len(subGraphs),
         \A q \in 1 .. Len(Called(i)) : Counted(Called(i)[q])
  PROVE  Counted(i)
<1> DEFINE P == 1 .. Len(subGraphs)
           C == Called(i)
           n == Len(C)
<1>0. C \in Seq(P) /\ n \in Nat
  BY CalledIs
<1> DEFINE S == {q \in Nat : q <= n => CountedTo(i, q)}
<1>1. 0 \in S
  BY CountedFirst
<1>2. ASSUME NEW k \in Nat, k \in S  PROVE k + 1 \in S
  <2> SUFFICES ASSUME k + 1 <= n  PROVE CountedTo(i, k + 1)
    OBVIOUS
  <2> DEFINE q == k + 1
  <2>1. q \in 1 .. n /\ q - 1 = k /\ k <= n
    BY <1>0
  <2>2. CountedTo(i, q - 1)
    BY <1>2, <2>1
  <2> HIDE DEF q, S
  <2>3. CountedTo(i, q)
    BY <2>1, <2>2, CountedNext
  <2> QED
    BY <2>3 DEF q
<1> HIDE DEF S
<1>3. CountedTo(i, n)
  <2>1. n \in S
    BY <1>0, <1>1, <1>2, NatSetInduction
  <2> QED
    BY <1>0, <2>1 DEF S
<1>4. RowsTo(i, n) = Chains(i)
  <2>1. <<i>> \in Chains(i)
    <3>1. Linked(<<i>>, i)
      BY DEF Linked
    <3> QED
      BY <3>1, ChainIs, ChainShort
  <2>2. ASSUME NEW p \in Chains(i), p # <<i>>
        PROVE  Len(p) > 1 /\ \E r \in 1 .. n : p[2] = C[r]
    <3>1. Linked(p, i)
      BY ChainIs
    <3>2. /\ p \in Seq(P) /\ Len(p) \in Nat /\ Len(p) > 0 /\ p[1] = i
          /\ \A k \in 2 .. Len(p) : subGraphs[p[k]].id \in Named(p[k - 1])
      BY <3>1, LenProperties DEF Linked
    <3>3. Len(p) # 1
      <4> SUFFICES ASSUME Len(p) = 1  PROVE FALSE
        OBVIOUS
      <4>1. <<i>> \in Seq(P) /\ Len(<<i>>) = 1 /\ <<i>>[1] = i
        OBVIOUS
      <4>2. \A k \in 1 .. Len(p) : p[k] = <<i>>[k]
        BY <3>2, <4>1
      <4>3. p = <<i>>
        BY <3>2, <4>1, <4>2, SeqEqual
      <4> QED
        BY <2>2, <4>3
    <3>4. Len(p) > 1 /\ 2 \in 2 .. Len(p) /\ 2 \in 1 .. Len(p)
      <4>1. Len(p) \in Nat /\ Len(p) > 0 /\ Len(p) # 1
        BY <3>2, <3>3, Zenon
      <4>2. \A l \in Nat : l > 0 /\ l # 1 => l > 1 /\ 2 \in 2 .. l /\ 2 \in 1 .. l
        OBVIOUS
      <4> QED
        BY <4>1, <4>2, Zenon
    <3>5. subGraphs[p[2]].id \in Named(i)
      <4>1. subGraphs[p[2]].id \in Named(p[2 - 1])
        BY <3>2, <3>4
      <4>2. p[2 - 1] = i
        BY <3>2, <3>4
      <4> QED
        BY <4>1, <4>2
    <3>6. p[2] \in P
      BY <3>2, <3>4, ElementOfSeq
    <3>7. \E r \in 1 .. n : C[r] = p[2]
      BY <3>5, <3>6, CalledIs
    <3> QED
      BY <3>4, <3>7
  <2> HIDE DEF n, C
  <2> QED
    BY <2>1, <2>2 DEF RowsTo, C
<1>5. ASSUME NEW rest \in Seq(P)  PROVE SubSeq(C, n + 1, n) \o rest = rest
  <2>1. SubSeq(C, n + 1, n) = << >>
    BY <1>0, SubSeqEmpty
  <2>2. << >> \o rest = rest
    BY ConcatEmptySeq
  <2> QED
    BY <2>1, <2>2
<1> HIDE DEF n, C
<1> QED
  BY <1>3, <1>4, <1>5 DEF Counted, CountedTo, n, C

\* Without a circle all are.
LEMMA AllCounted ==
  ASSUME SubsGood, ~Circular, NEW i \in 1 .. Len(subGraphs)
  PROVE  Counted(i)
<1> DEFINE S == {j \in 1 .. Len(subGraphs) : ~Counted(j)}
<1> SUFFICES ASSUME i \in S  PROVE FALSE
  OBVIOUS
<1>1. ASSUME NEW j \in S  PROVE \E k \in S : subGraphs[k].id \in Named(j)
  <2>1. PICK q \in 1 .. Len(Called(j)) : ~Counted(Called(j)[q])
    BY CountedStep
  <2>2. Called(j)[q] \in 1 .. Len(subGraphs) /\ subGraphs[Called(j)[q]].id \in Named(j)
    BY CalledIs
  <2>3. Called(j)[q] \in S
    BY <2>1, <2>2
  <2> QED
    BY <2>2, <2>3
<1>2. S \in (SUBSET DOMAIN subGraphs) \ {{}}
  BY SubIs
<1> HIDE DEF S
<1> QED
  BY <1>1, <1>2 DEF Circular

\* Without a circle indexNodes() comes to its end if there are not too many rows.
LEMMA IndexedRight ==
  ASSUME SubsGood, ~Circular
  PROVE  Indexed <=> ~(Cardinality(Chains(Len(subGraphs))) > MaxSections)
<1> DEFINE n == Len(subGraphs)
           count == Cardinality(Chains(n))
           max == MaxSections
<1>0. n \in Nat /\ max \in Nat /\ subGraphs \in Seq(Sub) /\ DOMAIN subGraphs = 1 .. n
  BY SubIs, FlowAssumption DEF SubsGood
<1>1. CASE n = 0
  <2>1. subGraphs = << >>
    BY <1>0, <1>1
  <2>2. Chains(n) = {}
    <3>1. 1 .. n = {}
      BY <1>0, <1>1
    <3> QED
      BY <3>1 DEF Chains
  <2>3. count = 0
    BY <2>2, FS_EmptySet
  <2> HIDE DEF count, n
  <2> QED
    BY <1>0, <2>1, <2>3 DEF Indexed, count, n
<1>2. CASE n # 0
  <2>0. n \in 1 .. n /\ subGraphs # << >>
    BY <1>0, <1>2
  <2>1. Counted(n)
    BY <2>0, AllCounted
  <2>2. count \in Nat
    BY <2>1, FS_CardinalityType DEF Counted
  <2>3. PICK f : f[0] = <<n>> /\ Steps(f, max + count) /\ f[max] = IndexNodes2
    <3> HIDE DEF count
    <3> QED
      BY <2>2, IndexIs
  <2>4. Takes(f, 0, count, << >>)
    <3>1. << >> \in Seq(1 .. n) /\ <<n>> \in Seq(1 .. n)
      BY <2>0
    <3>2. f[0] = <<n>> \o << >>
      BY <2>3, <3>1, ConcatEmptySeq
    <3>3. 0 + count <= max + count /\ max + count \in Nat
      BY <1>0, <2>2
    <3> QED
      BY <2>1, <2>3, <3>1, <3>2, <3>3 DEF Counted
  <2>5. Indexed <=> f[max] = << >>
    BY <2>0, <2>3 DEF Indexed
  <2> HIDE DEF count, max
  <2>6. CASE count <= max
    <3>1. 0 + count = count
      BY <2>2
    <3>2. f[count] = << >>
      BY <2>4, <3>1 DEF Takes
    <3>3. max <= max + count /\ max + count \in Nat
      BY <1>0, <2>2
    <3>4. f[max] = << >>
      BY <1>0, <2>2, <2>3, <2>6, <3>2, <3>3, StepsEnd
    <3> QED
      BY <1>0, <2>2, <2>5, <2>6, <3>4 DEF count, max
  <2>7. CASE count > max
    <3>1. max \in 0 .. 0 + count - 1
      BY <1>0, <2>2, <2>7
    <3>2. f[max] # << >>
      BY <2>4, <3>1 DEF Takes
    <3> QED
      BY <2>5, <2>7, <3>2 DEF count, max
  <2> QED
    BY <1>0, <2>2, <2>6, <2>7
<1> QED
  BY <1>1, <1>2

-----------------------------------------------------------------------------
\* The names in a subgraph, each once.

\* The list u with x, unless it has it.
WithNew(u, x) == IF x \in ToSet(u) THEN u ELSE Append(u, x)

\* uniq(), name by name.
LEMMA UniqFrom ==
  ASSUME NEW list, Len(list) \in Nat
  PROVE  \E uniq :
           /\ uniq[0] = << >>
           /\ \A k \in 1 .. Len(list) : uniq[k] = WithNew(uniq[k - 1], list[k])
           /\ Uniq(list) = uniq[Len(list)]
<1> DEFINE n == Len(list)
           F(k, h) == IF k = 0 THEN << >> ELSE WithNew(h[k - 1], list[k])
           Is(m, h) == h = [k \in 0 .. m |-> F(k, h)]
           uniq == CHOOSE h : Is(n, h)
<1>1. Uniq(list) = uniq[n]
  BY Zenon DEF Uniq, WithNew
<1>2. ASSUME NEW k \in Nat, NEW h, NEW l, k = 0 \/ h[k - 1] = l[k - 1]
      PROVE  F(k, h) = F(k, l)
  BY <1>2
<1>3. ASSUME NEW h  PROVE F(0, h) = << >>
  OBVIOUS
<1> HIDE DEF F
<1>4. \E h : Is(n, h)
  <2> DEFINE S == {m \in Nat : \E h : Is(m, h)}
  <2>1. 0 \in S
    <3> DEFINE h == [k \in 0 .. 0 |-> << >>]
    <3>1. Is(0, h)
      BY <1>3
    <3> HIDE DEF h
    <3> QED
      BY <3>1
  <2>2. ASSUME NEW m \in Nat, m \in S  PROVE m + 1 \in S
    <3>1. PICK h : Is(m, h)
      BY <2>2
    <3>2. \A k \in 0 .. m : h[k] = F(k, h)
      BY <3>1, Zenon
    <3> DEFINE l == [k \in 0 .. m + 1 |-> IF k = m + 1 THEN F(k, h) ELSE h[k]]
    <3>3. ASSUME NEW k \in 0 .. m + 1  PROVE l[k] = F(k, l)
      <4>1. k = 0 \/ h[k - 1] = l[k - 1]
        OBVIOUS
      <4>2. F(k, h) = F(k, l)
        BY <1>2, <4>1
      <4>3. l[k] = F(k, h)
        BY <3>2
      <4> QED
        BY <4>2, <4>3
    <3>4. Is(m + 1, l)
      BY <3>3
    <3> HIDE DEF l, Is
    <3> QED
      BY <3>4
  <2> HIDE DEF S
  <2>3. n \in S
    BY <2>1, <2>2, NatSetInduction
  <2> QED
    BY <2>3 DEF S
<1>5. Is(n, uniq)
  BY <1>4, Zenon
<1> HIDE DEF uniq
<1>6. \A k \in 0 .. n : uniq[k] = F(k, uniq)
  BY <1>5, Zenon
<1>7. uniq[0] = << >>
  BY <1>3, <1>6
<1>8. \A k \in 1 .. n : uniq[k] = WithNew(uniq[k - 1], list[k])
  BY <1>6 DEF F
<1> QED
  BY <1>1, <1>7, <1>8

\* uniq() keeps each name, once.
LEMMA UniqIs ==
  ASSUME NEW S, NEW list \in Seq(S)
  PROVE  /\ Uniq(list) \in Seq(S) /\ ToSet(Uniq(list)) = ToSet(list)
         /\ \A k, l \in 1 .. Len(Uniq(list)) : Uniq(list)[k] = Uniq(list)[l] => k = l
<1> DEFINE n == Len(list)
<1>0. n \in Nat /\ DOMAIN list = 1 .. n
  BY LenProperties
<1>1. PICK uniq : /\ uniq[0] = << >>
                  /\ \A k \in 1 .. n : uniq[k] = WithNew(uniq[k - 1], list[k])
                  /\ Uniq(list) = uniq[n]
  BY <1>0, UniqFrom
<1> DEFINE Is(u, k) == /\ u \in Seq(S) /\ ToSet(u) = {list[l] : l \in 1 .. k}
                       /\ \A l, m \in 1 .. Len(u) : u[l] = u[m] => l = m
           T == {k \in Nat : k <= n => Is(uniq[k], k)}
<1>2. 0 \in T
  <2>1. << >> \in Seq(S) /\ ToSet(<< >>) = {} /\ Len(<< >>) = 0
    BY DEF ToSet
  <2>2. {list[l] : l \in 1 .. 0} = {}
    OBVIOUS
  <2> QED
    BY <1>1, <2>1, <2>2
<1>3. ASSUME NEW k \in Nat, k \in T  PROVE k + 1 \in T
  <2> SUFFICES ASSUME k + 1 <= n  PROVE Is(uniq[k + 1], k + 1)
    OBVIOUS
  <2> DEFINE u == uniq[k]
             x == list[k + 1]
  <2>1. Is(u, k)
    BY <1>0, <1>3
  <2>2. k + 1 \in 1 .. n /\ (k + 1) - 1 = k
    BY <1>0
  <2>3. uniq[k + 1] = WithNew(u, x)
    BY <1>1, <2>2
  <2>4. x \in S
    BY <2>2, ElementOfSeq
  <2>5. {list[l] : l \in 1 .. k + 1} = {list[l] : l \in 1 .. k} \cup {x}
    <3>1. \A l : l \in 1 .. k + 1 <=> l \in 1 .. k \/ l = k + 1
      BY <1>0
    <3> QED
      BY <3>1
  <2> HIDE DEF u, x
  <2>6. CASE x \in ToSet(u)
    <3>1. uniq[k + 1] = u
      BY <2>3, <2>6 DEF WithNew
    <3>2. {list[l] : l \in 1 .. k + 1} = ToSet(u)
      BY <2>1, <2>5, <2>6
    <3> QED
      BY <2>1, <3>1, <3>2
  <2>7. CASE x \notin ToSet(u)
    <3>1. uniq[k + 1] = Append(u, x)
      BY <2>3, <2>7 DEF WithNew
    <3>2. ToSet(Append(u, x)) = ToSet(u) \cup {x}
      BY <2>1, AppendElements
    <3>3. Append(u, x) \in Seq(S)
      BY <2>1, <2>4
    <3>4. \A l, m \in 1 .. Len(Append(u, x)) : Append(u, x)[l] = Append(u, x)[m] => l = m
      BY <2>1, <2>4, <2>7, AppendDistinct
    <3> QED
      BY <2>1, <2>5, <3>1, <3>2, <3>3, <3>4
  <2> QED
    BY <2>6, <2>7
<1> HIDE DEF T
<1>4. n \in T
  BY <1>0, <1>2, <1>3, NatSetInduction
<1>5. Is(Uniq(list), n)
  BY <1>0, <1>1, <1>4 DEF T
<1>6. ToSet(list) = {list[l] : l \in 1 .. n}
  BY <1>0 DEF ToSet
<1> QED
  BY <1>5, <1>6

-----------------------------------------------------------------------------
\* A subgraph that has begun.
Open == [list : Seq(Text), begun : Nat]

\* The types of the other variables.
FlowTypes ==
  /\ vertices \in SUBSET Vertex /\ edges \in Seq(Links) /\ open \in Seq(Open)
  /\ statements \in [read : Nat, begun : Nat]

\* What is named is there.
Known == vertices \cup {subGraphs[j].id : j \in 1 .. Len(subGraphs)} \cup {Blank}

NamesKnown ==
  /\ \A i \in 1 .. Len(subGraphs) : Named(i) \subseteq Known
  /\ \A k \in 1 .. Len(open) : ToSet(open[k].list) \subseteq Known

\* Each subgraph has a number of its own, by when it began.
BegunOnce ==
  /\ Len(subGraphs) + Len(open) = statements.begun /\ statements.begun <= Len(SubGraphIds)
  /\ \A i \in 1 .. Len(subGraphs) :
       subGraphs[i].begun \in 1 .. statements.begun /\ subGraphs[i].around \in 0 .. statements.begun
  /\ \A k \in 1 .. Len(open) : open[k].begun \in 1 .. statements.begun
  /\ \A i, j \in 1 .. Len(subGraphs) : subGraphs[i].begun = subGraphs[j].begun => i = j
  /\ \A k, l \in 1 .. Len(open) : open[k].begun = open[l].begun => k = l
  /\ \A i \in 1 .. Len(subGraphs), k \in 1 .. Len(open) : subGraphs[i].begun # open[k].begun

\* A subgraph whose id is not written is named by the one around it only.
Nested ==
  \A i \in 1 .. Len(subGraphs) : subGraphs[i].id \notin vertices =>
    /\ \A j \in 1 .. Len(subGraphs) :
         subGraphs[i].id \in Named(j) <=> subGraphs[i].around = subGraphs[j].begun
    /\ \A k \in 1 .. Len(open) :
         subGraphs[i].id \in ToSet(open[k].list) <=> subGraphs[i].around = open[k].begun

\* What holds of graphDb while a text is read.
FlowGood == SubsGood /\ FlowTypes /\ NamesKnown /\ BegunOnce /\ Nested

-----------------------------------------------------------------------------
\* What is said of a drawing.
RightOf(gr) ==
  LET ids == {subGraphs[i].id : i \in DOMAIN subGraphs}
      blank == Blank \notin vertices /\ \E i \in DOMAIN subGraphs : Blank \in Named(i)
      long == Cardinality(Chains(Len(subGraphs))) > MaxSections
      linked == \E cnt \in DOMAIN edges : ToSet(edges[cnt]) \cap Filled # {}
  IN  /\ htmlLabels /\ ~Circular /\ ~long /\ ~blank /\ ~linked => gr.how = "drawn"
      /\ blank \/ linked => gr.how # "drawn"
      /\ ~Circular /\ long => gr.how # "drawn"
      /\ gr.how = "cycle" => Circular
      /\ gr.how = "index" => Circular \/ long
      /\ gr.how # "cycle" =>
           /\ DOMAIN gr.parent \ {Blank} = (vertices \cup ids) \ {Blank}
           /\ \A v \in DOMAIN gr.parent : gr.parent[v] = FirstNaming(v)
           /\ \A i, j \in DOMAIN subGraphs :
                subGraphs[i].id \notin vertices /\ subGraphs[i].around = subGraphs[j].begun
                  => gr.parent[subGraphs[i].id] = subGraphs[j].id
           /\ Cardinality(gr.edges) = Len(edges)

\* The edges are numbered, so none is lost.
LEMMA EdgesMany ==
  ASSUME FlowTypes
  PROVE  Cardinality(AddEdges) = Len(edges)
<1> DEFINE n == Len(edges)
           S == 1 .. n
           g == [cnt \in S |-> <<edges[cnt], cnt>>]
<1>0. n \in Nat /\ DOMAIN edges = S
  BY LenProperties DEF FlowTypes
<1>1. g \in [S -> AddEdges]
  BY <1>0 DEF AddEdges
<1>2. \A x \in AddEdges : \E cnt \in S : g[cnt] = x
  BY <1>0 DEF AddEdges
<1>3. \A a, b \in S : g[a] = g[b] => a = b
  OBVIOUS
<1>4. DOMAIN g = S
  OBVIOUS
<1>5. IsFiniteSet(S) /\ Cardinality(S) = n
  <2>1. \A a, b \in Int : /\ IsFiniteSet(a .. b)
                          /\ Cardinality(a .. b) = IF a > b THEN 0 ELSE b - a + 1
    BY FS_Interval, Zenon
  <2>2. 1 \in Int /\ n \in Int /\ n >= 0
    BY <1>0
  <2>3. IsFiniteSet(S) /\ Cardinality(S) = IF 1 > n THEN 0 ELSE n - 1 + 1
    BY <2>1, <2>2, Zenon
  <2> HIDE DEF S, n
  <2> QED
    BY <2>2, <2>3
<1> HIDE DEF g, S
<1>6. g \in Bijection(S, AddEdges)
  BY <1>1, <1>2, <1>3, <1>4 DEF Bijection, Injection, Surjection, IsInjective
<1>7. ExistsBijection(S, AddEdges)
  BY <1>6 DEF ExistsBijection
<1> QED
  BY <1>5, <1>7, FS_Bijection

\* Each node of the graph is where it is first named.
LEMMA ParentIs ==
  ASSUME FlowGood, NEW f, Placed(f, 0, 0)
  PROVE  /\ DOMAIN AddVertices(f) \ {Blank}
              = (vertices \cup {subGraphs[i].id : i \in DOMAIN subGraphs}) \ {Blank}
         /\ \A v \in DOMAIN AddVertices(f) : AddVertices(f)[v] = FirstNaming(v)
         /\ \A v : \A j \in 1 .. Len(subGraphs) : v \in Named(j) => v \in DOMAIN f
         /\ \A v \in DOMAIN f :
              \E j \in 1 .. Len(subGraphs) : v = subGraphs[j].id \/ v \in Named(j)
<1> DEFINE n == Len(subGraphs)
           h == AddVertices(f)
           naming(v) == {j \in DOMAIN subGraphs : v \in Named(j)}
<1>0. n \in Nat /\ DOMAIN subGraphs = 1 .. n
  BY SubIs DEF FlowGood
<1>1. ASSUME NEW v  PROVE Already(0, 0, v) = naming(v)
  <2>1. ASSUME NEW j \in Already(0, 0, v)  PROVE j \in naming(v)
    <3>1. PICK l \in 1 .. Len(subGraphs[j].nodes) :
            subGraphs[j].nodes[l] = v /\ (j > 0 \/ l <= 0) /\ j \in 0 .. n
      BY DEF Already
    <3>2. j \in 1 .. n
      BY <1>0, <3>1
    <3>3. v \in Named(j)
      BY <3>1, <3>2, SubIs DEF FlowGood
    <3> QED
      BY <1>0, <3>2, <3>3
  <2>2. ASSUME NEW j \in naming(v)  PROVE j \in Already(0, 0, v)
    <3>1. j \in 1 .. n /\ j \in 0 .. n /\ j > 0 /\ v \in Named(j)
      BY <1>0
    <3>2. \E l \in 1 .. Len(subGraphs[j].nodes) : subGraphs[j].nodes[l] = v
      BY <3>1, SubIs DEF FlowGood
    <3> QED
      BY <3>1, <3>2 DEF Already
  <2> QED
    BY <2>1, <2>2
<1>2. /\ \A v \in DOMAIN f : naming(v) = {} => f[v] = Top
      /\ \A v \in DOMAIN f : \A j \in naming(v) :
           (\A m \in naming(v) : j <= m) => f[v] = subGraphs[j].id
      /\ \A v : \A j \in naming(v) : v \in DOMAIN f
      /\ \A v \in DOMAIN f : \E j \in 1 .. n : v = subGraphs[j].id \/ v \in Named(j)
  <2> HIDE DEF naming
  <2> QED
    BY <1>1 DEF Placed
<1>3. ASSUME NEW v, NEW j \in 1 .. n, v \in Named(j)  PROVE v \in DOMAIN f
  BY <1>0, <1>2, <1>3
<1>4. /\ DOMAIN h = DOMAIN f \cup Labelled
      /\ \A v \in DOMAIN h : h[v] = IF v \in DOMAIN f THEN f[v] ELSE Top
  BY DEF AddVertices
<1> HIDE DEF h
<1>5. DOMAIN h \ {Blank} = Labelled \ {Blank}
  <2>1. ASSUME NEW v \in DOMAIN f, v # Blank  PROVE v \in Labelled
    <3>1. PICK j \in 1 .. n : v = subGraphs[j].id \/ v \in Named(j)
      BY <1>2
    <3>2. Named(j) \subseteq Known
      BY DEF FlowGood, NamesKnown
    <3> QED
      BY <1>0, <2>1, <3>1, <3>2 DEF Known, Labelled
  <2> QED
    BY <1>4, <2>1
<1>6. ASSUME NEW v \in DOMAIN h  PROVE h[v] = FirstNaming(v)
  <2> DEFINE S == naming(v)
             c == CHOOSE i \in S : \A j \in S : i <= j
  <2>1. FirstNaming(v) = IF S = {} THEN Top ELSE subGraphs[c].id
    BY Zenon DEF FirstNaming
  <2>2. CASE S = {}
    <3>1. h[v] = Top
      BY <1>2, <1>4, <2>2
    <3> QED
      BY <2>1, <2>2, <3>1
  <2>3. CASE S # {}
    <3>1. S \in SUBSET Nat
      BY <1>0
    <3>2. \E i \in S : \A j \in S : i <= j
      <4> HIDE DEF S
      <4> QED
        BY <2>3, <3>1, LeastElement
    <3>3. c \in S /\ \A j \in S : c <= j
      <4> HIDE DEF S
      <4> QED
        BY <3>2, Zenon
    <3> HIDE DEF c
    <3>4. v \in DOMAIN f
      BY <1>2, <2>3
    <3>5. f[v] = subGraphs[c].id
      BY <1>2, <3>3, <3>4
    <3> QED
      BY <1>4, <2>1, <2>3, <3>4, <3>5
  <2> QED
    BY <2>2, <2>3
<1> HIDE DEF naming
<1> QED
  BY <1>2, <1>3, <1>5, <1>6 DEF h, Labelled

\* The label that a node of an empty line lacks is missed.
LEMMA RendersIs ==
  ASSUME FlowGood, NEW f, Placed(f, 0, 0)
  PROVE  Renders(AddVertices(f))
           <=> ~(Blank \notin vertices /\ \E i \in DOMAIN subGraphs : Blank \in Named(i))
<1> DEFINE h == AddVertices(f)
           ids == {subGraphs[i].id : i \in DOMAIN subGraphs}
           blank == Blank \notin vertices /\ \E i \in DOMAIN subGraphs : Blank \in Named(i)
<1>0. /\ DOMAIN h \ {Blank} = (vertices \cup ids) \ {Blank}
      /\ \A v \in DOMAIN h : h[v] = FirstNaming(v)
      /\ \A v : \A j \in 1 .. Len(subGraphs) : v \in Named(j) => v \in DOMAIN f
      /\ \A v \in DOMAIN f : \E j \in 1 .. Len(subGraphs) : v = subGraphs[j].id \/ v \in Named(j)
      /\ DOMAIN h = DOMAIN f \cup Labelled
  BY ParentIs DEF AddVertices
<1>1. DOMAIN subGraphs = 1 .. Len(subGraphs) /\ SubsGood /\ Labelled = vertices \cup ids
  BY SubIs DEF FlowGood, Labelled
<1>2. Blank \notin ids
  <2> SUFFICES ASSUME NEW i \in 1 .. Len(subGraphs), subGraphs[i].id = Blank  PROVE FALSE
    BY <1>1
  <2>1. subGraphs[i] \in Sub
    BY <1>1, ElementOfSeq DEF SubsGood
  <2>2. subGraphs[i].id \in ToSet(SubGraphIds)
    BY <2>1 DEF Sub
  <2> QED
    BY <2>2, FlowAssumption
<1> HIDE DEF h
<1>3. ASSUME blank  PROVE ~Renders(h)
  <2>1. Blank \in DOMAIN h \ Labelled
    BY <1>0, <1>1, <1>2, <1>3
  <2>2. ASSUME NEW w \in DOMAIN h  PROVE h[w] # Blank
    <3> DEFINE S == {i \in DOMAIN subGraphs : w \in Named(i)}
               c == CHOOSE i \in S : \A j \in S : i <= j
    <3>1. h[w] = IF S = {} THEN Top ELSE subGraphs[c].id
      BY <1>0, Zenon DEF FirstNaming
    <3>2. CASE S = {}
      BY <3>1, <3>2 DEF Blank, Top
    <3>3. CASE S # {}
      <4>1. S \in SUBSET Nat
        BY <1>1, SubIs
      <4>2. \E i \in S : \A j \in S : i <= j
        <5> HIDE DEF S
        <5> QED
          BY <3>3, <4>1, LeastElement
      <4>3. c \in S
        <5> HIDE DEF S
        <5> QED
          BY <4>2, Zenon
      <4> HIDE DEF c
      <4>4. h[w] \in ids
        BY <3>1, <3>3, <4>3
      <4> QED
        BY <1>2, <4>4
    <3> QED
      BY <3>2, <3>3
  <2> QED
    BY <2>1, <2>2 DEF Renders
<1>4. ASSUME ~blank, NEW v \in DOMAIN h, v \notin Labelled  PROVE FALSE
  <2>1. v = Blank /\ Blank \notin vertices /\ v \in DOMAIN f
    BY <1>0, <1>1, <1>4
  <2>2. PICK j \in 1 .. Len(subGraphs) : v = subGraphs[j].id \/ v \in Named(j)
    BY <1>0, <2>1
  <2>3. v # subGraphs[j].id
    BY <1>1, <1>2, <2>1
  <2> QED
    BY <1>1, <1>4, <2>1, <2>2, <2>3
<1>5. ~blank => Renders(h)
  BY <1>4 DEF Renders
<1> QED
  BY <1>3, <1>5 DEF h

\* The layout fails exactly at a link with a subgraph that something is drawn in.
LEMMA LaidOutIs ==
  ASSUME FlowGood, NEW f, Placed(f, 0, 0)
  PROVE  LaidOut(AddVertices(f))
           <=> ~\E cnt \in DOMAIN edges : ToSet(edges[cnt]) \cap Filled # {}
<1> DEFINE h == AddVertices(f)
<1>0. /\ DOMAIN subGraphs = 1 .. Len(subGraphs)
      /\ DOMAIN h = DOMAIN f \cup Labelled
      /\ \A v \in DOMAIN h : h[v] = FirstNaming(v)
      /\ \A v : \A j \in 1 .. Len(subGraphs) : v \in Named(j) => v \in DOMAIN f
  BY ParentIs, SubIs DEF AddVertices, FlowGood
<1> HIDE DEF h
<1>1. ASSUME NEW cnt \in DOMAIN edges, NEW v \in ToSet(edges[cnt]), v \in Filled
      PROVE  ~LaidOut(h)
  <2>1. PICK i \in DOMAIN subGraphs : \E w \in Named(i) : v = FirstNaming(w)
    BY <1>1 DEF Filled
  <2>2. PICK w \in Named(i) : v = FirstNaming(w)
    BY <2>1
  <2>3. w \in DOMAIN h /\ h[w] = v
    BY <1>0, <2>2
  <2> QED
    BY <1>1, <2>3 DEF LaidOut
<1>2. ASSUME NEW cnt \in DOMAIN edges, NEW v \in ToSet(edges[cnt]), NEW w \in DOMAIN h, h[w] = v
      PROVE  v \in Filled
  <2>1. v # Top
    <3>1. edges[cnt] \in Links
      BY ElementOfSeq, LenProperties DEF FlowGood, FlowTypes
    <3>2. PICK a \in Vertex, b \in Vertex : edges[cnt] = <<a, b>>
      BY <3>1, FlowAssumption
    <3>3. v = a \/ v = b
      BY <3>2 DEF ToSet
    <3> QED
      BY <3>3, FlowAssumption
  <2>2. {i \in DOMAIN subGraphs : w \in Named(i)} # {}
    BY <1>0, <1>2, <2>1, Zenon DEF FirstNaming
  <2> QED
    BY <1>0, <1>2, <2>2 DEF Filled
<1>3. ASSUME ~LaidOut(h)
      PROVE  \E cnt \in DOMAIN edges : ToSet(edges[cnt]) \cap Filled # {}
  BY <1>2, <1>3 DEF LaidOut
<1> QED
  BY <1>1, <1>3 DEF h

\* A subgraph whose id is not written is drawn in the one around it.
LEMMA AroundIs ==
  ASSUME FlowGood, NEW i \in 1 .. Len(subGraphs), NEW j \in 1 .. Len(subGraphs),
         subGraphs[i].id \notin vertices, subGraphs[i].around = subGraphs[j].begun
  PROVE  FirstNaming(subGraphs[i].id) = subGraphs[j].id
<1> DEFINE id == subGraphs[i].id
           S == {m \in DOMAIN subGraphs : id \in Named(m)}
           c == CHOOSE m \in S : \A l \in S : m <= l
<1>0. DOMAIN subGraphs = 1 .. Len(subGraphs) /\ Len(subGraphs) \in Nat
  BY SubIs DEF FlowGood
<1>1. \A m \in 1 .. Len(subGraphs) : id \in Named(m) <=> m = j
  <2>1. \A m \in 1 .. Len(subGraphs) :
          id \in Named(m) <=> subGraphs[i].around = subGraphs[m].begun
    BY DEF FlowGood, Nested
  <2>2. \A m \in 1 .. Len(subGraphs) : subGraphs[m].begun = subGraphs[j].begun => m = j
    BY DEF FlowGood, BegunOnce
  <2> QED
    BY <2>1, <2>2
<1>2. S = {j}
  BY <1>0, <1>1
<1>3. FirstNaming(id) = IF S = {} THEN Top ELSE subGraphs[c].id
  BY Zenon DEF FirstNaming
<1>4. c = j
  <2>1. j \in S /\ \A l \in S : j <= l
    BY <1>0, <1>2
  <2>2. c \in S
    <3> HIDE DEF S
    <3> QED
      BY <2>1, Zenon
  <2> HIDE DEF c
  <2> QED
    BY <1>2, <2>2
<1> HIDE DEF S, c
<1> QED
  BY <1>2, <1>3, <1>4

\* What draw() makes.
Drawn1 ==
  LET g == SetParents
      parent == AddVertices(g.parent)
  IN  IF g.how # "none" THEN [parent |-> g.parent, edges |-> {}, how |-> g.how]
      ELSE [parent |-> parent, edges |-> AddEdges,
            how |-> IF ~Renders(parent) THEN "unlabelled"
                    ELSE IF ~LaidOut(parent) THEN "rank"
                    ELSE IF ~Indexed THEN "index"
                    ELSE IF ~Boxed THEN "boxes" ELSE "drawn"]

\* What draw() makes is right.
LEMMA DrawnRight ==
  ASSUME FlowGood
  PROVE  RightOf(Drawn1)
<1> DEFINE ids == {subGraphs[i].id : i \in DOMAIN subGraphs}
           blank == Blank \notin vertices /\ \E i \in DOMAIN subGraphs : Blank \in Named(i)
           long == Cardinality(Chains(Len(subGraphs))) > MaxSections
           linked == \E cnt \in DOMAIN edges : ToSet(edges[cnt]) \cap Filled # {}
           gr == Drawn1
<1>1. Loop(SetParents, 0, 0)
  BY ParentsRight DEF FlowGood
<1>2. CASE SetParents.how = "cycle" /\ Circular
  <2>1. gr.how = "cycle"
    <3>1. gr = [parent |-> SetParents.parent, edges |-> {}, how |-> SetParents.how]
      BY <1>2 DEF Drawn1
    <3> QED
      BY <1>2, <3>1
  <2> HIDE DEF gr
  <2> QED
    BY <1>2, <2>1 DEF RightOf, gr
<1>3. ASSUME NEW f, SetParents = [parent |-> f, how |-> "none"], Placed(f, 0, 0)
      PROVE  RightOf(gr)
  <2> DEFINE h == AddVertices(f)
             how == IF ~Renders(h) THEN "unlabelled"
                    ELSE IF ~LaidOut(h) THEN "rank"
                    ELSE IF ~Indexed THEN "index"
                    ELSE IF ~Boxed THEN "boxes" ELSE "drawn"
  <2>1. gr = [parent |-> h, edges |-> AddEdges, how |-> how]
    <3>1. SetParents.how = "none" /\ SetParents.parent = f
      BY <1>3
    <3> QED
      BY <3>1 DEF Drawn1
  <2>2. (Renders(h) <=> ~blank) /\ (LaidOut(h) <=> ~linked)
    BY <1>3, RendersIs, LaidOutIs
  <2>3. ~Circular => (Indexed <=> ~long)
    BY IndexedRight DEF FlowGood
  <2>4. htmlLabels => Boxed
    BY DEF Boxed
  <2>5. /\ DOMAIN h \ {Blank} = (vertices \cup ids) \ {Blank}
        /\ \A v \in DOMAIN h : h[v] = FirstNaming(v)
        /\ DOMAIN h = DOMAIN f \cup Labelled
    BY <1>3, ParentIs DEF AddVertices
  <2>6. ASSUME NEW i \in DOMAIN subGraphs, NEW j \in DOMAIN subGraphs,
               subGraphs[i].id \notin vertices, subGraphs[i].around = subGraphs[j].begun
        PROVE  h[subGraphs[i].id] = subGraphs[j].id
    <3>1. i \in 1 .. Len(subGraphs) /\ j \in 1 .. Len(subGraphs)
      BY SubIs DEF FlowGood
    <3>2. FirstNaming(subGraphs[i].id) = subGraphs[j].id
      BY <2>6, <3>1, AroundIs
    <3>3. subGraphs[i].id \in DOMAIN h
      BY <2>5 DEF Labelled
    <3> HIDE DEF h
    <3> QED
      BY <2>5, <3>2, <3>3
  <2>7. Cardinality(AddEdges) = Len(edges)
    BY EdgesMany DEF FlowGood
  <2>8. gr.parent = h /\ gr.edges = AddEdges /\ gr.how = how
    <3> HIDE DEF gr, h, how
    <3> QED
      BY <2>1
  <2>9. /\ htmlLabels /\ ~Circular /\ ~long /\ ~blank /\ ~linked => how = "drawn"
        /\ blank \/ linked => how # "drawn"
        /\ ~Circular /\ long => how # "drawn"
        /\ how # "cycle"
        /\ how = "index" => Circular \/ long
    <3> HIDE DEF h, blank, long, linked
    <3> QED
      BY <2>2, <2>3, <2>4
  <2> HIDE DEF gr, h, how, blank, long, linked, ids
  <2> QED
    BY <2>5, <2>6, <2>7, <2>8, <2>9 DEF RightOf, gr, blank, long, linked, ids
<1> QED
  BY <1>1, <1>2, <1>3 DEF Loop

\* A part of a text, with another list.
LEMMA WithList ==
  ASSUME NEW o \in Open, NEW t
  PROVE  [o EXCEPT !.list = t] = [list |-> t, begun |-> o.begun]
BY DEF Open

\* What a list that is put together has.
LEMMA ConcatElements ==
  ASSUME NEW S, NEW s \in Seq(S), NEW t \in Seq(S)
  PROVE  ToSet(s \o t) = ToSet(s) \cup ToSet(t)
<1> DEFINE u == s \o t
<1>1. /\ u \in Seq(S) /\ Len(u) = Len(s) + Len(t)
      /\ \A i \in 1 .. Len(s) + Len(t) : u[i] = IF i <= Len(s) THEN s[i] ELSE t[i - Len(s)]
  BY ConcatProperties
<1>2. /\ Len(s) \in Nat /\ DOMAIN s = 1 .. Len(s) /\ Len(t) \in Nat /\ DOMAIN t = 1 .. Len(t)
      /\ DOMAIN u = 1 .. Len(u)
  BY <1>1, LenProperties
<1> HIDE DEF u
<1>3. ASSUME NEW i \in DOMAIN u  PROVE u[i] \in ToSet(s) \cup ToSet(t)
  <2>1. i \in 1 .. Len(s) + Len(t)
    BY <1>1, <1>2
  <2>2. CASE i <= Len(s)
    BY <1>1, <1>2, <2>1, <2>2 DEF ToSet
  <2>3. CASE ~(i <= Len(s))
    <3>1. i - Len(s) \in DOMAIN t /\ u[i] = t[i - Len(s)]
      BY <1>1, <1>2, <2>1, <2>3
    <3> QED
      BY <3>1 DEF ToSet
  <2> QED
    BY <2>2, <2>3
<1>4. ASSUME NEW i \in DOMAIN s  PROVE s[i] \in ToSet(u)
  <2>1. i \in DOMAIN u /\ u[i] = s[i]
    BY <1>1, <1>2
  <2> QED
    BY <2>1 DEF ToSet
<1>5. ASSUME NEW i \in DOMAIN t  PROVE t[i] \in ToSet(u)
  <2>1. i + Len(s) \in DOMAIN u /\ ~(i + Len(s) <= Len(s)) /\ (i + Len(s)) - Len(s) = i
    BY <1>1, <1>2
  <2>2. u[i + Len(s)] = t[i]
    BY <1>1, <1>2, <2>1
  <2> QED
    BY <2>1, <2>2 DEF ToSet
<1>6. ToSet(u) \subseteq ToSet(s) \cup ToSet(t)
  BY <1>3 DEF ToSet
<1>7. ToSet(s) \subseteq ToSet(u) /\ ToSet(t) \subseteq ToSet(u)
  BY <1>4, <1>5 DEF ToSet
<1> QED
  BY <1>6, <1>7 DEF u

\* The ids are made, no line is empty by them, and each is made once.
LEMMA IdIs ==
  ASSUME SubsGood, NEW i \in 1 .. Len(subGraphs)
  PROVE  subGraphs[i].id \in ToSet(SubGraphIds) /\ subGraphs[i].id # Blank
<1>1. subGraphs[i] \in Sub
  BY ElementOfSeq DEF SubsGood
<1>2. subGraphs[i].id \in ToSet(SubGraphIds)
  BY <1>1 DEF Sub
<1> QED
  BY <1>2, FlowAssumption

\* A statement keeps all that is good.
LEMMA ReadGood ==
  ASSUME FlowGood, NEW names \in Seq(Text), Read(names),
         vertices \subseteq vertices', vertices' \in SUBSET Vertex, edges' \in Seq(Links),
         ToSet(names) \subseteq vertices' \cup {Blank}
  PROVE  FlowGood'
<1> DEFINE n == Len(subGraphs)
           l == Len(open)
<1>0. /\ subGraphs' = subGraphs /\ open \in Seq(Open) /\ l \in Nat
      /\ \A k \in 1 .. l : open[k] \in Open
      /\ SubsGood /\ NamesKnown /\ BegunOnce /\ Nested
  BY LenProperties, ElementOfSeq DEF FlowGood, FlowTypes, Read
<1>1. /\ open' \in Seq(Open) /\ Len(open') = l
      /\ \A k \in 1 .. l : /\ open'[k].begun = open[k].begun
                           /\ ToSet(open'[k].list) = ToSet(open[k].list)
                                \/ ToSet(open'[k].list) = ToSet(open[k].list) \cup ToSet(names)
  <2>1. CASE open = << >>
    <3>1. open' = open
      BY <2>1 DEF Read
    <3> QED
      BY <1>0, <3>1
  <2>2. CASE open # << >>
    <3>1. l \in 1 .. l
      BY <1>0, <2>2
    <3> DEFINE list == open[l].list
               e == [list |-> list \o names, begun |-> open[l].begun]
    <3>2. open[l] \in Open /\ list \in Seq(Text) /\ open[l].begun \in Nat
      BY <1>0, <3>1 DEF Open
    <3>3. open' = [open EXCEPT ![l] = [open[l] EXCEPT !.list = open[l].list \o names]]
      BY <2>2 DEF Read
    <3>4. [open[l] EXCEPT !.list = open[l].list \o names] = e
      BY <3>2, WithList
    <3>5. list \o names \in Seq(Text)
      BY <3>2, ConcatProperties
    <3>6. e \in Open /\ e.begun = open[l].begun /\ e.list = list \o names
      BY <3>2, <3>5 DEF Open
    <3>7. ToSet(e.list) = ToSet(open[l].list) \cup ToSet(names)
      BY <3>2, <3>6, ConcatElements
    <3> HIDE DEF e, list
    <3>8. open' = [open EXCEPT ![l] = e]
      BY <3>3, <3>4
    <3>9. /\ open' \in Seq(Open) /\ Len(open') = l
          /\ \A k \in 1 .. l : open'[k] = IF k = l THEN e ELSE open[k]
      <4> HIDE DEF l
      <4>1. l \in 1 .. Len(open) /\ e \in Open /\ open \in Seq(Open)
        BY <1>0, <3>1, <3>6 DEF l
      <4> QED
        BY <3>8, <4>1, ExceptSeq DEF l
    <3> HIDE DEF l
    <3> QED
      BY <3>6, <3>7, <3>9
  <2> QED
    BY <2>1, <2>2
<1>2. /\ statements' \in [read : Nat, begun : Nat] /\ statements'.begun = statements.begun
  BY DEF Read, FlowGood, FlowTypes
<1>3. SubsGood'
  BY <1>0 DEF SubsGood
<1>4. FlowTypes'
  BY <1>1, <1>2 DEF FlowTypes
<1>5. NamesKnown'
  <2>1. Known \subseteq Known' /\ ToSet(names) \subseteq Known'
    BY <1>0 DEF Known
  <2>2. ASSUME NEW i \in 1 .. n  PROVE Named(i)' \subseteq Known'
    <3>1. Named(i)' = Named(i)
      BY <1>0 DEF Named
    <3> QED
      BY <1>0, <2>1, <3>1 DEF NamesKnown
  <2>3. ASSUME NEW k \in 1 .. l  PROVE ToSet(open'[k].list) \subseteq Known'
    <3>1. ToSet(open[k].list) \subseteq Known
      BY <1>0 DEF NamesKnown
    <3>2. \/ ToSet(open'[k].list) = ToSet(open[k].list)
          \/ ToSet(open'[k].list) = ToSet(open[k].list) \cup ToSet(names)
      BY <1>1
    <3> QED
      BY <2>1, <3>1, <3>2
  <2> HIDE DEF n, l
  <2>4. Len(subGraphs') = n /\ Len(open') = l
    BY <1>0, <1>1 DEF n
  <2> QED
    BY <2>2, <2>3, <2>4 DEF NamesKnown
<1>6. BegunOnce'
  <2>1. /\ n + l = statements.begun /\ statements.begun <= Len(SubGraphIds)
        /\ \A i \in 1 .. n : /\ subGraphs[i].begun \in 1 .. statements.begun
                             /\ subGraphs[i].around \in 0 .. statements.begun
        /\ \A k \in 1 .. l : open[k].begun \in 1 .. statements.begun
        /\ \A i, j \in 1 .. n : subGraphs[i].begun = subGraphs[j].begun => i = j
        /\ \A k, m \in 1 .. l : open[k].begun = open[m].begun => k = m
        /\ \A i \in 1 .. n, k \in 1 .. l : subGraphs[i].begun # open[k].begun
    BY <1>0 DEF BegunOnce
  <2> HIDE DEF n, l
  <2>2. /\ \A k \in 1 .. l : open'[k].begun \in 1 .. statements.begun
        /\ \A k, m \in 1 .. l : open'[k].begun = open'[m].begun => k = m
        /\ \A i \in 1 .. n, k \in 1 .. l : subGraphs[i].begun # open'[k].begun
    BY <1>1, <2>1
  <2>3. /\ Len(subGraphs') = n /\ subGraphs' = subGraphs /\ Len(open') = l
        /\ statements'.begun = statements.begun
    BY <1>0, <1>1, <1>2 DEF n
  <2> QED
    BY <2>1, <2>2, <2>3 DEF BegunOnce
<1>7. Nested'
  <2>1. ASSUME NEW i \in 1 .. n, subGraphs[i].id \notin vertices'
        PROVE  /\ \A j \in 1 .. n :
                    subGraphs[i].id \in Named(j) <=> subGraphs[i].around = subGraphs[j].begun
               /\ \A k \in 1 .. l :
                    subGraphs[i].id \in ToSet(open'[k].list) <=> subGraphs[i].around = open'[k].begun
    <3>1. subGraphs[i].id \notin vertices /\ subGraphs[i].id \notin ToSet(names)
      BY <1>0, <2>1, IdIs
    <3>2. ASSUME NEW k \in 1 .. l
          PROVE  subGraphs[i].id \in ToSet(open'[k].list) <=> subGraphs[i].around = open'[k].begun
      <4>1. subGraphs[i].id \in ToSet(open[k].list) <=> subGraphs[i].around = open[k].begun
        BY <1>0, <3>1 DEF Nested
      <4>2. subGraphs[i].id \in ToSet(open'[k].list) <=> subGraphs[i].id \in ToSet(open[k].list)
        BY <1>1, <3>1
      <4>3. open'[k].begun = open[k].begun
        BY <1>1
      <4> QED
        BY <4>1, <4>2, <4>3
    <3>3. \A j \in 1 .. n :
            subGraphs[i].id \in Named(j) <=> subGraphs[i].around = subGraphs[j].begun
      BY <1>0, <3>1 DEF Nested
    <3> QED
      BY <3>2, <3>3
  <2>2. \A j : Named(j)' = Named(j)
    BY <1>0 DEF Named
  <2> HIDE DEF n, l
  <2>3. Len(subGraphs') = n /\ Len(open') = l /\ subGraphs' = subGraphs
    BY <1>0, <1>1 DEF n
  <2> QED
    BY <2>1, <2>2, <2>3 DEF Nested
<1> QED
  BY <1>3, <1>4, <1>5, <1>6, <1>7 DEF FlowGood

\* The beginning of a subgraph keeps all that is good.
LEMMA BeginGood ==
  ASSUME FlowGood, BeginSubGraph
  PROVE  FlowGood'
<1> DEFINE n == Len(subGraphs)
           l == Len(open)
           b == statements.begun
           e == [list |-> << >>, begun |-> b + 1]
<1>0. /\ subGraphs' = subGraphs /\ vertices' = vertices /\ edges' = edges
      /\ open \in Seq(Open) /\ l \in Nat /\ n \in Nat /\ b \in Nat
      /\ SubsGood /\ NamesKnown /\ BegunOnce /\ Nested
      /\ b < Len(SubGraphIds) /\ open' = Append(open, e)
  BY SubIs, LenProperties DEF FlowGood, FlowTypes, BeginSubGraph
<1>1. /\ statements' \in [read : Nat, begun : Nat] /\ statements'.begun = b + 1
  BY DEF BeginSubGraph, FlowGood, FlowTypes
<1>2. e \in Open /\ e.begun = b + 1 /\ ToSet(e.list) = {}
  <2>1. << >> \in Seq(Text) /\ b + 1 \in Nat
    BY <1>0
  <2>2. ToSet(<< >>) = {}
    BY DEF ToSet
  <2> HIDE DEF b
  <2> QED
    BY <2>1, <2>2 DEF Open
<1> HIDE DEF e
<1>3. /\ open' \in Seq(Open) /\ Len(open') = l + 1 /\ open'[l + 1] = e
      /\ \A k \in 1 .. l : open'[k] = open[k]
  BY <1>0, <1>2
<1>4. \A k \in 1 .. l + 1 : k \in 1 .. l \/ k = l + 1
  BY <1>0
<1>5. Len(SubGraphIds) \in Nat
  BY LenProperties, FlowAssumption
<1>6. SubsGood'
  BY <1>0 DEF SubsGood
<1>7. FlowTypes'
  BY <1>0, <1>1, <1>3 DEF FlowTypes, FlowGood
<1>8. NamesKnown'
  <2>1. Known' = Known /\ \A i : Named(i)' = Named(i)
    BY <1>0 DEF Known, Named
  <2>2. ASSUME NEW k \in 1 .. l + 1  PROVE ToSet(open'[k].list) \subseteq Known
    BY <1>0, <1>2, <1>3, <1>4 DEF NamesKnown
  <2> HIDE DEF l
  <2> QED
    BY <1>0, <1>3, <2>1, <2>2 DEF NamesKnown
<1> HIDE DEF n, l, b
<1>9. BegunOnce'
  <2>1. /\ n + l = b
        /\ \A i \in 1 .. n : subGraphs[i].begun \in 1 .. b /\ subGraphs[i].around \in 0 .. b
        /\ \A k \in 1 .. l : open[k].begun \in 1 .. b
        /\ \A i, j \in 1 .. n : subGraphs[i].begun = subGraphs[j].begun => i = j
        /\ \A k, m \in 1 .. l : open[k].begun = open[m].begun => k = m
        /\ \A i \in 1 .. n, k \in 1 .. l : subGraphs[i].begun # open[k].begun
    BY <1>0 DEF BegunOnce, n, l, b
  <2>2. /\ n + (l + 1) = b + 1 /\ b + 1 <= Len(SubGraphIds)
    BY <1>0, <1>5, <2>1
  <2>3. \A i \in 1 .. n : subGraphs[i].begun \in 1 .. b + 1 /\ subGraphs[i].around \in 0 .. b + 1
    BY <1>0, <2>1
  <2>4. \A k \in 1 .. l + 1 : open'[k].begun \in 1 .. b + 1
    BY <1>0, <1>2, <1>3, <1>4, <2>1
  <2>5. ASSUME NEW k \in 1 .. l + 1, NEW m \in 1 .. l + 1, open'[k].begun = open'[m].begun
        PROVE  k = m
    <3>1. \A q \in 1 .. l : open'[q].begun # b + 1
      BY <1>0, <1>3, <2>1
    <3>2. CASE k = l + 1 \/ m = l + 1
      BY <1>2, <1>3, <1>4, <2>5, <3>1, <3>2
    <3>3. CASE k \in 1 .. l /\ m \in 1 .. l
      BY <1>3, <2>1, <2>5, <3>3
    <3> QED
      BY <1>4, <3>2, <3>3
  <2>6. ASSUME NEW i \in 1 .. n, NEW k \in 1 .. l + 1  PROVE subGraphs[i].begun # open'[k].begun
    <3>1. subGraphs[i].begun # b + 1
      BY <1>0, <2>1
    <3> QED
      BY <1>2, <1>3, <1>4, <2>1, <3>1
  <2>7. Len(subGraphs') = n /\ subGraphs' = subGraphs /\ Len(open') = l + 1
        /\ statements'.begun = b + 1
    BY <1>0, <1>1, <1>3 DEF n
  <2> QED
    BY <2>1, <2>2, <2>3, <2>4, <2>5, <2>6, <2>7 DEF BegunOnce
<1>10. Nested'
  <2>1. ASSUME NEW i \in 1 .. n, subGraphs[i].id \notin vertices, NEW k \in 1 .. l + 1
        PROVE  subGraphs[i].id \in ToSet(open'[k].list) <=> subGraphs[i].around = open'[k].begun
    <3>1. CASE k \in 1 .. l
      BY <1>0, <1>3, <2>1, <3>1 DEF Nested, n, l
    <3>2. CASE k = l + 1
      <4>1. subGraphs[i].around \in 0 .. b
        BY <1>0 DEF BegunOnce, n, b
      <4>2. subGraphs[i].around # b + 1
        BY <1>0, <4>1
      <4> QED
        BY <1>2, <1>3, <3>2, <4>2
    <3> QED
      BY <1>4, <3>1, <3>2
  <2>2. \A i \in 1 .. n : subGraphs[i].id \notin vertices =>
          \A j \in 1 .. n : subGraphs[i].id \in Named(j) <=> subGraphs[i].around = subGraphs[j].begun
    BY <1>0 DEF Nested, n
  <2>3. \A j : Named(j)' = Named(j)
    BY <1>0 DEF Named
  <2>4. /\ Len(subGraphs') = n /\ subGraphs' = subGraphs /\ Len(open') = l + 1
        /\ vertices' = vertices
    BY <1>0, <1>3 DEF n
  <2> QED
    BY <2>1, <2>2, <2>3, <2>4 DEF Nested
<1> QED
  BY <1>6, <1>7, <1>8, <1>9, <1>10 DEF FlowGood

\* What a subgraph is when it ends, and what it is in then.
LEMMA EndedIs ==
  ASSUME FlowGood, AddSubGraph
  PROVE  LET n == Len(subGraphs)
             l == Len(open)
             id == SubGraphIds[n + 1]
             around == IF l = 1 THEN 0 ELSE open[l - 1].begun
         IN  /\ n \in Nat /\ l \in Nat /\ l > 0 /\ n + 1 \in 1 .. Len(SubGraphIds)
             /\ id \in ToSet(SubGraphIds) /\ id # Blank
             /\ \A i \in 1 .. n : subGraphs[i].id # id
             /\ subGraphs' \in Seq(Sub) /\ Len(subGraphs') = n + 1
             /\ \A i \in 1 .. n : subGraphs'[i] = subGraphs[i]
             /\ subGraphs'[n + 1].id = id
             /\ subGraphs'[n + 1].begun = open[l].begun
             /\ subGraphs'[n + 1].around = around
             /\ ToSet(subGraphs'[n + 1].nodes) = ToSet(open[l].list)
             /\ \A k, m \in 1 .. Len(subGraphs'[n + 1].nodes) :
                  subGraphs'[n + 1].nodes[k] = subGraphs'[n + 1].nodes[m] => k = m
             /\ open' \in Seq(Open) /\ Len(open') = l - 1
             /\ \A k \in 1 .. l - 1 :
                  /\ open'[k].begun = open[k].begun
                  /\ k # l - 1 => ToSet(open'[k].list) = ToSet(open[k].list)
                  /\ k = l - 1 => ToSet(open'[k].list) = ToSet(open[k].list) \cup {id}
<1> DEFINE n == Len(subGraphs)
           l == Len(open)
           id == SubGraphIds[n + 1]
           around == IF l = 1 THEN 0 ELSE open[l - 1].begun
           nodes == Uniq(open[l].list)
           e == [id |-> id, nodes |-> nodes, begun |-> open[l].begun, around |-> around]
<1>0. /\ n \in Nat /\ l \in Nat /\ l > 0 /\ Len(SubGraphIds) \in Nat
      /\ open \in Seq(Open) /\ SubsGood /\ subGraphs \in Seq(Sub) /\ BegunOnce
      /\ DOMAIN SubGraphIds = 1 .. Len(SubGraphIds)
  <2>1. open \in Seq(Open) /\ open # << >>
    BY DEF FlowGood, FlowTypes, AddSubGraph
  <2>2. l \in Nat \ {0}
    BY <2>1, EmptySeq
  <2> QED
    BY <2>1, <2>2, SubIs, LenProperties, FlowAssumption DEF FlowGood, SubsGood
<1>1. n + 1 \in 1 .. Len(SubGraphIds)
  BY <1>0 DEF BegunOnce, FlowGood, FlowTypes
<1>2. id \in ToSet(SubGraphIds) /\ id # Blank
  BY <1>0, <1>1, FlowAssumption DEF ToSet
<1>3. ASSUME NEW i \in 1 .. n  PROVE subGraphs[i].id # id
  <2>1. subGraphs[i].id = SubGraphIds[i]
    BY <1>0 DEF SubsGood
  <2>2. i \in DOMAIN SubGraphIds /\ n + 1 \in DOMAIN SubGraphIds /\ i # n + 1
    BY <1>0, <1>1
  <2> QED
    BY <2>1, <2>2, FlowAssumption
<1>4. \A k \in 1 .. l : open[k].list \in Seq(Text) /\ open[k].begun \in Nat /\ open[k] \in Open
  <2>1. \A k \in 1 .. l : open[k] \in Open
    BY <1>0, ElementOfSeq
  <2> HIDE DEF l
  <2> QED
    BY <2>1 DEF Open
<1>5. l \in 1 .. l /\ (l # 1 => l - 1 \in 1 .. l)
  <2> HIDE DEF l
  <2> QED
    BY <1>0
<1>6. /\ nodes \in Seq(Text) /\ ToSet(nodes) = ToSet(open[l].list)
      /\ \A k, m \in 1 .. Len(nodes) : nodes[k] = nodes[m] => k = m
  BY <1>4, <1>5, UniqIs
<1>7. around \in Nat
  BY <1>4, <1>5
<1>8. subGraphs' = Append(subGraphs, e)
  <2>1. Last(open) = open[l]
    BY DEF Last
  <2> QED
    BY <2>1, Zenon DEF AddSubGraph
<1>9. /\ open' = [i \in 1 .. l - 1 |->
                    IF i = l - 1 THEN [open[i] EXCEPT !.list = Append(open[i].list, id)] ELSE open[i]]
  BY DEF AddSubGraph
<1> HIDE DEF nodes, around, id
<1>10. e \in Sub /\ e.id = id /\ e.begun = open[l].begun /\ e.around = around /\ e.nodes = nodes
  BY <1>2, <1>4, <1>5, <1>6, <1>7 DEF Sub
<1> HIDE DEF e
<1>11. /\ subGraphs' \in Seq(Sub) /\ Len(subGraphs') = n + 1 /\ subGraphs'[n + 1] = e
       /\ \A i \in 1 .. n : subGraphs'[i] = subGraphs[i]
  BY <1>0, <1>8, <1>10
<1> HIDE DEF n, l
<1>12. ASSUME NEW k \in 1 .. l - 1
       PROVE  /\ open'[k] \in Open /\ open'[k].begun = open[k].begun
              /\ k # l - 1 => ToSet(open'[k].list) = ToSet(open[k].list)
              /\ k = l - 1 => ToSet(open'[k].list) = ToSet(open[k].list) \cup {id}
  <2>0. k \in 1 .. l
    BY <1>0
  <2>1. CASE k = l - 1
    <3>1. open'[k] = [open[k] EXCEPT !.list = Append(open[k].list, id)]
      BY <1>9, <2>1
    <3>2. open'[k] = [list |-> Append(open[k].list, id), begun |-> open[k].begun]
      BY <1>4, <2>0, <3>1, WithList
    <3>3. id \in Text
      BY <1>2 DEF Text
    <3>4. open[k].list \in Seq(Text) /\ open[k].begun \in Nat
      BY <1>4, <2>0
    <3>5. ToSet(Append(open[k].list, id)) = ToSet(open[k].list) \cup {id}
      BY <3>4, AppendElements
    <3>6. Append(open[k].list, id) \in Seq(Text)
      BY <3>3, <3>4
    <3> QED
      BY <2>1, <3>2, <3>4, <3>5, <3>6 DEF Open
  <2>2. CASE k # l - 1
    <3>1. open'[k] = open[k]
      BY <1>9, <2>2
    <3> QED
      BY <1>4, <2>0, <2>2, <3>1
  <2> QED
    BY <2>1, <2>2
<1>13. open' \in Seq(Open) /\ Len(open') = l - 1
  <2>1. l - 1 \in Nat
    BY <1>0
  <2>2. open' \in [1 .. l - 1 -> Open]
    <3>1. DOMAIN open' = 1 .. l - 1 /\ open' = [k \in 1 .. l - 1 |-> open'[k]]
      BY <1>9
    <3> QED
      BY <1>12, <3>1
  <2>3. open' \in Seq(Open)
    BY <2>1, <2>2, SeqDef
  <2>4. Len(open') \in Nat /\ DOMAIN open' = 1 .. Len(open') /\ DOMAIN open' = 1 .. l - 1
    BY <2>2, <2>3, LenProperties
  <2> QED
    BY <2>1, <2>3, <2>4
<1> QED
  BY <1>0, <1>1, <1>2, <1>3, <1>6, <1>10, <1>11, <1>12, <1>13 DEF n, l, id, around

\* The end of a subgraph keeps all that is good.
LEMMA EndGood ==
  ASSUME FlowGood, AddSubGraph
  PROVE  FlowGood'
<1> DEFINE n == Len(subGraphs)
           l == Len(open)
           b == statements.begun
           id == SubGraphIds[n + 1]
           around == IF l = 1 THEN 0 ELSE open[l - 1].begun
           list(k) == ToSet(open[k].list)
           more(k) == ToSet(open'[k].list)
           named(i) == ToSet(subGraphs[i].nodes)
           sub(i) == subGraphs'[i]
           after(i) == ToSet(sub(i).nodes)
<1>0. /\ n \in Nat /\ l \in Nat /\ l > 0 /\ n + 1 \in 1 .. Len(SubGraphIds)
      /\ id \in ToSet(SubGraphIds) /\ id # Blank
      /\ \A i \in 1 .. n : subGraphs[i].id # id
      /\ subGraphs' \in Seq(Sub) /\ Len(subGraphs') = n + 1
      /\ \A i \in 1 .. n : subGraphs'[i] = subGraphs[i]
      /\ subGraphs'[n + 1].id = id
      /\ subGraphs'[n + 1].begun = open[l].begun
      /\ subGraphs'[n + 1].around = around
      /\ ToSet(subGraphs'[n + 1].nodes) = list(l)
      /\ \A k, m \in 1 .. Len(subGraphs'[n + 1].nodes) :
           subGraphs'[n + 1].nodes[k] = subGraphs'[n + 1].nodes[m] => k = m
      /\ open' \in Seq(Open) /\ Len(open') = l - 1
      /\ \A k \in 1 .. l - 1 : /\ open'[k].begun = open[k].begun
                               /\ k # l - 1 => more(k) = list(k)
                               /\ k = l - 1 => more(k) = list(k) \cup {id}
  BY EndedIs
<1>1. /\ vertices' = vertices /\ edges' = edges /\ statements' = statements /\ b \in Nat
      /\ FlowTypes
  BY DEF AddSubGraph, FlowGood, FlowTypes
<1>2. /\ SubsGood
      /\ \A i \in 1 .. n : named(i) \subseteq Known /\ subGraphs[i].id # Blank
      /\ \A k \in 1 .. l : list(k) \subseteq Known
  BY IdIs DEF FlowGood, NamesKnown, Named
<1>3. /\ n + l = b /\ b <= Len(SubGraphIds)
      /\ \A i \in 1 .. n : subGraphs[i].begun \in 1 .. b /\ subGraphs[i].around \in 0 .. b
      /\ \A k \in 1 .. l : open[k].begun \in 1 .. b
      /\ \A i, j \in 1 .. n : subGraphs[i].begun = subGraphs[j].begun => i = j
      /\ \A k, m \in 1 .. l : open[k].begun = open[m].begun => k = m
      /\ \A i \in 1 .. n, k \in 1 .. l : subGraphs[i].begun # open[k].begun
  BY DEF FlowGood, BegunOnce
<1>4. \A i \in 1 .. n : subGraphs[i].id \notin vertices =>
        /\ \A j \in 1 .. n :
             subGraphs[i].id \in named(j) <=> subGraphs[i].around = subGraphs[j].begun
        /\ \A k \in 1 .. l : subGraphs[i].id \in list(k) <=> subGraphs[i].around = open[k].begun
  BY DEF FlowGood, Nested, Named
<1>5. /\ \A i \in 1 .. n : after(i) = named(i)
      /\ after(n + 1) = list(l)
  <2>1. after(n + 1) = list(l)
    BY <1>0
  <2>2. ASSUME NEW i \in 1 .. n  PROVE after(i) = named(i)
    BY <1>0
  <2> QED
    BY <2>1, <2>2
<1> HIDE DEF n, l, id, list, more, named, around, b, after
<1>6. /\ l \in 1 .. l /\ \A k \in 1 .. l - 1 : k \in 1 .. l /\ k # l
      /\ \A i \in 1 .. n + 1 : i \in 1 .. n \/ i = n + 1
      /\ n + 1 \in 1 .. n + 1 /\ \A i \in 1 .. n : i \in 1 .. n + 1
      /\ (l # 1 => l - 1 \in 1 .. l - 1 /\ l - 1 \in 1 .. l)
  BY <1>0
<1>7. SubsGood'
  <2>1. n + 1 <= Len(SubGraphIds)
    BY <1>0
  <2>2. ASSUME NEW i \in 1 .. n + 1
        PROVE  /\ subGraphs'[i].id = SubGraphIds[i]
               /\ \A k, m \in 1 .. Len(subGraphs'[i].nodes) :
                    subGraphs'[i].nodes[k] = subGraphs'[i].nodes[m] => k = m
    <3>1. CASE i \in 1 .. n
      <4>1. subGraphs'[i] = subGraphs[i]
        BY <1>0, <3>1
      <4>2. /\ subGraphs[i].id = SubGraphIds[i]
            /\ \A k, m \in 1 .. Len(subGraphs[i].nodes) :
                 subGraphs[i].nodes[k] = subGraphs[i].nodes[m] => k = m
        BY <1>2, <3>1, Zenon DEF SubsGood, n
      <4> QED
        BY <4>1, <4>2, Zenon
    <3>2. CASE i = n + 1
      BY <1>0, <3>2 DEF id
    <3> QED
      BY <1>6, <3>1, <3>2
  <2> QED
    BY <1>0, <2>1, <2>2 DEF SubsGood
<1>8. FlowTypes'
  BY <1>0, <1>1 DEF FlowTypes
<1>9. NamesKnown'
  <2>1. Known \subseteq Known' /\ id \in Known'
    <3>1. Known' = vertices \cup {subGraphs'[j].id : j \in 1 .. n + 1} \cup {Blank}
      BY <1>0, <1>1 DEF Known
    <3>2. Known = vertices \cup {subGraphs[j].id : j \in 1 .. n} \cup {Blank}
      BY DEF Known, n
    <3> QED
      BY <1>0, <1>6, <3>1, <3>2
  <2>2. ASSUME NEW i \in 1 .. n + 1  PROVE after(i) \subseteq Known'
    <3>1. CASE i \in 1 .. n
      BY <1>2, <1>5, <2>1, <3>1
    <3>2. CASE i = n + 1
      BY <1>2, <1>5, <1>6, <2>1, <3>2
    <3> QED
      BY <1>6, <3>1, <3>2
  <2>3. ASSUME NEW k \in 1 .. l - 1  PROVE more(k) \subseteq Known'
    <3>1. more(k) = list(k) \/ more(k) = list(k) \cup {id}
      BY <1>0
    <3> QED
      BY <1>2, <1>6, <2>1, <3>1
  <2> QED
    BY <1>0, <2>2, <2>3 DEF NamesKnown, Named, more, after
<1>10. around \in 0 .. b /\ (around = 0 \/ (l # 1 /\ around = open[l - 1].begun))
  BY <1>1, <1>3, <1>6 DEF around
<1>11. BegunOnce'
  <2>1. (n + 1) + (l - 1) = b
    BY <1>0, <1>3
  <2>2. ASSUME NEW i \in 1 .. n + 1
        PROVE  sub(i).begun \in 1 .. b /\ sub(i).around \in 0 .. b
    BY <1>0, <1>3, <1>6, <1>10
  <2>3. ASSUME NEW i \in 1 .. n + 1, NEW j \in 1 .. n + 1, sub(i).begun = sub(j).begun
        PROVE  i = j
    <3>1. CASE i \in 1 .. n /\ j \in 1 .. n
      BY <1>0, <1>3, <2>3, <3>1
    <3>2. CASE i = n + 1 \/ j = n + 1
      <4>1. \A m \in 1 .. n : sub(m).begun # sub(n + 1).begun
        BY <1>0, <1>3, <1>6
      <4> QED
        BY <1>6, <2>3, <3>2, <4>1
    <3> QED
      BY <1>6, <3>1, <3>2
  <2>4. ASSUME NEW i \in 1 .. n + 1, NEW k \in 1 .. l - 1  PROVE sub(i).begun # open'[k].begun
    <3>1. open'[k].begun = open[k].begun /\ k \in 1 .. l /\ k # l
      BY <1>0, <1>6
    <3>2. CASE i \in 1 .. n
      BY <1>0, <1>3, <3>1, <3>2
    <3>3. CASE i = n + 1
      BY <1>0, <1>3, <1>6, <3>1, <3>3
    <3> QED
      BY <1>6, <3>2, <3>3
  <2>5. \A k \in 1 .. l - 1 : open'[k].begun \in 1 .. b
    BY <1>0, <1>3, <1>6
  <2>6. \A k, m \in 1 .. l - 1 : open'[k].begun = open'[m].begun => k = m
    BY <1>0, <1>3, <1>6
  <2>7. Len(subGraphs') = n + 1 /\ Len(open') = l - 1 /\ statements'.begun = b
    BY <1>0, <1>1 DEF b
  <2> QED
    BY <1>3, <2>1, <2>2, <2>3, <2>4, <2>5, <2>6, <2>7 DEF BegunOnce
<1>12. Nested'
  <2>0. id \notin vertices => id \notin Known
    BY <1>0 DEF Known, n
  <2>1. ASSUME NEW i \in 1 .. n + 1, sub(i).id \notin vertices, NEW j \in 1 .. n + 1
        PROVE  sub(i).id \in after(j) <=> sub(i).around = sub(j).begun
    <3>1. CASE i \in 1 .. n /\ j \in 1 .. n
      BY <1>0, <1>4, <1>5, <2>1, <3>1
    <3>2. CASE i \in 1 .. n /\ j = n + 1
      BY <1>0, <1>4, <1>5, <1>6, <2>1, <3>2
    <3>3. CASE i = n + 1
      <4>1. sub(i).id = id /\ sub(i).around = around
        BY <1>0, <3>3
      <4>2. id \notin after(j)
        BY <1>2, <1>5, <1>6, <2>0, <2>1, <4>1
      <4>3. around # sub(j).begun
        <5>1. CASE j \in 1 .. n
          <6>1. sub(j).begun = subGraphs[j].begun /\ subGraphs[j].begun # 0
            BY <1>0, <1>3, <5>1
          <6>2. l # 1 => subGraphs[j].begun # open[l - 1].begun
            BY <1>3, <1>6, <5>1
          <6> QED
            BY <1>10, <6>1, <6>2
        <5>2. CASE j = n + 1
          <6>1. sub(j).begun = open[l].begun /\ open[l].begun # 0
            BY <1>0, <1>3, <1>6, <5>2
          <6>2. l # 1 => open[l].begun # open[l - 1].begun
            BY <1>3, <1>6
          <6> QED
            BY <1>10, <6>1, <6>2
        <5> QED
          BY <1>6, <5>1, <5>2
      <4> QED
        BY <4>1, <4>2, <4>3
    <3> QED
      BY <1>6, <3>1, <3>2, <3>3
  <2>2. ASSUME NEW i \in 1 .. n + 1, sub(i).id \notin vertices, NEW k \in 1 .. l - 1
        PROVE  sub(i).id \in more(k) <=> sub(i).around = open'[k].begun
    <3>0. open'[k].begun = open[k].begun /\ k \in 1 .. l /\ k # l
      BY <1>0, <1>6
    <3>1. CASE i \in 1 .. n
      <4>1. sub(i) = subGraphs[i] /\ sub(i).id # id
        BY <1>0, <3>1
      <4>2. sub(i).id \in list(k) <=> sub(i).around = open[k].begun
        BY <1>4, <2>2, <3>0, <3>1, <4>1
      <4>3. sub(i).id \in more(k) <=> sub(i).id \in list(k)
        BY <1>0, <4>1
      <4> QED
        BY <3>0, <4>2, <4>3
    <3>2. CASE i = n + 1
      <4>1. sub(i).id = id /\ sub(i).around = around
        BY <1>0, <3>2
      <4>2. id \notin list(k)
        BY <1>2, <2>0, <2>2, <3>0, <4>1
      <4>3. id \in more(k) <=> k = l - 1
        BY <1>0, <4>2
      <4>4. l # 1
        BY <1>0
      <4>5. around = open[l - 1].begun
        BY <4>4 DEF around
      <4>6. open[l - 1].begun = open[k].begun <=> k = l - 1
        BY <1>3, <1>6, <3>0, <4>4
      <4> QED
        BY <3>0, <4>1, <4>3, <4>5, <4>6
    <3> QED
      BY <1>6, <3>1, <3>2
  <2>3. Len(subGraphs') = n + 1 /\ Len(open') = l - 1
    BY <1>0
  <2> QED
    BY <1>1, <2>1, <2>2, <2>3 DEF Nested, Named, more, after
<1> QED
  BY <1>7, <1>8, <1>9, <1>11, <1>12 DEF FlowGood

-----------------------------------------------------------------------------
\* The invariant.
FlowInv == FlowGood /\ FlowRight

\* The beginning of a text.
FlowEmpty ==
  /\ vertices = {} /\ edges = << >> /\ subGraphs = << >> /\ open = << >>
  /\ statements = [read |-> 0, begun |-> 0]

\* It is good.
LEMMA EmptyGood == FlowEmpty => FlowGood
<1> SUFFICES ASSUME FlowEmpty  PROVE FlowGood
  OBVIOUS
<1> USE DEF FlowEmpty
<1>1. /\ \A S : << >> \in Seq(S)
      /\ Len(<< >>) = 0 /\ Len(SubGraphIds) \in Nat
  BY FlowAssumption, LenProperties
<1>2. SubsGood
  BY <1>1 DEF SubsGood
<1>3. FlowTypes
  BY <1>1 DEF FlowTypes
<1>4. NamesKnown /\ Nested
  BY <1>1 DEF NamesKnown, Nested
<1>5. BegunOnce
  BY <1>1 DEF BegunOnce
<1> QED
  BY <1>2, <1>3, <1>4, <1>5 DEF FlowGood

\* So does what changes neither the text that is read nor what it fills.
LEMMA SameGood ==
  ASSUME FlowGood, UNCHANGED <<vertices, edges, subGraphs, open, statements>>
  PROVE  FlowGood'
<1>1. SubsGood' /\ FlowTypes'
  BY DEF FlowGood, SubsGood, FlowTypes
<1>2. NamesKnown'
  <2>1. NamesKnown
    BY DEF FlowGood
  <2> QED
    BY <2>1 DEF NamesKnown, Known, Named
<1>3. BegunOnce'
  <2>1. BegunOnce
    BY DEF FlowGood
  <2> QED
    BY <2>1 DEF BegunOnce
<1>4. Nested'
  <2>1. Nested
    BY DEF FlowGood
  <2> QED
    BY <2>1 DEF Nested, Named
<1> QED
  BY <1>1, <1>2, <1>3, <1>4 DEF FlowGood

\* Every step keeps the invariant.
LEMMA FlowStep ==
  ASSUME FlowInv, [FlowNext]_flowVars
  PROVE  FlowInv'
<1>1. FlowGood
  BY DEF FlowInv
<1>2. ASSUME graph' = NoGraph, FlowGood'  PROVE FlowInv'
  BY <1>2 DEF FlowInv, FlowRight
<1>3. CASE BeginSubGraph
  <2>1. graph' = NoGraph
    BY <1>3 DEF BeginSubGraph
  <2> QED
    BY <1>1, <1>2, <1>3, <2>1, BeginGood
<1>4. CASE AddSubGraph
  <2>1. graph' = NoGraph
    BY <1>4 DEF AddSubGraph
  <2> QED
    BY <1>1, <1>2, <1>4, <2>1, EndGood
<1>5. CASE EmptyLine
  <2>1. Read(<<Blank>>) /\ vertices' = vertices /\ edges' = edges /\ graph' = NoGraph
    BY <1>5 DEF EmptyLine, Read
  <2>2. <<Blank>> \in Seq(Text) /\ ToSet(<<Blank>>) = {Blank}
    BY DEF Text, ToSet
  <2>3. FlowGood'
    BY <1>1, <2>1, <2>2, ReadGood DEF FlowGood, FlowTypes
  <2> QED
    BY <1>2, <2>1, <2>3
<1>6. ASSUME NEW v \in Vertex, AddVertex(v)  PROVE FlowInv'
  <2>1. Read(<<v>>) /\ vertices' = vertices \cup {v} /\ edges' = edges /\ graph' = NoGraph
    BY <1>6 DEF AddVertex, Read
  <2>2. <<v>> \in Seq(Text) /\ ToSet(<<v>>) = {v}
    BY DEF Text, ToSet
  <2>3. FlowGood'
    BY <1>1, <2>1, <2>2, ReadGood DEF FlowGood, FlowTypes
  <2> QED
    BY <1>2, <2>1, <2>3
<1>7. ASSUME NEW link \in Links, AddLink(link)  PROVE FlowInv'
  <2>1. /\ Read(link) /\ vertices' = vertices \cup ToSet(link) /\ edges' = Append(edges, link)
        /\ graph' = NoGraph
    BY <1>7 DEF AddLink, Read
  <2>2. link \in Seq(Vertex)
    <3>1. PICK v \in Vertex, w \in Vertex : link = <<v, w>>
      BY FlowAssumption
    <3> QED
      BY <3>1
  <2>3. link \in Seq(Text) /\ ToSet(link) \subseteq Vertex
    <3>1. Vertex \subseteq Text
      BY DEF Text
    <3>2. ToSet(link) \subseteq Vertex
      BY <2>2 DEF ToSet
    <3> QED
      BY <2>2, <3>1, <3>2, SeqMonotonic
  <2>4. edges' \in Seq(Links) /\ vertices' \in SUBSET Vertex /\ vertices \subseteq vertices'
    BY <1>1, <2>1, <2>3 DEF FlowGood, FlowTypes
  <2>5. ToSet(link) \subseteq vertices' \cup {Blank}
    BY <2>1
  <2>6. FlowGood'
    BY <1>1, <2>1, <2>3, <2>4, <2>5, ReadGood
  <2> QED
    BY <1>2, <2>1, <2>6
<1>8. CASE DrawFlowChart
  <2>1. UNCHANGED <<vertices, edges, subGraphs, open, htmlLabels, statements>>
    BY <1>8 DEF DrawFlowChart
  <2>2. FlowGood'
    BY <1>1, <2>1, SameGood
  <2>3. graph' = Drawn1
    BY <1>8, Zenon DEF DrawFlowChart, Drawn1
  <2>4. RightOf(graph')
    BY <1>1, <2>3, DrawnRight
  <2>5. FlowRight' <=> (graph' # NoGraph => RightOf(graph'))
    BY <2>1 DEF FlowRight, RightOf, Chains, Circular, Named, FirstNaming, Filled
  <2> QED
    BY <2>2, <2>4, <2>5 DEF FlowInv
<1>9. CASE ClearFlowChart
  <2>1. FlowEmpty' /\ graph' = NoGraph
    BY <1>9 DEF ClearFlowChart, FlowEmpty
  <2>2. FlowEmpty' => FlowGood'
    BY EmptyGood, PTL
  <2> QED
    BY <1>2, <2>1, <2>2
<1>10. CASE UNCHANGED flowVars
  <2>1. UNCHANGED <<vertices, edges, subGraphs, open, htmlLabels, statements, graph>>
    BY <1>10 DEF flowVars
  <2>2. FlowGood'
    BY <1>1, <2>1, SameGood
  <2>3. FlowRight' <=> FlowRight
    BY <2>1 DEF FlowRight, Chains, Circular, Named, FirstNaming, Filled
  <2> QED
    BY <2>2, <2>3 DEF FlowInv
<1> QED
  BY <1>3, <1>4, <1>5, <1>6, <1>7, <1>8, <1>9, <1>10 DEF FlowNext

\* For any names, links and ids, and any bounds: whatever is named twice, inside
\* and outside of subgraphs, and wherever the text has ended, each vertex and each
\* subgraph is drawn in the innermost subgraph that names it and no link is lost;
\* and draw() comes to its end or not as FlowRight says: never with a link to a
\* subgraph that something is drawn in.
THEOREM FlowChartsAreRight == FlowSpec => []FlowRight
<1>1. FlowInit => FlowInv
  BY EmptyGood DEF FlowInit, FlowEmpty, FlowInv, FlowRight
<1>2. FlowInv /\ [FlowNext]_flowVars => FlowInv'
  BY FlowStep
<1>3. FlowInv => FlowRight
  BY DEF FlowInv
<1> QED
  BY <1>1, <1>2, <1>3, PTL DEF FlowSpec
=============================================================================
