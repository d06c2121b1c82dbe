----------------------------- MODULE ListLemmas -----------------------------
(***************************************************************************)
(* What the list operators of the Java collections do to the elements of a *)
(* list, and induction over the natural numbers, for the other proofs.     *)
(***************************************************************************)
EXTENDS Integers, Sequences, SequencesExt, SequenceTheorems, WellFoundedInduction, TLAPS

\* RemoveAt keeps a list of the same type, one shorter, and closes the gap.
LEMMA RemoveAtList ==
  ASSUME NEW S, NEW s \in Seq(S), NEW i \in 1 .. Len(s)
  PROVE  /\ RemoveAt(s, i) \in Seq(S)
         /\ Len(RemoveAt(s, i)) = Len(s) - 1
         /\ \A k \in 1 .. (Len(s) - 1) :
              RemoveAt(s, i)[k] = IF k < i THEN s[k] ELSE s[k + 1]
<1> DEFINE front == SubSeq(s, 1, i - 1)
           back  == SubSeq(s, i + 1, Len(s))
<1>1. /\ front \in Seq(S) /\ Len(front) = i - 1
      /\ \A k \in 1 .. (i - 1) : front[k] = s[k]
  <2>1. \A k \in 1 .. (i - 1) : s[k] \in S
    BY ElementOfSeq
  <2> HIDE DEF front
  <2> QED
    BY <2>1, SubSeqProperties DEF front
<1>2. /\ back \in Seq(S) /\ Len(back) = Len(s) - i
      /\ \A k \in 1 .. (Len(s) - i) : back[k] = s[i + k]
  <2>1. \A k \in i + 1 .. Len(s) : s[k] \in S
    BY ElementOfSeq
  <2> HIDE DEF back
  <2> QED
    BY <2>1, SubSeqProperties DEF back
<1> DEFINE t == front \o back
<1>3. RemoveAt(s, i) = t
  BY DEF RemoveAt
<1> HIDE DEF front, back
<1>4. /\ t \in Seq(S)
      /\ Len(t) = Len(front) + Len(back)
      /\ \A k \in 1 .. Len(front) + Len(back) :
           t[k] = IF k <= Len(front) THEN front[k] ELSE back[k - Len(front)]
  <2>1. front \in Seq(S) /\ back \in Seq(S)
    BY <1>1, <1>2
  <2> QED
    BY <2>1, ConcatProperties, Zenon
<1> HIDE DEF t
<1>5. Len(s) \in Nat /\ i \in Int /\ (i - 1) + (Len(s) - i) = Len(s) - 1
  BY LenProperties
<1>6. ASSUME NEW k \in 1 .. (Len(s) - 1)
      PROVE  t[k] = IF k < i THEN s[k] ELSE s[k + 1]
  <2> DEFINE n == Len(front)
  <2>0. n = i - 1 /\ n + Len(back) = Len(s) - 1
    BY <1>1, <1>2, <1>5
  <2>1. CASE k < i
    <3>1. t[k] = front[k]
      BY <1>4, <1>5, <2>0, <2>1
    <3> QED
      BY <1>1, <1>5, <2>1, <3>1
  <2>2. CASE ~(k < i)
    <3>1. k - (i - 1) \in 1 .. (Len(s) - i) /\ i + (k - (i - 1)) = k + 1
      BY <1>5, <2>2
    <3>2. t[k] = back[k - (i - 1)]
      BY <1>4, <1>5, <2>0, <2>2
    <3> QED
      BY <1>2, <2>2, <3>1, <3>2
  <2> QED
    BY <2>1, <2>2
<1> QED
  BY <1>1, <1>2, <1>3, <1>4, <1>5, <1>6

\* RemoveAt drops no element but the one at the position it is given.
LEMMA RemoveAtKeeps ==
  ASSUME NEW S, NEW s \in Seq(S), NEW i \in 1 .. Len(s),
         NEW x \in ToSet(s), x # s[i]
  PROVE  x \in ToSet(RemoveAt(s, i))
<1>1. PICK k \in 1 .. Len(s) : s[k] = x
  BY DEF ToSet
<1> DEFINE t == RemoveAt(s, i)
<1>2. /\ Len(s) \in Nat /\ DOMAIN t = 1 .. (Len(s) - 1)
      /\ \A n \in 1 .. (Len(s) - 1) : t[n] = IF n < i THEN s[n] ELSE s[n + 1]
  BY RemoveAtList, LenProperties
<1> HIDE DEF t
<1> SUFFICES x \in ToSet(t)
  BY DEF t
<1>3. CASE k < i
  <2>1. k \in 1 .. (Len(s) - 1) /\ t[k] = x
    BY <1>1, <1>2, <1>3
  <2> QED
    BY <1>2, <2>1 DEF ToSet
<1>4. CASE k > i
  <2>1. k - 1 \in 1 .. (Len(s) - 1) /\ t[k - 1] = x
    BY <1>1, <1>2, <1>4
  <2> QED
    BY <1>2, <2>1 DEF ToSet
<1> QED
  BY <1>1, <1>3, <1>4

\* RemoveAt adds no element.
LEMMA RemoveAtSubset ==
  ASSUME NEW S, NEW s \in Seq(S), NEW i \in 1 .. Len(s)
  PROVE  ToSet(RemoveAt(s, i)) \subseteq ToSet(s)
<1> DEFINE t == RemoveAt(s, i)
<1>1. /\ Len(s) \in Nat /\ DOMAIN s = 1 .. Len(s)
      /\ DOMAIN t = 1 .. (Len(s) - 1)
      /\ \A k \in 1 .. (Len(s) - 1) : t[k] = IF k < i THEN s[k] ELSE s[k + 1]
  BY RemoveAtList, LenProperties
<1> HIDE DEF t
<1>2. ToSet(t) \subseteq ToSet(s)
  BY <1>1 DEF ToSet
<1> QED
  BY <1>2 DEF t

\* Append adds its argument to the elements of a list, and nothing else.
LEMMA AppendElements ==
  ASSUME NEW S, NEW s \in Seq(S), NEW x
  PROVE  ToSet(Append(s, x)) = ToSet(s) \cup {x}
BY DEF ToSet

\* Appending a new element to a list without repetitions leaves it so.
LEMMA AppendDistinct ==
  ASSUME NEW S, NEW s \in Seq(S), NEW x \in S, x \notin ToSet(s),
         \A i, k \in 1 .. Len(s) : s[i] = s[k] => i = k
  PROVE  \A i, k \in 1 .. Len(Append(s, x)) :
           Append(s, x)[i] = Append(s, x)[k] => i = k
BY DEF ToSet

\* Taking the head off a list without repetitions removes exactly the head.
LEMMA TailElements ==
  ASSUME NEW S, NEW s \in Seq(S), s # << >>,
         \A i, k \in 1 .. Len(s) : s[i] = s[k] => i = k
  PROVE  /\ Head(s) \in ToSet(s)
         /\ ToSet(Tail(s)) = ToSet(s) \ {Head(s)}
         /\ \A i, k \in 1 .. Len(Tail(s)) : Tail(s)[i] = Tail(s)[k] => i = k
<1>1. /\ Head(s) = s[1] /\ 1 \in 1 .. Len(s)
      /\ Len(Tail(s)) = Len(s) - 1 /\ DOMAIN Tail(s) = 1 .. (Len(s) - 1)
      /\ \A k \in 1 .. (Len(s) - 1) : Tail(s)[k] = s[k + 1]
  BY HeadTailProperties, LenProperties
<1>2. ToSet(Tail(s)) \subseteq ToSet(s) \ {Head(s)}
  BY <1>1 DEF ToSet
<1>3. ASSUME NEW x \in ToSet(s), x # Head(s)  PROVE x \in ToSet(Tail(s))
  <2>1. PICK k \in 2 .. Len(s) : s[k] = x
    BY <1>1, <1>3 DEF ToSet
  <2>2. k - 1 \in 1 .. (Len(s) - 1) /\ Tail(s)[k - 1] = x
    BY <1>1, <2>1
  <2> QED
    BY <1>1, <2>2 DEF ToSet
<1> QED
  BY <1>1, <1>2, <1>3 DEF ToSet

\* Removing a position from a list without repetitions removes exactly the
\* element that was there.
LEMMA RemoveAtDistinct ==
  ASSUME NEW S, NEW s \in Seq(S), NEW i \in 1 .. Len(s),
         \A n, k \in 1 .. Len(s) : s[n] = s[k] => n = k
  PROVE  /\ ToSet(RemoveAt(s, i)) = ToSet(s) \ {s[i]}
         /\ \A n, k \in 1 .. Len(RemoveAt(s, i)) :
              RemoveAt(s, i)[n] = RemoveAt(s, i)[k] => n = k
<1> DEFINE t == RemoveAt(s, i)
<1>1. /\ Len(s) \in Nat /\ DOMAIN s = 1 .. Len(s)
      /\ Len(t) = Len(s) - 1 /\ DOMAIN t = 1 .. (Len(s) - 1)
      /\ \A k \in 1 .. (Len(s) - 1) : t[k] = IF k < i THEN s[k] ELSE s[k + 1]
  BY RemoveAtList, LenProperties
<1>2. ToSet(t) \subseteq ToSet(s)
  BY RemoveAtSubset
<1>3. ToSet(s) \ {s[i]} \subseteq ToSet(t)
  BY RemoveAtKeeps
<1> HIDE DEF t
<1>4. ASSUME NEW k \in 1 .. (Len(s) - 1)
      PROVE  \E n \in 1 .. Len(s) : /\ t[k] = s[n] /\ n # i
                                    /\ n = IF k < i THEN k ELSE k + 1
  <2>1. CASE k < i
    BY <1>1, <2>1
  <2>2. CASE ~(k < i)
    BY <1>1, <2>2
  <2> QED
    BY <2>1, <2>2
<1>5. s[i] \notin ToSet(t)
  BY <1>1, <1>4 DEF ToSet
<1>6. \A n, k \in 1 .. Len(t) : t[n] = t[k] => n = k
  BY <1>1, <1>4
<1> QED
  BY <1>2, <1>3, <1>5, <1>6 DEF t

-----------------------------------------------------------------------------
(* The natural numbers.                                                    *)

LEMMA LeastElement ==
  ASSUME NEW S \in SUBSET Nat, S # {}
  PROVE  Min(S) \in S /\ \A x \in S : Min(S) <= x
<1> DEFINE Less == {ss \in Nat \X Nat : ss[1] < ss[2]}
<1>1. IsWellFoundedOn(Less, Nat)
  BY NatLessThanWellFounded, Zenon DEF OpToRel
<1>2. PICK m \in S : \A x \in S : ~(<<x, m>> \in Less)
  <2> HIDE DEF Less
  <2> QED
    BY <1>1, WFMin, Zenon
<1>3. ASSUME NEW x \in S  PROVE m <= x
  <2>1. x \in Nat /\ m \in Nat
    OBVIOUS
  <2>2. x < m => <<x, m>> \in Less
    BY <2>1
  <2> QED
    BY <1>2, <2>1, <2>2
<1> QED
  BY <1>3 DEF Min

\* Induction, for a set that holds 0 and with each number the next.
LEMMA NatSetInduction ==
  ASSUME NEW S, 0 \in S, \A n \in Nat : n \in S => n + 1 \in S
  PROVE  \A n \in Nat : n \in S
<1> DEFINE T == Nat \ S
           m == Min(T)
<1> SUFFICES ASSUME T # {}  PROVE FALSE
  OBVIOUS
<1>1. m \in T /\ \A x \in T : m <= x
  <2>1. T \in SUBSET Nat /\ T # {}
    OBVIOUS
  <2> HIDE DEF T
  <2> QED
    BY <2>1, LeastElement
<1> HIDE DEF m
<1>2. m \in Nat /\ m # 0 /\ m - 1 \in Nat
  BY <1>1
<1>3. m - 1 \in S
  BY <1>1, <1>2
<1> QED
  BY <1>1, <1>2, <1>3
=============================================================================
