------------------------- MODULE FileCountersProofs -------------------------
(***************************************************************************)
(* Proofs about the programs of demo/file, for every file system, every    *)
(* size of the pool and of the queue, and every interleaving, timeouts and *)
(* failing tasks included: first about trees, then an inductive invariant  *)
(* for each program, then the properties of all of them.                   *)
(***************************************************************************)
EXTENDS FileCounters, ListLemmas, FiniteSetTheorems, TLAPS

-----------------------------------------------------------------------------
(* Trees.                                                                  *)

\* Entries belong to one directory, and the root to none.
LEMMA OneParent ==
  ASSUME NEW t \in Trees, NEW m \in Node, NEW n \in Node, NEW f \in Listing(t, n)
  PROVE  f \in Node /\ f # Root /\ (f \in Listing(t, m) => m = n)
BY TreeAssumption DEF Listing

\* The root is visible, and so are the entries of what is visible.
LEMMA VisibleClosed ==
  ASSUME NEW t \in Trees
  PROVE  /\ Root \in Visible(t)
         /\ \A n \in Visible(t) : Listing(t, n) \subseteq Visible(t)
<1>1. Root \in Visible(t)
  BY TreeAssumption DEF Visible
<1>2. ASSUME NEW n \in Visible(t), NEW f \in Listing(t, n)
      PROVE  f \in Visible(t)
  <2>1. n \in Node /\ f \in Node
    BY <1>2, TreeAssumption DEF Visible, Listing
  <2>2. ASSUME NEW S \in SUBSET Node, Root \in S,
               \A m \in S : Listing(t, m) \subseteq S
        PROVE  f \in S
    BY <1>2, <2>2 DEF Visible
  <2> QED
    BY <2>1, <2>2 DEF Visible
<1> QED
  BY <1>1, <1>2

\* Nothing else is visible.
LEMMA VisibleLeast ==
  ASSUME NEW t \in Trees, NEW S \in SUBSET Node, Root \in S,
         \A m \in S : Listing(t, m) \subseteq S
  PROVE  Visible(t) \subseteq S
BY DEF Visible

\* What is at or below g: the least set that holds g and the entries of each
\* of its members.
Below(t, g) ==
  {n \in Node : \A S \in SUBSET Node :
     g \in S /\ (\A m \in S : Listing(t, m) \subseteq S) => n \in S}

LEMMA BelowClosed ==
  ASSUME NEW t \in Trees, NEW g \in Node
  PROVE  /\ Below(t, g) \subseteq Node /\ g \in Below(t, g)
         /\ \A n \in Below(t, g) : Listing(t, n) \subseteq Below(t, g)
<1>1. g \in Below(t, g) /\ Below(t, g) \subseteq Node
  BY DEF Below
<1>2. ASSUME NEW n \in Below(t, g), NEW f \in Listing(t, n)
      PROVE  f \in Below(t, g)
  <2>1. n \in Node /\ f \in Node
    BY <1>2, TreeAssumption DEF Below, Listing
  <2>2. ASSUME NEW S \in SUBSET Node, g \in S,
               \A m \in S : Listing(t, m) \subseteq S
        PROVE  f \in S
    BY <1>2, <2>2 DEF Below
  <2> QED
    BY <2>1, <2>2 DEF Below
<1> QED
  BY <1>1, <1>2

LEMMA BelowLeast ==
  ASSUME NEW t \in Trees, NEW g \in Node, NEW S \in SUBSET Node, g \in S,
         \A m \in S : Listing(t, m) \subseteq S
  PROVE  Below(t, g) \subseteq S
BY DEF Below

LEMMA BelowRoot == \A t \in Trees : Below(t, Root) = Visible(t)
BY DEF Below, Visible

\* Whatever is below g but not g itself is an entry of something below g.
LEMMA BelowParent ==
  ASSUME NEW t \in Trees, NEW g \in Node, NEW h \in Below(t, g), h # g
  PROVE  \E m \in Below(t, g) : h \in Listing(t, m)
<1> SUFFICES ASSUME \A m \in Below(t, g) : h \notin Listing(t, m)  PROVE FALSE
  OBVIOUS
<1> DEFINE S == Below(t, g) \ {h}
<1>1. S \in SUBSET Node /\ g \in S /\ \A m \in S : Listing(t, m) \subseteq S
  BY BelowClosed
<1>2. Below(t, g) \subseteq S
  BY <1>1, BelowLeast
<1> QED
  BY <1>2

\* No visible directory is below one of its own entries.
LEMMA NoCircle ==
  ASSUME NEW t \in Trees, NEW n \in Visible(t), NEW g \in Listing(t, n)
  PROVE  n \notin Below(t, g)
<1> SUFFICES ASSUME n \in Below(t, g)  PROVE FALSE
  OBVIOUS
<1>0. n \in Node /\ g \in Node /\ Root \in Node /\ Visible(t) \subseteq Node /\ g # Root
  BY OneParent, TreeAssumption DEF Visible
<1> DEFINE C == Visible(t) \ Below(t, g)
<1>1. Root \in C
  <2>1. Root \notin Below(t, g)
    BY <1>0, BelowParent, BelowClosed, OneParent
  <2> QED
    BY <2>1, VisibleClosed
<1>2. ASSUME NEW m \in C, NEW h \in Listing(t, m)  PROVE h \in C
  <2>1. m \in Node /\ h \in Node /\ h \in Visible(t)
    BY <1>0, VisibleClosed, OneParent
  <2>2. CASE h \in Below(t, g)
    <3>1. CASE h = g
      BY <1>0, <1>2, <2>1, <3>1, OneParent
    <3>2. CASE h # g
      <4>1. PICK k \in Below(t, g) : h \in Listing(t, k)
        BY <1>0, <2>2, <3>2, BelowParent
      <4>2. k = m
        BY <1>0, <2>1, <4>1, OneParent, BelowClosed
      <4> QED
        BY <4>1, <4>2
    <3> QED
      BY <3>1, <3>2
  <2> QED
    BY <2>1, <2>2
<1>3. Visible(t) \subseteq C
  BY <1>0, <1>1, <1>2, VisibleLeast
<1> QED
  BY <1>3

\* Nothing is below two entries of a visible directory.
LEMMA SiblingsApart ==
  ASSUME NEW t \in Trees, NEW n \in Visible(t),
         NEW f \in Listing(t, n), NEW g \in Listing(t, n), f # g
  PROVE  Below(t, f) \cap Below(t, g) = {}
<1>0. n \in Node /\ f \in Node /\ g \in Node
  BY OneParent DEF Visible
<1> DEFINE C == Below(t, f) \ Below(t, g)
<1>1. ASSUME NEW h \in Node, h \in Below(t, g), NEW m \in Node, h \in Listing(t, m)
      PROVE  h = g \/ m \in Below(t, g)
  <2> SUFFICES ASSUME h # g  PROVE m \in Below(t, g)
    OBVIOUS
  <2>1. PICK k \in Below(t, g) : h \in Listing(t, k)
    BY <1>0, <1>1, BelowParent
  <2>2. k = m
    BY <1>0, <1>1, <2>1, OneParent, BelowClosed
  <2> QED
    BY <2>1, <2>2
<1>2. f \in C
  <2>1. f \notin Below(t, g)
    BY <1>0, <1>1, NoCircle
  <2> QED
    BY <1>0, <2>1, BelowClosed
<1>3. ASSUME NEW m \in C, NEW h \in Listing(t, m)  PROVE h \in C
  <2>1. m \in Node /\ h \in Node /\ h \in Below(t, f)
    BY <1>0, BelowClosed, OneParent
  <2>2. h # g
    <3>1. h = g => m = n
      BY <1>0, <2>1, OneParent
    <3>2. n \notin Below(t, f)
      BY NoCircle
    <3> QED
      BY <3>1, <3>2
  <2> QED
    BY <1>1, <2>1, <2>2
<1>4. Below(t, f) \subseteq C
  <2>1. C \in SUBSET Node
    BY <1>0, BelowClosed
  <2>2. \A m \in C : Listing(t, m) \subseteq C
    BY <1>3
  <2> HIDE DEF C
  <2> QED
    BY <1>0, <1>2, <2>1, <2>2, BelowLeast
<1> QED
  BY <1>4

\* What is at or below n is n and what is at or below its entries.
LEMMA BelowUnfold ==
  ASSUME NEW t \in Trees, NEW n \in Node
  PROVE  Below(t, n) = {n} \cup UNION {Below(t, f) : f \in Listing(t, n)}
<1> DEFINE S == {n} \cup UNION {Below(t, f) : f \in Listing(t, n)}
<1>1. \A f \in Listing(t, n) : f \in Node
  BY OneParent
<1>2. S \subseteq Below(t, n)
  <2>1. ASSUME NEW f \in Listing(t, n)  PROVE Below(t, f) \subseteq Below(t, n)
    BY <1>1, BelowClosed, BelowLeast
  <2> QED
    BY <2>1, BelowClosed
<1>3. \A f \in Listing(t, n) :
        /\ f \in Below(t, f) /\ Below(t, f) \subseteq Node
        /\ \A m \in Below(t, f) : Listing(t, m) \subseteq Below(t, f)
  BY <1>1, BelowClosed
<1>4. S \in SUBSET Node /\ n \in S /\ \A m \in S : Listing(t, m) \subseteq S
  BY <1>3
<1>5. Below(t, n) \subseteq S
  <2> HIDE DEF S
  <2> QED
    BY <1>4, BelowLeast
<1> QED
  BY <1>2, <1>5

\* Nothing but itself is below a file.
LEMMA BelowFile ==
  ASSUME NEW t \in Trees, NEW n \in Node, n \in t.files
  PROVE  Below(t, n) = {n}
<1>1. Listing(t, n) = {}
  BY DEF Listing
<1> QED
  BY <1>1, BelowUnfold

-----------------------------------------------------------------------------
(* Sizes.                                                                  *)

LEMMA SizeOfType == \A S : SizeOf(S) \in Sizes
BY DEF SizeOf, Sizes

LEMMA PlusType == \A a, b \in Sizes : Plus(a, b) \in Sizes
BY DEF Plus, Sizes

\* Files that are added for the first time.
LEMMA PlusNew ==
  ASSUME NEW S, NEW T, S \cap T = {}
  PROVE  Plus(SizeOf(S), SizeOf(T)) = SizeOf(S \cup T)
BY DEF Plus, SizeOf

\* The sum of some of the files, each once, is at most that of all of them.
Part(t, s) == \E S \in SUBSET (Visible(t) \cap t.files) : s = SizeOf(S)

LEMMA PartAtMost == \A t, s : Part(t, s) => AtMost(s, Full(t))
BY DEF Part, AtMost, Full, SizeOf

LEMMA PartSome == \A t : Part(t, Nothing) /\ Part(t, Full(t))
BY DEF Part, Nothing, Full

-----------------------------------------------------------------------------
(* The sequential program.                                                 *)

\* A directory has more below it than each of its entries.
LEMMA FewerBelow ==
  ASSUME NEW t \in Trees, NEW n \in Visible(t), NEW m \in Listing(t, n)
  PROVE  /\ Cardinality(Below(t, m)) \in Nat /\ Cardinality(Below(t, n)) \in Nat
         /\ Cardinality(Below(t, m)) < Cardinality(Below(t, n))
<1>1. n \in Node /\ m \in Node
  BY OneParent DEF Visible
<1>2. Below(t, m) \subseteq Below(t, n) /\ n \in Below(t, n) /\ n \notin Below(t, m)
  BY <1>1, BelowUnfold, NoCircle
<1>3. IsFiniteSet(Below(t, n))
  BY <1>1, BelowClosed, TreeAssumption, FS_Subset
<1> QED
  BY <1>2, <1>3, FS_Subset, FS_CardinalityType

\* The files below some of the entries of a directory.
FilesBelow(t, s) == SizeOf((UNION {Below(t, m) : m \in s}) \cap t.files)

\* What the loop over the entries adds up, if the calls for them are right.
LEMMA FoldsBelow ==
  ASSUME NEW t \in Trees, NEW n \in Visible(t),
         NEW f, \A m \in Listing(t, n) : f[m] = SizeOf(Below(t, m) \cap t.files)
  PROVE  FoldFunctionOnSet(Plus, Nothing, f, Listing(t, n)) = FilesBelow(t, Listing(t, n))
<1> DEFINE L == Listing(t, n)
           B(m) == Below(t, m) \cap t.files
           G == [s \in SUBSET L |-> FilesBelow(t, s)]
           F(s, prev) == IF s = {} THEN Nothing
                         ELSE Plus(f[CHOOSE x \in s : TRUE], prev[s \ {CHOOSE x \in s : TRUE}])
           Is(g) == g = [s \in SUBSET L |-> F(s, g)]
           iter == CHOOSE g : Is(g)
<1>1. FoldFunctionOnSet(Plus, Nothing, f, L) = iter[L]
  BY DEF FoldFunctionOnSet, MapThenFoldSet
<1>2. ASSUME NEW s \in SUBSET L, NEW x \in s
      PROVE  FilesBelow(t, s) = Plus(f[x], FilesBelow(t, s \ {x}))
  <2> DEFINE S == (UNION {Below(t, m) : m \in s \ {x}}) \cap t.files
  <2>1. f[x] = SizeOf(B(x)) /\ FilesBelow(t, s \ {x}) = SizeOf(S)
    BY DEF FilesBelow
  <2>2. B(x) \cap S = {}
    <3>1. \A m \in s \ {x} : Below(t, m) \cap Below(t, x) = {}
      BY SiblingsApart
    <3> QED
      BY <3>1
  <2>3. B(x) \cup S = (UNION {Below(t, m) : m \in s}) \cap t.files
    <3> DEFINE U == UNION {Below(t, m) : m \in s}
               W == UNION {Below(t, m) : m \in s \ {x}}
    <3>1. \A m \in s : m = x \/ m \in s \ {x}
      OBVIOUS
    <3>2. U = Below(t, x) \cup W
      BY <3>1
    <3> HIDE DEF U, W
    <3>3. (Below(t, x) \cap t.files) \cup (W \cap t.files) = U \cap t.files
      BY <3>2
    <3> QED
      BY <3>3 DEF U, W
  <2> HIDE DEF S, B
  <2> QED
    BY <2>1, <2>2, <2>3, PlusNew DEF FilesBelow
<1>3. FilesBelow(t, {}) = Nothing
  BY DEF FilesBelow, Nothing
<1>4. ASSUME NEW s \in SUBSET L  PROVE FilesBelow(t, s) = F(s, G)
  <2>1. CASE s = {}
    BY <1>3, <2>1
  <2>2. CASE s # {}
    <3> DEFINE x == CHOOSE y \in s : TRUE
    <3>1. x \in s
      BY <2>2
    <3>2. FilesBelow(t, s) = Plus(f[x], FilesBelow(t, s \ {x}))
      BY <1>2, <3>1
    <3>3. FilesBelow(t, s \ {x}) = G[s \ {x}]
      OBVIOUS
    <3> QED
      BY <2>2, <3>2, <3>3
  <2> QED
    BY <2>1, <2>2
<1>5. Is(G)
  BY <1>4
<1>6. Is(iter)
  BY <1>5, Zenon
<1> HIDE DEF iter
<1>7. ASSUME NEW s \in SUBSET L  PROVE iter[s] = F(s, iter)
  BY <1>6
<1> HIDE DEF Is
<1>8. IsFiniteSet(L)
  BY TreeAssumption, FS_Subset, OneParent DEF Visible
<1> DEFINE Wrong == {s \in SUBSET L : iter[s] # FilesBelow(t, s)}
           Sizes1 == {Cardinality(s) : s \in Wrong}
<1>9. Wrong = {}
  <2> SUFFICES ASSUME Wrong # {}  PROVE FALSE
    OBVIOUS
  <2>1. \A s \in SUBSET L : IsFiniteSet(s) /\ Cardinality(s) \in Nat
    BY <1>8, FS_Subset, FS_CardinalityType
  <2>2. Sizes1 \in SUBSET Nat /\ Sizes1 # {}
    BY <2>1
  <2>3. PICK s \in Wrong : \A r \in Wrong : Cardinality(s) <= Cardinality(r)
    <3> DEFINE k == Min(Sizes1)
    <3>1. k \in Sizes1 /\ \A x \in Sizes1 : k <= x
      <4> HIDE DEF Sizes1
      <4> QED
        BY <2>2, LeastElement
    <3> HIDE DEF k
    <3> QED
      BY <3>1
  <2>4. s # {}
    BY <1>3, <1>7
  <2> DEFINE x == CHOOSE y \in s : TRUE
  <2>5. x \in s
    BY <2>4
  <2>6. iter[s] = Plus(f[x], iter[s \ {x}])
    BY <1>7, <2>4
  <2> HIDE DEF x
  <2>7. Cardinality(s \ {x}) < Cardinality(s)
    BY <2>1, <2>5, FS_RemoveElement
  <2>8. iter[s \ {x}] = FilesBelow(t, s \ {x})
    BY <2>1, <2>3, <2>7
  <2> QED
    BY <1>2, <2>5, <2>6, <2>8
<1> QED
  BY <1>1, <1>9

\* Each call answers with the size of the files at and below its argument.
LEMMA CountsBelow ==
  ASSUME NEW t \in Trees
  PROVE  \A n \in Visible(t) : CountFileSileInDir(t)[n] = SizeOf(Below(t, n) \cap t.files)
<1> DEFINE V == Visible(t)
           G == [n \in V |-> SizeOf(Below(t, n) \cap t.files)]
           F(n, prev) == IF n \in t.files THEN SizeOf({n})
                         ELSE FoldFunctionOnSet(Plus, Nothing, [m \in Listing(t, n) |-> prev[m]],
                                                Listing(t, n))
           Is(g) == g = [n \in V |-> F(n, g)]
           count == CountFileSileInDir(t)
<1>1. count = CHOOSE g : Is(g)
  BY DEF CountFileSileInDir
<1>2. ASSUME NEW n \in V, NEW g, \A m \in Listing(t, n) : g[m] = G[m]
      PROVE  F(n, g) = G[n]
  <2>1. n \in Node
    BY DEF Visible
  <2>2. CASE n \in t.files
    BY <2>1, <2>2, BelowFile
  <2>3. CASE n \notin t.files
    <3> DEFINE f == [m \in Listing(t, n) |-> g[m]]
    <3>1. \A m \in Listing(t, n) : f[m] = SizeOf(Below(t, m) \cap t.files)
      BY <1>2, VisibleClosed
    <3> HIDE DEF f
    <3>2. FoldFunctionOnSet(Plus, Nothing, f, Listing(t, n)) = FilesBelow(t, Listing(t, n))
      BY <3>1, FoldsBelow
    <3>3. (UNION {Below(t, m) : m \in Listing(t, n)}) \cap t.files = Below(t, n) \cap t.files
      <4> DEFINE U == UNION {Below(t, m) : m \in Listing(t, n)}
      <4>1. Below(t, n) = {n} \cup U
        BY <2>1, BelowUnfold
      <4> HIDE DEF U
      <4>2. U \cap t.files = Below(t, n) \cap t.files
        BY <2>3, <4>1
      <4> QED
        BY <4>2 DEF U
    <3>4. FilesBelow(t, Listing(t, n)) = G[n]
      BY <3>3 DEF FilesBelow
    <3> QED
      BY <2>3, <3>2, <3>4 DEF f
  <2> QED
    BY <2>2, <2>3
<1>3. Is(G)
  BY <1>2
<1>4. Is(count)
  BY <1>1, <1>3, Zenon
<1> HIDE DEF count, F
<1>5. \A n \in V : count[n] = F(n, count)
  BY <1>4
<1> HIDE DEF Is, G
<1> DEFINE Wrong == {n \in V : count[n] # G[n]}
           Cards == {Cardinality(Below(t, n)) : n \in Wrong}
<1>6. Wrong = {}
  <2> SUFFICES ASSUME Wrong # {}  PROVE FALSE
    OBVIOUS
  <2>1. Cards \in SUBSET Nat /\ Cards # {}
    <3>1. \A n \in V : Cardinality(Below(t, n)) \in Nat
      BY BelowClosed, TreeAssumption, FS_Subset, FS_CardinalityType DEF Visible
    <3> QED
      BY <3>1
  <2>2. PICK n \in Wrong : \A m \in Wrong : Cardinality(Below(t, n)) <= Cardinality(Below(t, m))
    <3> DEFINE k == Min(Cards)
    <3>1. k \in Cards /\ \A x \in Cards : k <= x
      <4> HIDE DEF Cards
      <4> QED
        BY <2>1, LeastElement
    <3> HIDE DEF k
    <3> QED
      BY <3>1
  <2>3. ASSUME NEW m \in Listing(t, n)  PROVE count[m] = G[m]
    <3>1. m \in V
      BY VisibleClosed
    <3>2. Cardinality(Below(t, m)) < Cardinality(Below(t, n))
          /\ Cardinality(Below(t, m)) \in Nat /\ Cardinality(Below(t, n)) \in Nat
      BY FewerBelow
    <3> QED
      BY <2>2, <3>1, <3>2
  <2> QED
    BY <1>2, <1>5, <2>3
<1> QED
  BY <1>6 DEF G, count

LEMMA SequentialCounts ==
  ASSUME NEW t \in Trees
  PROVE  CountFileSileInDir(t)[Root] = Full(t)
BY CountsBelow, BelowRoot, VisibleClosed DEF Full

-----------------------------------------------------------------------------
(* Tasks.                                                                  *)

Label ==
  {"unseen", "queued", "visiting", "listing", "leaving", "opening", "ended", "done", "failed"}

\* The tasks that have something left to do.
Running == {"queued", "visiting", "listing", "leaving"}

WalkTypes ==
  /\ tree \in Trees /\ pc \in [Node -> Label] /\ todo \in [Node -> SUBSET Node]
  /\ size \in [Node -> Sizes] /\ total \in Sizes

\* The entries that get a task each: all, or those that are no files.
Entries(t) == [n \in Node |-> Listing(t, n)]
Dirs(t) == [n \in Node |-> DirsIn(t, n)]

LEMMA EntriesListed ==
  \A t : \A n \in Node : Entries(t)[n] \subseteq Listing(t, n) /\ Dirs(t)[n] \subseteq Listing(t, n)
BY DEF Entries, Dirs, DirsIn

\* Tasks come down the tree: an entry has one only if its directory has
\* submitted it, and a directory that comes to its end has submitted them all.
Descent(entries) ==
  /\ main = "start" => \A n \in Node : pc[n] = "unseen"
  /\ main # "start" => pc[Root] # "unseen"
  /\ \A n \in Node : pc[n] # "unseen" => n \in Visible(tree)
  /\ \A n \in Node : todo[n] \subseteq entries[n]
  /\ \A n \in Node : \A f \in todo[n] : pc[f] = "unseen"
  /\ \A n \in Node : todo[n] # {} => pc[n] \in {"listing", "failed"}
  /\ \A n \in Node : pc[n] \in {"unseen", "queued", "visiting"} =>
                       \A f \in entries[n] : pc[f] = "unseen"
  /\ \A n \in Node : pc[n] \in {"listing", "leaving", "opening", "ended", "done"} =>
                       \A f \in entries[n] \ todo[n] : pc[f] # "unseen"

\* The task of the root is begun, or submitted.
LEMMA DescentBegin ==
  ASSUME WalkTypes, NEW E, \A n \in Node : E[n] \subseteq Listing(tree, n),
         Descent(E), main = "start", main' # "start", UNCHANGED <<tree, todo>>,
         NEW l \in {"queued", "visiting"}, pc' = [pc EXCEPT ![Root] = l]
  PROVE  Descent(E)'
<1>1. \A n \in Node : Root \notin E[n]
  BY OneParent DEF WalkTypes
<1>2. Root \in Node /\ Root \in Visible(tree)
  BY TreeAssumption, VisibleClosed DEF WalkTypes
<1> QED
  BY <1>1, <1>2 DEF Descent, WalkTypes

\* A task visits its node.
LEMMA DescentVisit ==
  ASSUME WalkTypes, NEW E, \A n \in Node : E[n] \subseteq Listing(tree, n),
         Descent(E), UNCHANGED <<tree, main>>,
         NEW n \in Node, pc[n] = "visiting", pc' = [pc EXCEPT ![n] = "listing"],
         todo' = [todo EXCEPT ![n] = E[n]]
  PROVE  Descent(E)'
<1>1. \A m \in Node : \A f \in E[m] : f \in Node
  BY OneParent DEF WalkTypes
<1> QED
  BY <1>1 DEF Descent, WalkTypes

\* A task submits one for an entry.
LEMMA DescentSubmit ==
  ASSUME WalkTypes, NEW E, \A n \in Node : E[n] \subseteq Listing(tree, n),
         Descent(E), UNCHANGED <<tree, main>>,
         NEW n \in Node, NEW f \in todo[n], pc[n] = "listing",
         pc' = [pc EXCEPT ![f] = "queued"], todo' = [todo EXCEPT ![n] = @ \ {f}]
  PROVE  /\ Descent(E)' /\ f \in Node /\ f # n /\ f # Root /\ pc[f] = "unseen"
         /\ f \in E[n]
<1>1. f \in E[n] /\ pc[f] = "unseen" /\ f \in Node /\ f # Root /\ f # n
  BY OneParent DEF Descent, WalkTypes
<1>2. \A m \in Node : f \in E[m] => m = n
  BY <1>1, OneParent DEF WalkTypes
<1>3. f \in Visible(tree)
  BY <1>1, VisibleClosed DEF Descent, WalkTypes
<1> QED
  BY <1>1, <1>2, <1>3 DEF Descent, WalkTypes

\* A task moves on, and may end.
LEMMA DescentMove ==
  ASSUME WalkTypes, NEW E, \A n \in Node : E[n] \subseteq Listing(tree, n),
         Descent(E), main # "start", main' # "start", UNCHANGED <<tree, todo>>,
         NEW n \in Node, NEW l \in Label, pc' = [pc EXCEPT ![n] = l],
         \/ pc[n] = "queued" /\ l = "visiting"
         \/ pc[n] \in {"visiting", "listing"} /\ l = "failed"
         \/ /\ pc[n] \in {"listing", "leaving", "opening"} /\ todo[n] = {}
            /\ l \in {"leaving", "opening", "ended", "done"}
  PROVE  Descent(E)'
<1>1. \A m \in Node : \A f \in E[m] : f \in Node
  BY OneParent DEF WalkTypes
<1> QED
  BY <1>1 DEF Descent, WalkTypes

\* Main moves on.
LEMMA DescentMain ==
  ASSUME NEW E, Descent(E), main # "start", main' # "start", UNCHANGED <<tree, pc, todo>>
  PROVE  Descent(E)'
BY DEF Descent

\* When no task is running and none has failed, and what is no entry with a
\* task is a file, the nodes with a task, and these files, are all visible ones.
LEMMA DescentEnds ==
  ASSUME WalkTypes, NEW E, \A n \in Node : E[n] \subseteq Listing(tree, n),
         \A n \in Node : Listing(tree, n) \ E[n] \subseteq tree.files,
         Descent(E), main # "start",
         NEW S, In({"opening", "ended", "done"}) \subseteq S, S \subseteq Visible(tree),
         In(Running \cup {"failed"}) = {},
         \A n \in In({"opening", "ended", "done"}) : Listing(tree, n) \ E[n] \subseteq S,
         \A n \in S \ In({"opening", "ended", "done"}) : n \in tree.files
  PROVE  Visible(tree) = S
<1>1. \A n \in Node : pc[n] \in {"unseen", "opening", "ended", "done"}
  BY DEF WalkTypes, Label, In, Running
<1>2. Root \in S
  BY <1>1, TreeAssumption DEF Descent, In
<1>3. ASSUME NEW n \in S PROVE Listing(tree, n) \subseteq S
  <2>1. CASE n \in tree.files
    BY <2>1 DEF Listing
  <2>2. CASE n \notin tree.files
    <3>1. n \in Node /\ pc[n] \in {"opening", "ended", "done"} /\ todo[n] = {}
      BY <1>1, <2>2 DEF Descent, In
    <3>2. \A f \in E[n] : f \in Node /\ pc[f] # "unseen"
      BY <3>1, OneParent DEF Descent, WalkTypes
    <3> QED
      BY <1>1, <3>1, <3>2 DEF In
  <2> QED
    BY <2>1, <2>2
<1> QED
  BY <1>2, <1>3, VisibleLeast DEF WalkTypes, Visible

-----------------------------------------------------------------------------
(* Counters of tasks.                                                      *)

\* The tasks that outstanding counts: one that failed is never counted down.
Counted == Running \cup {"failed"}

\* The counter is at least the number of tasks it counts; at least, because a
\* task that is rejected stays counted.
Counting == outstanding \in Int /\ Cardinality(In(Counted)) <= outstanding

LEMMA CountedFinite ==
  /\ IsFiniteSet(In(Counted)) /\ Cardinality(In(Counted)) \in Nat
  /\ IsFiniteSet(In(Counted)') /\ Cardinality(In(Counted)') \in Nat
<1>1. IsFiniteSet(In(Counted)) /\ IsFiniteSet(In(Counted)')
  BY TreeAssumption, FS_Subset DEF In
<1> QED
  BY <1>1, FS_CardinalityType

LEMMA CountZero == Counting /\ outstanding <= 0 => In(Counted) = {}
BY CountedFinite, FS_EmptySet DEF Counting

LEMMA CountSame ==
  ASSUME WalkTypes, Counting, NEW n \in Node, NEW l \in Counted,
         pc[n] \in Counted, pc' = [pc EXCEPT ![n] = l],
         outstanding' \in {outstanding, outstanding + 1}
  PROVE  Counting'
<1>1. In(Counted)' = In(Counted)
  BY DEF In, WalkTypes
<1> QED
  BY <1>1, CountedFinite DEF Counting

LEMMA CountUp ==
  ASSUME WalkTypes, Counting, NEW f \in Node, NEW l \in Counted,
         pc[f] = "unseen", pc' = [pc EXCEPT ![f] = l],
         outstanding' = outstanding + 1
  PROVE  Counting'
<1>1. In(Counted)' = In(Counted) \cup {f} /\ f \notin In(Counted)
  BY DEF In, WalkTypes, Counted, Running
<1>2. Cardinality(In(Counted)') = Cardinality(In(Counted)) + 1
  BY <1>1, CountedFinite, FS_AddElement
<1> QED
  BY <1>2, CountedFinite DEF Counting

LEMMA CountDown ==
  ASSUME WalkTypes, Counting, NEW n \in Node,
         pc[n] = "leaving", NEW l, l \notin Counted, pc' = [pc EXCEPT ![n] = l],
         outstanding' = outstanding - 1
  PROVE  Counting'
<1>1. In(Counted)' = In(Counted) \ {n} /\ n \in In(Counted)
  BY DEF In, WalkTypes, Counted, Running
<1>2. Cardinality(In(Counted)') = Cardinality(In(Counted)) - 1
  BY <1>1, CountedFinite, FS_RemoveElement
<1> QED
  BY <1>2, CountedFinite DEF Counting

-----------------------------------------------------------------------------
(* Answers.                                                                *)

\* The answer is the total of a moment.  Once main has come out of its wait,
\* and not by a timeout, no task runs and the total is complete.
Answered ==
  /\ Part(tree, answer)
  /\ main \in {"closing", "returning"} /\ ~timedOut =>
       In(Running) = {} /\ total = Full(tree)
  /\ main = "returned" /\ ~timedOut => answer = Full(tree)

LEMMA AnsweredInit == Init => Answered
BY PartSome DEF Init, WalkInit, Answered

\* Steps of a task, while which main cannot have come out of its wait.
LEMMA AnsweredTask ==
  ASSUME Answered, In(Running) # {}, UNCHANGED <<tree, answer, timedOut>>,
         main' = main \/ main' \notin {"closing", "returning", "returned"}
  PROVE  Answered'
BY DEF Answered

\* Steps of main; a part of the files has been added to the total.
LEMMA AnsweredMain ==
  ASSUME Answered, Part(tree, total), UNCHANGED <<tree, pc, total>>,
         \/ Shutdown \/ Return(total)
         \/ main' \notin {"closing", "returning", "returned"} /\ UNCHANGED answer
         \/ main' = "closing" /\ timedOut' /\ UNCHANGED answer
         \/ main' = "closing" /\ In(Running) = {} /\ total = Full(tree) /\ UNCHANGED answer
  PROVE  Answered'
<1>1. In(Running)' = In(Running)
  BY DEF In
<1> QED
  BY <1>1 DEF Answered, Shutdown, Return

-----------------------------------------------------------------------------
(* ConcurrentTotalFileSizeLatch.                                           *)

\* What has been added is what the tasks have come to, file by file.
LatchSummed ==
  /\ \A n \in Node : pc[n] = "listing" => size[n] = SizeOf({n} \cap tree.files)
  /\ total = SizeOf(In({"leaving", "opening", "ended", "done"}) \cap tree.files)

\* The latch is open, or a task has come to the line that opens it, only if no
\* task counts any more, so there is one such task at most.
LatchOpen ==
  /\ latch \in BOOLEAN
  /\ latch \/ In({"opening"}) # {} => In(Counted) = {} /\ main # "start"
  /\ latch => In({"opening"}) = {}
  /\ \A m, n \in In({"opening"}) : m = n

LatchInv ==
  WalkTypes /\ Descent(Entries(tree)) /\ Counting /\ LatchSummed /\ LatchOpen /\ Answered

\* While no task counts, those that have ended are all there are.
LEMMA LatchComplete ==
  ASSUME WalkTypes, Descent(Entries(tree)), LatchSummed, main # "start",
         In(Counted) = {}
  PROVE  total = Full(tree) /\ In(Running) = {}
<1> DEFINE S == In({"opening", "ended", "done"})
<1>1. \A n \in Node : Entries(tree)[n] = Listing(tree, n)
  BY DEF Entries
<1>2. S \subseteq Visible(tree)
  BY DEF Descent, In
<1>3. In(Running \cup {"failed"}) = {}
  BY DEF Counted
<1>4. Visible(tree) = S
  <2> DEFINE E == Entries(tree)
  <2> HIDE DEF S, E
  <2>1. In({"opening", "ended", "done"}) = S /\ Descent(E)
    BY DEF S, E
  <2>2. /\ \A n \in Node : E[n] \subseteq Listing(tree, n)
        /\ \A n \in Node : Listing(tree, n) \ E[n] \subseteq tree.files
        /\ \A n \in In({"opening", "ended", "done"}) : Listing(tree, n) \ E[n] \subseteq S
    BY <1>1 DEF E, In
  <2>3. \A n \in S \ In({"opening", "ended", "done"}) : n \in tree.files
    BY <2>1
  <2>4. In({"opening", "ended", "done"}) \subseteq S
    BY <2>1
  <2> QED
    BY <1>2, <1>3, <2>1, <2>2, <2>3, <2>4, DescentEnds
<1>5. In({"leaving", "opening", "ended", "done"}) = S /\ In(Running) = {}
  BY <1>3 DEF In, Running
<1> QED
  BY <1>4, <1>5 DEF LatchSummed, Full

LEMMA LatchPart == WalkTypes /\ Descent(Entries(tree)) /\ LatchSummed => Part(tree, total)
BY DEF Descent, LatchSummed, Part, In

LEMMA LatchInit == Init => LatchInv
<1> SUFFICES ASSUME Init PROVE LatchInv
  OBVIOUS
<1>1. WalkTypes
  BY SizeOfType DEF Init, WalkInit, WalkTypes, Label, Nothing
<1>2. /\ main = "start" /\ outstanding = 0 /\ latch = FALSE /\ total = SizeOf({})
      /\ \A n \in Node : pc[n] = "unseen" /\ todo[n] = {}
  BY DEF Init, WalkInit, Nothing
<1>3. \A n \in Node : \A f \in Entries(tree)[n] : f \in Node
  BY <1>1, OneParent, EntriesListed DEF WalkTypes
<1>4. Descent(Entries(tree))
  BY <1>2, <1>3 DEF Descent
<1>5. /\ In(Counted) = {}
      /\ In({"leaving", "opening", "ended", "done"}) = {}
      /\ In({"opening"}) = {}
  BY <1>2 DEF In, Counted, Running
<1>6. Counting
  BY <1>2, <1>5, FS_EmptySet DEF Counting
<1>7. LatchSummed /\ LatchOpen
  BY <1>2, <1>5 DEF LatchSummed, LatchOpen
<1> QED
  BY <1>1, <1>4, <1>6, <1>7, AnsweredInit DEF LatchInv

\* A step of the task of n that neither adds anything nor ends well.
LEMMA LatchTask ==
  ASSUME LatchInv, UNCHANGED <<tree, answer, timedOut, total, size, latch>>,
         NEW n \in Node, NEW f \in Node, pc[n] \in Running, NEW l \in Counted,
         pc[f] \in {"unseen", "queued", "visiting", "listing"},
         l \notin {"listing", "leaving"},
         pc' = [pc EXCEPT ![f] = l],
         main' = main
  PROVE  LatchSummed' /\ LatchOpen' /\ Answered'
<1>1. In({"leaving", "opening", "ended", "done"})' = In({"leaving", "opening", "ended", "done"})
  BY DEF In, LatchInv, WalkTypes, Counted, Running
<1>2. n \in In(Counted) /\ n \in In(Running)
  BY DEF In, Counted
<1>3. ~latch /\ In({"opening"})' = {}
  <2>1. ~latch /\ In({"opening"}) = {}
    BY <1>2 DEF LatchInv, LatchOpen
  <2> QED
    BY <2>1 DEF In, LatchInv, WalkTypes, Counted, Running
<1>4. \A m \in Node : pc'[m] = "listing" => pc[m] = "listing"
  BY DEF LatchInv, WalkTypes
<1> QED
  BY <1>1, <1>2, <1>3, <1>4, AnsweredTask DEF LatchInv, LatchSummed, LatchOpen

LEMMA LatchStep == LatchInv /\ Latch!Next => LatchInv'
<1> SUFFICES ASSUME LatchInv, Latch!Next PROVE LatchInv'
  OBVIOUS
<1>0. /\ WalkTypes /\ Descent(Entries(tree)) /\ Counting /\ LatchSummed
      /\ LatchOpen /\ Answered /\ Root \in Node
      /\ \A n \in Node : Entries(tree)[n] \subseteq Listing(tree, n)
      /\ \A n \in Node : Entries(tree)[n] = Listing(tree, n)
  BY TreeAssumption, EntriesListed DEF LatchInv, Entries
<1>1. CASE Latch!Begin
  <2>1. /\ pc' = [pc EXCEPT ![Root] = "visiting"] /\ main = "start" /\ main' = "walking"
        /\ outstanding' = outstanding + 1
        /\ UNCHANGED <<tree, todo, size, total, latch, answer, timedOut>>
    BY <1>1 DEF Latch!Begin
  <2>2. \A n \in Node : pc[n] = "unseen"
    BY <1>0, <2>1 DEF Descent
  <2>3. WalkTypes' /\ tree' = tree
    BY <1>0, <2>1 DEF WalkTypes, Label
  <2>4. Descent(Entries(tree))'
    BY <1>0, <2>1, <2>3, DescentBegin
  <2>5. Counting'
    BY <1>0, <2>1, <2>2, CountUp DEF Counted, Running
  <2>6. In({"leaving", "opening", "ended", "done"})' = In({"leaving", "opening", "ended", "done"})
    BY <1>0, <2>1, <2>2 DEF In, WalkTypes
  <2>7. In({"opening"})' = {}
    BY <1>0, <2>1, <2>2 DEF In, WalkTypes
  <2>8. LatchSummed' /\ LatchOpen'
    BY <1>0, <2>1, <2>6, <2>7 DEF LatchSummed, LatchOpen, WalkTypes
  <2>9. Answered'
    BY <1>0, <2>1 DEF Answered
  <2> QED
    BY <2>3, <2>4, <2>5, <2>8, <2>9 DEF LatchInv
<1>2. ASSUME NEW n \in Node, Latch!Take(n, Latch!Busy), UNCHANGED latch
      PROVE  LatchInv'
  <2>1. /\ pc[n] = "queued" /\ pc' = [pc EXCEPT ![n] = "visiting"]
        /\ UNCHANGED <<tree, main, todo, size, outstanding, total, latch, answer, timedOut>>
    BY <1>2 DEF Latch!Take
  <2>2. WalkTypes' /\ tree' = tree /\ main # "start"
    BY <1>0, <2>1 DEF WalkTypes, Label, Descent
  <2>3. Descent(Entries(tree))'
    BY <1>0, <2>1, <2>2, DescentMove DEF Label
  <2>4. Counting'
    BY <1>0, <2>1, CountSame DEF Counted, Running
  <2> QED
    BY <1>0, <2>1, <2>2, <2>3, <2>4, LatchTask DEF LatchInv, Counted, Running
<1>3. ASSUME NEW n \in Node, Latch!Visit(n)  PROVE LatchInv'
  <2>1. /\ pc[n] = "visiting" /\ pc' = [pc EXCEPT ![n] = "listing"]
        /\ todo' = [todo EXCEPT ![n] = Entries(tree)[n]]
        /\ size' = [size EXCEPT ![n] = SizeOf({n} \cap tree.files)]
        /\ UNCHANGED <<tree, main, outstanding, total, latch, answer, timedOut>>
    BY <1>0, <1>3 DEF Latch!Visit, Latch!Listing, Listing, Latch!SizeOf, SizeOf
  <2>2. WalkTypes' /\ tree' = tree
    <3>1. Entries(tree)[n] \subseteq Node
      BY <1>0, OneParent DEF WalkTypes
    <3>2. todo' \in [Node -> SUBSET Node] /\ size' \in [Node -> Sizes]
      BY <1>0, <2>1, <3>1, SizeOfType DEF WalkTypes
    <3> QED
      BY <1>0, <2>1, <3>2 DEF WalkTypes, Label
  <2>3. Descent(Entries(tree))'
    BY <1>0, <2>1, <2>2, DescentVisit
  <2>4. Counting'
    BY <1>0, <2>1, CountSame DEF Counted, Running
  <2>5. In({"leaving", "opening", "ended", "done"})' = In({"leaving", "opening", "ended", "done"})
    BY <1>0, <2>1 DEF In, WalkTypes
  <2>6. n \in In(Counted) /\ n \in In(Running)
    BY <2>1 DEF In, Counted, Running
  <2>7. LatchSummed'
    BY <1>0, <2>1, <2>5 DEF LatchSummed, WalkTypes
  <2>8. LatchOpen' /\ Answered'
    <3>1. ~latch /\ In({"opening"}) = {}
      BY <1>0, <2>6 DEF LatchOpen
    <3>2. In({"opening"})' = {}
      BY <1>0, <2>1, <3>1 DEF In, WalkTypes
    <3> QED
      BY <1>0, <2>1, <2>6, <3>1, <3>2, AnsweredTask DEF LatchOpen
  <2> QED
    BY <2>2, <2>3, <2>4, <2>7, <2>8 DEF LatchInv
<1>4. ASSUME NEW n \in Node, Latch!VisitFails(n) \/ Latch!SubmitFails(n)
      PROVE  LatchInv'
  <2>1. /\ pc[n] \in {"visiting", "listing"} /\ pc' = [pc EXCEPT ![n] = "failed"]
        /\ outstanding' \in {outstanding, outstanding + 1}
        /\ UNCHANGED <<tree, todo, size, total, latch, answer, timedOut>>
    BY <1>0, <1>4 DEF Latch!VisitFails, Latch!SubmitFails, Latch!Rejected, Counting
  <2>2. main' = main \/ (n = Root /\ pc[n] = "visiting" /\ n \in tree.unreadable /\ main' = "closing")
    BY <1>4 DEF Latch!VisitFails, Latch!SubmitFails, Latch!Rejected
  <2>3. WalkTypes' /\ tree' = tree /\ main # "start" /\ main' # "start"
    BY <1>0, <2>1, <2>2 DEF WalkTypes, Label, Descent
  <2>4. Descent(Entries(tree))'
    BY <1>0, <2>1, <2>3, DescentMove DEF Label
  <2>5. Counting'
    BY <1>0, <2>1, CountSame DEF Counted, Running
  <2>6. CASE main' = main
    BY <1>0, <2>1, <2>3, <2>4, <2>5, <2>6, LatchTask DEF LatchInv, Counted, Running
  <2>7. CASE main' # main
    <3>1. Visible(tree) = {Root}
      <4> DEFINE S == {Root}
      <4>1. S \in SUBSET Node /\ Root \in S /\ \A m \in S : Listing(tree, m) \subseteq S
        BY <1>0, <2>2, <2>7 DEF Listing
      <4> HIDE DEF S
      <4>2. Visible(tree) \subseteq S /\ Root \in Visible(tree)
        BY <1>0, <4>1, VisibleLeast, VisibleClosed DEF WalkTypes
      <4> QED
        BY <4>2 DEF S
    <3>2. \A m \in Node : pc[m] # "unseen" => m = Root
      BY <1>0, <3>1 DEF Descent
    <3>3. pc'[Root] = "failed" /\ \A m \in Node : m # Root => pc'[m] = "unseen"
      BY <1>0, <2>1, <2>2, <2>7, <3>2 DEF WalkTypes
    <3>4. In({"leaving", "opening", "ended", "done"})' = {} /\ In({"leaving", "opening", "ended", "done"}) = {}
          /\ In(Running)' = {} /\ n \in In(Counted) /\ In({"opening"})' = {}
      BY <2>1, <2>2, <2>7, <3>2, <3>3 DEF In, Running, Counted
    <3>5. LatchSummed' /\ LatchOpen'
      BY <1>0, <2>1, <3>3, <3>4 DEF LatchSummed, LatchOpen
    <3>6. Visible(tree) \cap tree.files = {}
      BY <1>0, <2>2, <2>7, <3>1, TreeAssumption DEF WalkTypes
    <3>7. total = Full(tree)
      BY <1>0, <3>4, <3>6 DEF LatchSummed, Full
    <3>8. Answered'
      BY <1>0, <2>1, <2>2, <2>7, <3>4, <3>7 DEF Answered
    <3> QED
      BY <2>3, <2>4, <2>5, <3>5, <3>8 DEF LatchInv
  <2> QED
    BY <2>6, <2>7
<1>5. ASSUME NEW n \in Node, Latch!Submit(n)  PROVE LatchInv'
  <2>0. PICK f \in todo[n] : Latch!SubmitEntry(n, f, 1) /\ UNCHANGED latch
    BY <1>5 DEF Latch!Submit
  <2>1. /\ pc[n] = "listing" /\ pc' = [pc EXCEPT ![f] = "queued"]
        /\ todo' = [todo EXCEPT ![n] = @ \ {f}]
        /\ outstanding' = outstanding + 1
        /\ UNCHANGED <<tree, main, size, total, latch, answer, timedOut>>
    BY <2>0 DEF Latch!SubmitEntry
  <2>2. Descent(Entries(tree))' /\ f \in Node /\ pc[f] = "unseen"
    BY <1>0, <2>1, DescentSubmit
  <2>3. WalkTypes' /\ tree' = tree
    BY <1>0, <2>1, <2>2 DEF WalkTypes, Label
  <2>4. Counting'
    BY <1>0, <2>1, <2>2, CountUp DEF Counted, Running
  <2> QED
    BY <1>0, <2>1, <2>2, <2>3, <2>4, LatchTask DEF LatchInv, Counted, Running
<1>6. ASSUME NEW n \in Node, Latch!Add(n)  PROVE LatchInv'
  <2>1. /\ pc[n] = "listing" /\ pc' = [pc EXCEPT ![n] = "leaving"]
        /\ todo[n] = {} /\ total' = Plus(total, size[n])
        /\ UNCHANGED <<tree, main, todo, size, outstanding, latch, answer, timedOut>>
    BY <1>6 DEF Latch!Add, Latch!Plus, Plus
  <2>2. WalkTypes' /\ tree' = tree /\ main # "start"
    <3>1. total' \in Sizes
      BY <1>0, <2>1, PlusType DEF WalkTypes
    <3> QED
      BY <1>0, <2>1, <3>1 DEF WalkTypes, Label, Descent
  <2>3. Descent(Entries(tree))'
    BY <1>0, <2>1, <2>2, DescentMove DEF Label
  <2>4. Counting'
    BY <1>0, <2>1, CountSame DEF Counted, Running
  <2>5. LatchSummed'
    <3> DEFINE Added == In({"leaving", "opening", "ended", "done"})
    <3>1. Added' = Added \cup {n} /\ n \notin Added
      BY <1>0, <2>1 DEF In, WalkTypes
    <3>2. total = SizeOf(Added \cap tree.files) /\ size[n] = SizeOf({n} \cap tree.files)
      BY <1>0, <2>1 DEF LatchSummed
    <3>3. total' = SizeOf((Added \cap tree.files) \cup ({n} \cap tree.files))
      BY <2>1, <3>1, <3>2, PlusNew
    <3>4. total' = SizeOf(Added' \cap tree'.files)
      <4>1. (Added \cap tree.files) \cup ({n} \cap tree.files) = Added' \cap tree'.files
        BY <2>1, <3>1
      <4> QED
        BY <3>3, <4>1
    <3>5. \A m \in Node : pc'[m] = "listing" => pc[m] = "listing"
      BY <1>0, <2>1 DEF WalkTypes
    <3> QED
      BY <1>0, <2>1, <3>4, <3>5 DEF LatchSummed
  <2>6. n \in In(Counted) /\ n \in In(Running)
    BY <2>1 DEF In, Counted, Running
  <2>7. LatchOpen' /\ Answered'
    <3>1. ~latch /\ In({"opening"}) = {}
      BY <1>0, <2>6 DEF LatchOpen
    <3>2. In({"opening"})' = {}
      BY <1>0, <2>1, <3>1 DEF In, WalkTypes
    <3> QED
      BY <1>0, <2>1, <2>6, <3>1, <3>2, AnsweredTask DEF LatchOpen
  <2> QED
    BY <2>2, <2>3, <2>4, <2>5, <2>7 DEF LatchInv
<1>7. ASSUME NEW n \in Node, Latch!Leave(n)  PROVE LatchInv'
  <2> DEFINE l == IF outstanding' = 0 THEN "opening" ELSE "ended"
  <2>1. /\ pc[n] = "leaving" /\ pc' = [pc EXCEPT ![n] = l] /\ l \in {"opening", "ended"}
        /\ outstanding' = outstanding - 1
        /\ main' \in {main, "awaiting"}
        /\ UNCHANGED <<tree, todo, size, total, latch, answer, timedOut>>
    BY <1>7 DEF Latch!Leave
  <2>2. WalkTypes' /\ tree' = tree /\ main # "start" /\ todo[n] = {}
    BY <1>0, <2>1 DEF WalkTypes, Label, Descent
  <2>3. Descent(Entries(tree))'
    BY <1>0, <2>1, <2>2, DescentMove DEF Label
  <2>4. Counting'
    BY <1>0, <2>1, CountDown DEF Counted, Running
  <2>5. In({"leaving", "opening", "ended", "done"})' = In({"leaving", "opening", "ended", "done"})
    BY <1>0, <2>1 DEF In, WalkTypes
  <2>6. n \in In(Counted) /\ n \in In(Running)
    BY <2>1 DEF In, Counted, Running
  <2>7. LatchSummed'
    BY <1>0, <2>1, <2>5 DEF LatchSummed, WalkTypes
  <2>8. LatchOpen'
    <3>1. ~latch /\ In({"opening"}) = {}
      BY <1>0, <2>6 DEF LatchOpen
    <3>2. outstanding' = 0 => In(Counted)' = {}
      BY <2>4, CountedFinite, FS_EmptySet DEF Counting
    <3>3. In({"opening"})' = IF outstanding' = 0 THEN {n} ELSE {}
      BY <1>0, <2>1, <3>1 DEF In, WalkTypes
    <3> QED
      BY <1>0, <2>1, <2>2, <3>1, <3>2, <3>3 DEF LatchOpen
  <2>9. Answered'
    BY <1>0, <2>1, <2>6, AnsweredTask
  <2> QED
    BY <2>2, <2>3, <2>4, <2>7, <2>8, <2>9 DEF LatchInv
<1>9. ASSUME NEW n \in Node, Latch!CountDown(n)  PROVE LatchInv'
  <2>1. /\ pc[n] = "opening" /\ pc' = [pc EXCEPT ![n] = "ended"] /\ latch' = TRUE
        /\ main' \in {main, "awaiting"}
        /\ UNCHANGED <<tree, todo, size, outstanding, total, answer, timedOut>>
    BY <1>9 DEF Latch!CountDown
  <2>2. WalkTypes' /\ tree' = tree /\ main # "start" /\ todo[n] = {}
    BY <1>0, <2>1 DEF WalkTypes, Label, Descent
  <2>3. Descent(Entries(tree))'
    BY <1>0, <2>1, <2>2, DescentMove DEF Label
  <2>4. /\ In({"leaving", "opening", "ended", "done"})' = In({"leaving", "opening", "ended", "done"})
        /\ In(Counted)' = In(Counted) /\ In(Running)' = In(Running)
        /\ In({"opening"})' = In({"opening"}) \ {n} /\ n \in In({"opening"})
    BY <1>0, <2>1 DEF In, WalkTypes, Counted, Running
  <2>5. Counting'
    BY <1>0, <2>1, <2>4 DEF Counting
  <2>6. LatchSummed'
    BY <1>0, <2>1, <2>4 DEF LatchSummed, WalkTypes
  <2>7. LatchOpen'
    BY <1>0, <2>1, <2>2, <2>4 DEF LatchOpen
  <2>8. Answered'
    BY <1>0, <2>1, <2>4 DEF Answered
  <2> QED
    BY <2>2, <2>3, <2>5, <2>6, <2>7, <2>8 DEF LatchInv
<1>8. ASSUME \/ Latch!AwaitOpens \/ Latch!AwaitTimesOut
             \/ Latch!Shutdown /\ UNCHANGED latch
             \/ Latch!Return(total) /\ UNCHANGED latch
      PROVE  LatchInv'
  <2>1. /\ UNCHANGED <<tree, pc, todo, size, outstanding, total, latch>>
        /\ main # "start" /\ main' # "start"
    BY <1>8 DEF Latch!AwaitOpens, Latch!AwaitTimesOut, Latch!GiveUp, Latch!Shutdown, Latch!Return
  <2>2. \/ Shutdown \/ Return(total)
        \/ main' = "closing" /\ timedOut' /\ UNCHANGED answer
        \/ main' = "closing" /\ latch /\ UNCHANGED answer
    BY <1>8 DEF Latch!AwaitOpens, Latch!AwaitTimesOut, Latch!GiveUp, Latch!Shutdown,
                Latch!Return, Shutdown, Return
  <2>3. latch => In(Running) = {} /\ total = Full(tree)
    BY <1>0, LatchComplete DEF LatchOpen
  <2>4. Answered'
    BY <1>0, <2>1, <2>2, <2>3, LatchPart, AnsweredMain
  <2>5. Descent(Entries(tree))'
    BY <1>0, <2>1, DescentMain
  <2>6. WalkTypes' /\ Counting' /\ LatchSummed' /\ LatchOpen'
    BY <1>0, <2>1 DEF WalkTypes, Counting, LatchSummed, LatchOpen, In
  <2> QED
    BY <2>4, <2>5, <2>6 DEF LatchInv
<1> QED
  BY <1>1, <1>2, <1>3, <1>4, <1>5, <1>6, <1>7, <1>8, <1>9 DEF Latch!Next, Latch!Step

LEMMA LatchSafe == LatchInv => Latch!LatchOpensLast
<1> SUFFICES ASSUME LatchInv, latch
             PROVE  total = Full(tree) /\ In(Running \cup {"opening"}) = {}
  BY DEF Latch!LatchOpensLast, Latch!Full, Full, Latch!Visible, Visible,
         Latch!Listing, Listing, Latch!SizeOf, SizeOf, Latch!In, In, Running
<1>1. total = Full(tree) /\ In(Running) = {} /\ In({"opening"}) = {}
  BY LatchComplete DEF LatchInv, LatchOpen
<1> QED
  BY <1>1 DEF In

-----------------------------------------------------------------------------
(* ContFileQueue.                                                          *)

\* The files that the task of n adds up, and those of a set of tasks.
Own(t, n) == IF n \in t.files THEN {n} ELSE FilesIn(t, n)
Owns(t, S) == UNION {Own(t, n) : n \in S}

LEMMA OwnApart ==
  ASSUME NEW t \in Trees, NEW m \in Node, NEW n \in Node, m # n,
         m = Root \/ m \notin t.files, n = Root \/ n \notin t.files
  PROVE  Own(t, m) \cap Own(t, n) = {}
<1>1. \A f \in Own(t, m) : f = Root \/ f \in Listing(t, m)
  BY DEF Own, FilesIn
<1>2. \A f \in Own(t, n) : f = Root \/ f \in Listing(t, n)
  BY DEF Own, FilesIn
<1>3. \A f \in Listing(t, m) : f # Root /\ f \notin Listing(t, n)
  BY OneParent
<1>4. \A f \in Listing(t, n) : f # Root /\ f \notin Listing(t, m)
  BY OneParent
<1>5. CASE Root \notin Own(t, m)
  BY <1>1, <1>2, <1>3, <1>4, <1>5
<1>6. CASE Root \notin Own(t, n)
  BY <1>1, <1>2, <1>3, <1>4, <1>6
<1>7. ASSUME NEW k \in Node, Root \in Own(t, k), k = Root \/ k \notin t.files
      PROVE  k = Root
  <2>1. \A f \in Listing(t, k) : f # Root
    BY OneParent
  <2> QED
    BY <1>7, <2>1 DEF Own, FilesIn
<1> QED
  BY <1>5, <1>6, <1>7

LEMMA OwnVisible ==
  ASSUME NEW t \in Trees, NEW S \in SUBSET Visible(t)
  PROVE  Owns(t, S) \subseteq Visible(t) \cap t.files
<1>1. ASSUME NEW n \in S PROVE Own(t, n) \subseteq Visible(t) \cap t.files
  BY VisibleClosed DEF Own, FilesIn
<1> QED
  BY <1>1 DEF Owns

\* Each size in the queue was put there by a task of its own, from; the tasks
\* whose sizes have been taken out are in the total, each once.
QueuedBy(from) ==
  /\ Len(from) = Len(queue)
  /\ \A i \in 1 .. Len(queue) : queue[i] = SizeOf(Own(tree, from[i]))
  /\ \A i, k \in 1 .. Len(from) : from[i] = from[k] => i = k
  /\ ToSet(from) \subseteq In({"leaving", "ended"})
  /\ total = SizeOf(Owns(tree, In({"leaving", "ended"}) \ ToSet(from)))

QueueSummed ==
  /\ queue \in Seq(Sizes)
  /\ \A n \in Node : pc[n] # "unseen" => n = Root \/ n \notin tree.files
  /\ \A n \in Node : pc[n] \in {"listing", "leaving", "ended"} => size[n] = SizeOf(Own(tree, n))
  /\ \E from \in Seq(Node) : QueuedBy(from)

\* Main looks into the queue only when no directory is being visited any more.
QueueLooked ==
  /\ main = "looking" => In(Counted) = {}
  /\ main \in {"closing", "returning"} /\ ~timedOut => In(Counted) = {}
  /\ \A n \in Node : pc[n] \notin {"opening", "done"}

QueueInv ==
  WalkTypes /\ Descent(Dirs(tree)) /\ Counting /\ QueueSummed /\ QueueLooked /\ Answered

LEMMA QueueComplete ==
  ASSUME WalkTypes, Descent(Dirs(tree)), QueueSummed, QueueLooked, main # "start",
         In(Counted) = {}, queue = << >>
  PROVE  total = Full(tree) /\ In(Running) = {}
<1> DEFINE ended == In({"opening", "ended", "done"})
           S == ended \cup Owns(tree, ended)
           E == Dirs(tree)
<1>1. In(Running) = {} /\ In(Running \cup {"failed"}) = {}
  BY DEF Counted, In
<1>2. total = SizeOf(Owns(tree, ended))
  <2>1. PICK from \in Seq(Node) : QueuedBy(from)
    BY DEF QueueSummed
  <2>2. ToSet(from) = {}
    BY <2>1, LenProperties DEF QueuedBy, ToSet
  <2>3. In({"leaving", "ended"}) = ended
    BY <1>1 DEF In, Running, QueueLooked
  <2> QED
    BY <2>1, <2>2, <2>3 DEF QueuedBy
<1>3. ended \subseteq Visible(tree) /\ Owns(tree, ended) \subseteq Visible(tree) \cap tree.files
  <2>1. ended \subseteq Visible(tree)
    BY DEF Descent, In
  <2> QED
    BY <2>1, OwnVisible DEF WalkTypes
<1>4. \A n \in ended : n \in Node /\ n \in tree.files => n \in Owns(tree, ended)
  BY DEF Owns, Own
<1>5. \A n \in ended : Listing(tree, n) \ E[n] \subseteq S
  BY DEF Owns, Own, In, Dirs, DirsIn, FilesIn, Listing
<1>6. /\ \A n \in Node : E[n] \subseteq Listing(tree, n)
      /\ \A n \in Node : Listing(tree, n) \ E[n] \subseteq tree.files
      /\ Descent(E)
  BY DEF Dirs, DirsIn
<1>7. Visible(tree) = S
  <2>1. ended \subseteq S /\ S \subseteq Visible(tree)
    BY <1>3
  <2>2. \A n \in S \ ended : n \in tree.files
    BY <1>3
  <2>3. ended = In({"opening", "ended", "done"})
    OBVIOUS
  <2> HIDE DEF S, E, ended
  <2> QED
    BY <1>1, <1>5, <1>6, <2>1, <2>2, <2>3, DescentEnds
<1>8. Visible(tree) \cap tree.files = Owns(tree, ended)
  BY <1>3, <1>4, <1>7 DEF In
<1> QED
  BY <1>1, <1>2, <1>8 DEF Full

LEMMA QueuePart == WalkTypes /\ Descent(Dirs(tree)) /\ QueueSummed => Part(tree, total)
<1> SUFFICES ASSUME WalkTypes, Descent(Dirs(tree)), QueueSummed PROVE Part(tree, total)
  OBVIOUS
<1>1. PICK from \in Seq(Node) : QueuedBy(from)
  BY DEF QueueSummed
<1>2. In({"leaving", "ended"}) \ ToSet(from) \subseteq Visible(tree)
  BY DEF Descent, In
<1> QED
  BY <1>1, <1>2, OwnVisible DEF QueuedBy, Part, WalkTypes

LEMMA QueueInit == Init => QueueInv
<1> SUFFICES ASSUME Init PROVE QueueInv
  OBVIOUS
<1>1. WalkTypes
  BY SizeOfType DEF Init, WalkInit, WalkTypes, Label, Nothing
<1>2. /\ main = "start" /\ outstanding = 0 /\ queue = << >> /\ total = SizeOf({})
      /\ \A n \in Node : pc[n] = "unseen" /\ todo[n] = {}
  BY DEF Init, WalkInit, Nothing
<1>3. \A n \in Node : \A f \in Dirs(tree)[n] : f \in Node
  BY <1>1, OneParent, EntriesListed DEF WalkTypes
<1>4. Descent(Dirs(tree))
  BY <1>2, <1>3 DEF Descent
<1>5. In(Counted) = {} /\ In({"leaving", "ended"}) = {}
  BY <1>2 DEF In, Counted, Running
<1>6. Counting
  BY <1>2, <1>5, FS_EmptySet DEF Counting
<1>7. QueuedBy(<< >>)
  <2>1. ToSet(<< >>) = {} /\ Len(<< >>) = 0
    BY DEF ToSet
  <2>2. Owns(tree, In({"leaving", "ended"}) \ ToSet(<< >>)) = {}
    BY <1>5, <2>1 DEF Owns
  <2>3. total = SizeOf(Owns(tree, In({"leaving", "ended"}) \ ToSet(<< >>)))
    BY <1>2, <2>2
  <2>4. Len(<< >>) = Len(queue) /\ 1 .. Len(queue) = {} /\ 1 .. Len(<< >>) = {}
    BY <1>2, <2>1
  <2>5. ToSet(<< >>) \subseteq In({"leaving", "ended"})
    BY <2>1
  <2> QED
    BY <2>3, <2>4, <2>5, Zenon DEF QueuedBy
<1>8. QueueSummed /\ QueueLooked
  <2>1. << >> \in Seq(Node) /\ queue \in Seq(Sizes)
    BY <1>2
  <2> QED
    BY <1>2, <1>7, <2>1 DEF QueueSummed, QueueLooked
<1> QED
  BY <1>1, <1>4, <1>6, <1>8, AnsweredInit DEF QueueInv

\* A step of the task of f that neither puts anything nor ends well.
LEMMA QueueKeeps ==
  ASSUME WalkTypes, QueueSummed, UNCHANGED <<tree, total, queue>>,
         NEW f \in Node, f = Root \/ f \notin tree.files,
         pc[f] \in {"unseen", "queued", "visiting", "listing"},
         NEW l \in {"queued", "visiting", "listing", "failed"},
         pc' = [pc EXCEPT ![f] = l],
         \/ size' = size /\ l # "listing"
         \/ size' = [size EXCEPT ![f] = SizeOf(Own(tree, f))]
  PROVE  QueueSummed'
<1>1. In({"leaving", "ended"})' = In({"leaving", "ended"})
  BY DEF In, WalkTypes
<1>2. PICK from \in Seq(Node) : QueuedBy(from)
  BY DEF QueueSummed
<1>3. QueuedBy(from)'
  BY <1>1, <1>2 DEF QueuedBy
<1>4. \A n \in Node : pc'[n] # "unseen" => n = Root \/ n \notin tree.files
  BY DEF QueueSummed, WalkTypes
<1>5. \A n \in Node : pc'[n] \in {"listing", "leaving", "ended"} =>
                        size'[n] = SizeOf(Own(tree, n))
  BY DEF QueueSummed, WalkTypes
<1> QED
  BY <1>3, <1>4, <1>5 DEF QueueSummed

\* While a task counts, main has not looked into the queue for the last time.
LEMMA QueueTask ==
  ASSUME QueueInv, NEW n \in Node, pc[n] \in Running,
         NEW f \in Node, NEW l \in Label \ {"opening", "done"}, pc' = [pc EXCEPT ![f] = l],
         UNCHANGED <<tree, main, answer, timedOut>>
  PROVE  QueueLooked' /\ Answered' /\ main # "start"
<1>1. n \in In(Counted) /\ n \in In(Running)
  BY DEF In, Counted
<1>2. main # "start"
  BY DEF QueueInv, Descent, Running
<1>3. \A m \in Node : pc'[m] \notin {"opening", "done"}
  BY DEF QueueInv, QueueLooked, WalkTypes
<1>4. QueueLooked'
  BY <1>1, <1>3 DEF QueueInv, QueueLooked
<1> QED
  BY <1>1, <1>2, <1>4, AnsweredTask DEF QueueInv

LEMMA QueuePut ==
  ASSUME WalkTypes, QueueSummed, NEW n \in Node, pc[n] = "listing",
         pc' = [pc EXCEPT ![n] = "leaving"], queue' = Append(queue, size[n]),
         UNCHANGED <<tree, size, total>>
  PROVE  QueueSummed'
<1>1. PICK from \in Seq(Node) : QueuedBy(from)
  BY DEF QueueSummed
<1>2. In({"leaving", "ended"})' = In({"leaving", "ended"}) \cup {n}
      /\ n \notin In({"leaving", "ended"})
  BY DEF In, WalkTypes
<1> DEFINE longer == Append(from, n)
<1>3. size[n] = SizeOf(Own(tree, n)) /\ size[n] \in Sizes
  BY DEF QueueSummed, WalkTypes
<1>4. queue \in Seq(Sizes) /\ n \notin ToSet(from)
  BY <1>1, <1>2 DEF QueueSummed, QueuedBy
<1>5. ToSet(longer) = ToSet(from) \cup {n}
  BY AppendElements
<1>6. \A i, k \in 1 .. Len(longer) : longer[i] = longer[k] => i = k
  <2>1. \A i, k \in 1 .. Len(from) : from[i] = from[k] => i = k
    BY <1>1 DEF QueuedBy
  <2> QED
    BY <1>4, <2>1, AppendDistinct
<1>7. /\ queue' \in Seq(Sizes) /\ Len(longer) = Len(queue')
      /\ \A i \in 1 .. Len(queue') : queue'[i] = SizeOf(Own(tree, longer[i]))
  <2>1. Len(from) = Len(queue) /\ \A i \in 1 .. Len(queue) : queue[i] = SizeOf(Own(tree, from[i]))
    BY <1>1 DEF QueuedBy
  <2>2. /\ queue' \in Seq(Sizes) /\ Len(queue') = Len(queue) + 1 /\ Len(queue) \in Nat
        /\ \A i \in 1 .. Len(queue) : queue'[i] = queue[i]
        /\ queue'[Len(queue) + 1] = size[n]
    BY <1>3, <1>4
  <2>3. /\ Len(longer) = Len(from) + 1 /\ longer[Len(from) + 1] = n
        /\ \A i \in 1 .. Len(from) : longer[i] = from[i]
    OBVIOUS
  <2> QED
    BY <1>3, <2>1, <2>2, <2>3
<1>8. In({"leaving", "ended"})' \ ToSet(longer) = In({"leaving", "ended"}) \ ToSet(from)
  BY <1>2, <1>5
<1>9. ToSet(longer) \subseteq In({"leaving", "ended"})'
  BY <1>1, <1>2, <1>5 DEF QueuedBy
<1> HIDE DEF longer
<1>10. QueuedBy(longer)'
  BY <1>1, <1>6, <1>7, <1>8, <1>9 DEF QueuedBy
<1>11. longer \in Seq(Node)
  BY DEF longer
<1>12. \A m \in Node : pc'[m] # "unseen" => m = Root \/ m \notin tree.files
  BY DEF QueueSummed, WalkTypes
<1>13. \A m \in Node : pc'[m] \in {"listing", "leaving", "ended"} =>
                         size'[m] = SizeOf(Own(tree, m))
  BY DEF QueueSummed, WalkTypes
<1> QED
  BY <1>7, <1>10, <1>11, <1>12, <1>13 DEF QueueSummed

LEMMA QueuePoll ==
  ASSUME WalkTypes, QueueSummed, queue # << >>,
         total' = Plus(total, Head(queue)), queue' = Tail(queue),
         UNCHANGED <<tree, pc, size>>
  PROVE  QueueSummed' /\ total' \in Sizes
<1>1. PICK from \in Seq(Node) : QueuedBy(from)
  BY DEF QueueSummed
<1>2. /\ Len(from) = Len(queue) /\ queue \in Seq(Sizes)
      /\ \A i \in 1 .. Len(queue) : queue[i] = SizeOf(Own(tree, from[i]))
      /\ \A i, k \in 1 .. Len(from) : from[i] = from[k] => i = k
      /\ ToSet(from) \subseteq In({"leaving", "ended"})
  BY <1>1 DEF QueuedBy, QueueSummed
<1>3. from # << >> /\ 1 \in 1 .. Len(queue) /\ Head(from) = from[1] /\ Head(queue) = queue[1]
  BY <1>2
<1> DEFINE n == Head(from)
           rest == Tail(from)
           left == In({"leaving", "ended"}) \ ToSet(from)
<1>4. /\ n \in ToSet(from) /\ ToSet(rest) = ToSet(from) \ {n} /\ rest \in Seq(Node)
      /\ \A i, k \in 1 .. Len(rest) : rest[i] = rest[k] => i = k
  BY <1>2, <1>3, TailElements
<1>5. n \in In({"leaving", "ended"}) /\ n \in Node
  BY <1>2, <1>4 DEF In
<1>6. /\ queue' \in Seq(Sizes) /\ Len(rest) = Len(queue')
      /\ \A i \in 1 .. Len(queue') : queue'[i] = SizeOf(Own(tree, rest[i]))
  <2>1. /\ queue' \in Seq(Sizes) /\ Len(queue') = Len(queue) - 1
        /\ \A i \in 1 .. Len(queue) - 1 : queue'[i] = queue[i + 1]
    BY <1>2
  <2>2. Len(rest) = Len(from) - 1 /\ \A i \in 1 .. Len(from) - 1 : rest[i] = from[i + 1]
    BY <1>3
  <2>3. \A i \in 1 .. Len(queue) - 1 : i + 1 \in 1 .. Len(queue)
    BY <1>2, LenProperties
  <2> QED
    BY <1>2, <2>1, <2>2, <2>3
<1> HIDE DEF n, rest
<1>7. In({"leaving", "ended"}) \ ToSet(rest) = left \cup {n} /\ n \notin left
  BY <1>4, <1>5
<1>8. Owns(tree, left \cup {n}) = Owns(tree, left) \cup Own(tree, n)
  BY DEF Owns
<1>9. Owns(tree, left) \cap Own(tree, n) = {}
  <2>1. ASSUME NEW m \in left PROVE Own(tree, m) \cap Own(tree, n) = {}
    <3>1. m \in Node /\ m # n /\ pc[m] # "unseen" /\ pc[n] # "unseen"
      BY <1>5, <1>7 DEF In
    <3>2. (m = Root \/ m \notin tree.files) /\ (n = Root \/ n \notin tree.files)
      BY <1>5, <3>1 DEF QueueSummed
    <3> QED
      BY <1>5, <3>1, <3>2, OwnApart DEF WalkTypes
  <2> QED
    BY <2>1 DEF Owns
<1>10. total' = SizeOf(Owns(tree, left) \cup Own(tree, n))
  <2>1. total = SizeOf(Owns(tree, left)) /\ Head(queue) = SizeOf(Own(tree, n))
    BY <1>1, <1>2, <1>3 DEF QueuedBy, n
  <2> HIDE DEF left
  <2> QED
    BY <1>9, <2>1, PlusNew
<1>11. ToSet(rest) \subseteq In({"leaving", "ended"})
  BY <1>2, <1>4
<1>12. In({"leaving", "ended"})' = In({"leaving", "ended"})
  BY DEF In
<1>13. QueuedBy(rest)'
  BY <1>4, <1>6, <1>7, <1>8, <1>10, <1>11, <1>12 DEF QueuedBy
<1> QED
  BY <1>4, <1>6, <1>10, <1>13, SizeOfType DEF QueueSummed

LEMMA QueueStep == QueueInv /\ Queue!Next => QueueInv'
<1> SUFFICES ASSUME QueueInv, Queue!Next PROVE QueueInv'
  OBVIOUS
<1>0. /\ WalkTypes /\ Descent(Dirs(tree)) /\ Counting /\ QueueSummed
      /\ QueueLooked /\ Answered /\ Root \in Node
      /\ \A n \in Node : Dirs(tree)[n] \subseteq Listing(tree, n)
      /\ \A n \in Node : Dirs(tree)[n] \subseteq Node
      /\ \A n \in Node : \A f \in Dirs(tree)[n] : f \notin tree.files
  BY TreeAssumption, EntriesListed, OneParent DEF QueueInv, Dirs, DirsIn, WalkTypes
<1>1. CASE Queue!Begin
  <2>1. /\ pc' = [pc EXCEPT ![Root] = "queued"] /\ main = "start" /\ main' = "reading"
        /\ outstanding' = outstanding + 1
        /\ UNCHANGED <<tree, todo, size, total, queue, answer, timedOut>>
    BY <1>1 DEF Queue!Begin
  <2>2. \A n \in Node : pc[n] = "unseen"
    BY <1>0, <2>1 DEF Descent
  <2>3. WalkTypes' /\ tree' = tree
    BY <1>0, <2>1 DEF WalkTypes, Label
  <2>4. Descent(Dirs(tree))'
    BY <1>0, <2>1, <2>3, DescentBegin
  <2>5. Counting'
    BY <1>0, <2>1, <2>2, CountUp DEF Counted, Running
  <2>6. QueueSummed'
    BY <1>0, <2>1, <2>2, QueueKeeps
  <2>7. QueueLooked' /\ Answered'
    BY <1>0, <2>1 DEF QueueLooked, Answered, WalkTypes
  <2> QED
    BY <2>3, <2>4, <2>5, <2>6, <2>7 DEF QueueInv
<1>2. ASSUME NEW n \in Node, Queue!Take(n, Queue!Busy), UNCHANGED queue
      PROVE  QueueInv'
  <2>1. /\ pc[n] = "queued" /\ pc' = [pc EXCEPT ![n] = "visiting"]
        /\ UNCHANGED <<tree, main, todo, size, outstanding, total, queue, answer, timedOut>>
    BY <1>2 DEF Queue!Take
  <2>2. WalkTypes' /\ tree' = tree /\ main # "start"
    BY <1>0, <2>1 DEF WalkTypes, Label, Descent
  <2>3. Descent(Dirs(tree))'
    BY <1>0, <2>1, <2>2, DescentMove DEF Label
  <2>4. Counting'
    BY <1>0, <2>1, CountSame DEF Counted, Running
  <2>5. QueueSummed'
    <3>1. n = Root \/ n \notin tree.files
      BY <1>0, <2>1 DEF QueueSummed
    <3> QED
      BY <1>0, <2>1, <3>1, QueueKeeps
  <2>6. QueueLooked' /\ Answered'
    BY <2>1, QueueTask DEF Label, Running
  <2> QED
    BY <2>2, <2>3, <2>4, <2>5, <2>6 DEF QueueInv
<1>3. ASSUME NEW n \in Node, Queue!Visit(n)  PROVE QueueInv'
  <2>1. /\ pc[n] = "visiting" /\ pc' = [pc EXCEPT ![n] = "listing"]
        /\ todo' = [todo EXCEPT ![n] = Dirs(tree)[n]]
        /\ size' = [size EXCEPT ![n] = SizeOf(Own(tree, n))]
        /\ UNCHANGED <<tree, main, outstanding, total, queue, answer, timedOut>>
    BY <1>3 DEF Queue!Visit, Dirs, Own, Queue!DirsIn, DirsIn, Queue!FilesIn, FilesIn,
                Queue!Listing, Listing, Queue!SizeOf, SizeOf
  <2>2. WalkTypes' /\ tree' = tree
    <3>1. todo' \in [Node -> SUBSET Node] /\ size' \in [Node -> Sizes]
      BY <1>0, <2>1, SizeOfType DEF WalkTypes
    <3> QED
      BY <1>0, <2>1, <3>1 DEF WalkTypes, Label
  <2>3. Descent(Dirs(tree))'
    BY <1>0, <2>1, <2>2, DescentVisit
  <2>4. Counting'
    BY <1>0, <2>1, CountSame DEF Counted, Running
  <2>5. QueueSummed'
    <3>1. n = Root \/ n \notin tree.files
      BY <1>0, <2>1 DEF QueueSummed
    <3> QED
      BY <1>0, <2>1, <3>1, QueueKeeps
  <2>6. QueueLooked' /\ Answered'
    BY <2>1, QueueTask DEF Label, Running
  <2> QED
    BY <2>2, <2>3, <2>4, <2>5, <2>6 DEF QueueInv
<1>4. ASSUME NEW n \in Node, Queue!SubmitFails(n)  PROVE QueueInv'
  <2>1. /\ pc[n] = "listing" /\ pc' = [pc EXCEPT ![n] = "failed"]
        /\ outstanding' = outstanding + 1
        /\ UNCHANGED <<tree, main, todo, size, total, queue, answer, timedOut>>
    BY <1>4 DEF Queue!SubmitFails, Queue!Rejected
  <2>2. WalkTypes' /\ tree' = tree /\ main # "start"
    BY <1>0, <2>1 DEF WalkTypes, Label, Descent
  <2>3. Descent(Dirs(tree))'
    BY <1>0, <2>1, <2>2, DescentMove DEF Label
  <2>4. Counting'
    BY <1>0, <2>1, CountSame DEF Counted, Running
  <2>5. QueueSummed'
    <3>1. n = Root \/ n \notin tree.files
      BY <1>0, <2>1 DEF QueueSummed
    <3> QED
      BY <1>0, <2>1, <3>1, QueueKeeps
  <2>6. QueueLooked' /\ Answered'
    BY <2>1, QueueTask DEF Label, Running
  <2> QED
    BY <2>2, <2>3, <2>4, <2>5, <2>6 DEF QueueInv
<1>5. ASSUME NEW n \in Node, Queue!Submit(n)  PROVE QueueInv'
  <2>0. PICK f \in todo[n] : Queue!SubmitEntry(n, f, 1) /\ UNCHANGED queue
    BY <1>5 DEF Queue!Submit
  <2>1. /\ pc[n] = "listing" /\ pc' = [pc EXCEPT ![f] = "queued"]
        /\ todo' = [todo EXCEPT ![n] = @ \ {f}]
        /\ outstanding' = outstanding + 1
        /\ UNCHANGED <<tree, main, size, total, queue, answer, timedOut>>
    BY <2>0 DEF Queue!SubmitEntry
  <2>2. Descent(Dirs(tree))' /\ f \in Node /\ pc[f] = "unseen" /\ f \in Dirs(tree)[n]
    BY <1>0, <2>1, DescentSubmit
  <2>3. WalkTypes' /\ tree' = tree
    BY <1>0, <2>1, <2>2 DEF WalkTypes, Label
  <2>4. Counting'
    BY <1>0, <2>1, <2>2, CountUp DEF Counted, Running
  <2>5. QueueSummed'
    BY <1>0, <2>1, <2>2, QueueKeeps
  <2>6. QueueLooked' /\ Answered'
    BY <2>1, <2>2, QueueTask DEF Label, Running
  <2> QED
    BY <2>2, <2>3, <2>4, <2>5, <2>6 DEF QueueInv
<1>6. ASSUME NEW n \in Node, Queue!Put(n)  PROVE QueueInv'
  <2>1. /\ pc[n] = "listing" /\ pc' = [pc EXCEPT ![n] = "leaving"]
        /\ todo[n] = {} /\ queue' = Append(queue, size[n])
        /\ UNCHANGED <<tree, main, todo, size, outstanding, total, answer, timedOut>>
    BY <1>6 DEF Queue!Put
  <2>2. WalkTypes' /\ tree' = tree /\ main # "start"
    BY <1>0, <2>1 DEF WalkTypes, Label, Descent
  <2>3. Descent(Dirs(tree))'
    BY <1>0, <2>1, <2>2, DescentMove DEF Label
  <2>4. Counting'
    BY <1>0, <2>1, CountSame DEF Counted, Running
  <2>5. QueueSummed'
    BY <1>0, <2>1, QueuePut
  <2>6. QueueLooked' /\ Answered'
    BY <2>1, QueueTask DEF Label, Running
  <2> QED
    BY <2>2, <2>3, <2>4, <2>5, <2>6 DEF QueueInv
<1>7. ASSUME NEW n \in Node, Queue!Leave(n)  PROVE QueueInv'
  <2>1. /\ pc[n] = "leaving" /\ pc' = [pc EXCEPT ![n] = "ended"]
        /\ outstanding' = outstanding - 1
        /\ UNCHANGED <<tree, main, todo, size, total, queue, answer, timedOut>>
    BY <1>7 DEF Queue!Leave
  <2>2. WalkTypes' /\ tree' = tree /\ main # "start" /\ todo[n] = {}
    BY <1>0, <2>1 DEF WalkTypes, Label, Descent
  <2>3. Descent(Dirs(tree))'
    BY <1>0, <2>1, <2>2, DescentMove DEF Label
  <2>4. Counting'
    BY <1>0, <2>1, CountDown DEF Counted, Running
  <2>5. QueueSummed'
    <3>1. In({"leaving", "ended"})' = In({"leaving", "ended"})
      BY <1>0, <2>1 DEF In, WalkTypes
    <3>2. PICK from \in Seq(Node) : QueuedBy(from)
      BY <1>0 DEF QueueSummed
    <3>3. QueuedBy(from)'
      BY <2>1, <3>1, <3>2 DEF QueuedBy
    <3> QED
      BY <1>0, <2>1, <3>3 DEF QueueSummed, WalkTypes
  <2>6. QueueLooked' /\ Answered'
    BY <2>1, QueueTask DEF Label, Running
  <2> QED
    BY <2>2, <2>3, <2>4, <2>5, <2>6 DEF QueueInv
<1>8. CASE Queue!Poll
  <2>1. /\ main = "polling" /\ queue # << >> /\ main' = "reading"
        /\ total' = Plus(total, Head(queue)) /\ queue' = Tail(queue)
        /\ UNCHANGED <<tree, pc, todo, size, outstanding, answer, timedOut>>
    BY <1>8 DEF Queue!Poll, Queue!Plus, Plus
  <2>2. QueueSummed' /\ total' \in Sizes
    BY <1>0, <2>1, QueuePoll
  <2>3. WalkTypes' /\ Descent(Dirs(tree))' /\ Counting'
    BY <1>0, <2>1, <2>2 DEF WalkTypes, Descent, Counting, In
  <2>4. QueueLooked' /\ Answered'
    BY <1>0, <2>1 DEF QueueLooked, Answered
  <2> QED
    BY <2>2, <2>3, <2>4 DEF QueueInv
<1>9. ASSUME \/ Queue!ReadVisits \/ Queue!ReadQueue \/ Queue!PollTimesOut
             \/ Queue!Shutdown /\ UNCHANGED queue
             \/ Queue!Return(total) /\ UNCHANGED queue
      PROVE  QueueInv'
  <2>1. /\ UNCHANGED <<tree, pc, todo, size, outstanding, total, queue>>
        /\ main # "start" /\ main' # "start"
    BY <1>9 DEF Queue!ReadVisits, Queue!ReadQueue, Queue!Goto, Queue!PollTimesOut,
                Queue!GiveUp, Queue!Shutdown, Queue!Return
  <2>2. \/ Shutdown \/ Return(total)
        \/ main' \in {"polling", "reading"} /\ UNCHANGED <<answer, timedOut>>
        \/ main' = "looking" /\ outstanding <= 0 /\ UNCHANGED <<answer, timedOut>>
        \/ main' = "closing" /\ timedOut' /\ UNCHANGED answer
        \/ main = "looking" /\ main' = "closing" /\ queue = << >> /\ UNCHANGED <<answer, timedOut>>
    BY <1>0, <1>9 DEF Queue!ReadVisits, Queue!ReadQueue, Queue!Goto, Queue!PollTimesOut,
                Queue!GiveUp, Queue!Shutdown, Queue!Return, Shutdown, Return, Counting
  <2>3. outstanding <= 0 => In(Counted) = {}
    BY <1>0, CountZero
  <2>4. In(Counted)' = In(Counted)
    BY <2>1 DEF In
  <2>5. QueueLooked'
    BY <1>0, <2>1, <2>2, <2>3, <2>4 DEF QueueLooked, Shutdown, Return
  <2>6. main = "looking" /\ queue = << >> => In(Running) = {} /\ total = Full(tree)
    BY <1>0, QueueComplete DEF QueueLooked
  <2>7. Part(tree, total)
    BY <1>0, QueuePart
  <2>8. Answered'
    BY <1>0, <2>1, <2>2, <2>6, <2>7, AnsweredMain
  <2>9. Descent(Dirs(tree))'
    BY <1>0, <2>1, DescentMain
  <2>10. WalkTypes' /\ Counting'
    BY <1>0, <2>1 DEF WalkTypes, Counting, In
  <2>11. QueueSummed'
    <3>1. PICK from \in Seq(Node) : QueuedBy(from)
      BY <1>0 DEF QueueSummed
    <3>2. QueuedBy(from)'
      BY <2>1, <3>1 DEF QueuedBy, In
    <3> QED
      BY <1>0, <2>1, <3>2 DEF QueueSummed
  <2> QED
    BY <2>5, <2>8, <2>9, <2>10, <2>11 DEF QueueInv
<1> QED
  BY <1>1, <1>2, <1>3, <1>4, <1>5, <1>6, <1>7, <1>8, <1>9 DEF Queue!Next, Queue!Step

LEMMA QueueSafe == QueueInv => Queue!LateNullCostsNothing
<1> SUFFICES ASSUME QueueInv, main = "polling", queue = << >>, outstanding = 0
             PROVE  total = Full(tree)
  BY DEF Queue!LateNullCostsNothing, Queue!LateNull, Queue!Full, Full, Queue!Visible, Visible,
         Queue!Listing, Listing, Queue!SizeOf, SizeOf
<1>1. In(Counted) = {}
  BY CountZero DEF QueueInv
<1> QED
  BY <1>1, QueueComplete DEF QueueInv

-----------------------------------------------------------------------------
(* NaivlyConcurrentTotalFileSize.                                          *)

\* The entries whose sums the task of n has got, and the files in its sum.
Gotten(n) == Listing(tree, n) \ (todo[n] \cup ToSet(futures[n]))
Summed(n) == ({n} \cup UNION {Below(tree, f) : f \in Gotten(n)}) \cap tree.files

FutureLists ==
  /\ futures \in [Node -> Seq(Node)]
  /\ \A n \in Node : ToSet(futures[n]) \subseteq Listing(tree, n) \ todo[n]
  /\ \A n \in Node : \A i, k \in 1 .. Len(futures[n]) : futures[n][i] = futures[n][k] => i = k
  /\ \A n \in Node : pc[n] \in {"unseen", "queued", "visiting"} => futures[n] = << >>

\* The sum of a task that is done is that of everything below its node.
FutureSummed ==
  /\ \A n \in Node : pc[n] = "listing" => size[n] = SizeOf(Summed(n))
  /\ \A n \in Node : pc[n] = "done" => size[n] = SizeOf(Below(tree, n) \cap tree.files)
  /\ total = Nothing

\* Before the shutdown tasks fail by a timeout only, and main comes out of its
\* task with the sum unless there was one.
FutureAnswered ==
  /\ main \in {"start", "walking", "closing"} => accepting
  /\ main \in {"start", "walking"} /\ ~timedOut => In({"failed"}) = {}
  /\ main = "walking" => pc[Root] \in {"visiting", "listing"}
  /\ main \notin {"start", "walking"} => pc[Root] \in {"done", "failed"}
  /\ main \in {"closing", "returning"} /\ ~timedOut => pc[Root] = "done"
  /\ answer \in {Full(tree), Nothing}
  /\ main = "returned" /\ ~timedOut => answer = Full(tree)

FutureInv ==
  WalkTypes /\ Descent(Entries(tree)) /\ FutureLists /\ FutureSummed /\ FutureAnswered

\* What the task of n has summed up before it gets anything, after it got the
\* sum of h, and when it has got them all.
LEMMA SummedNone ==
  ASSUME NEW n \in Node, Gotten(n) = {}
  PROVE  Summed(n) = {n} \cap tree.files
BY DEF Summed

LEMMA SummedAll ==
  ASSUME tree \in Trees, NEW n \in Node, Gotten(n) = Listing(tree, n)
  PROVE  Summed(n) = Below(tree, n) \cap tree.files
BY BelowUnfold DEF Summed

LEMMA SummedNext ==
  ASSUME tree \in Trees, NEW n \in Visible(tree), NEW h \in Listing(tree, n), h \notin Gotten(n)
  PROVE  Summed(n) \cap (Below(tree, h) \cap tree.files) = {}
<1>1. n \notin Below(tree, h)
  BY NoCircle
<1>2. ASSUME NEW f \in Gotten(n)  PROVE Below(tree, f) \cap Below(tree, h) = {}
  <2>1. f \in Listing(tree, n) /\ f # h
    BY DEF Gotten
  <2> QED
    BY <2>1, SiblingsApart
<1> QED
  BY <1>1, <1>2 DEF Summed

LEMMA FutureInit == Init /\ program = "future" => FutureInv
<1> SUFFICES ASSUME Init, program = "future" PROVE FutureInv
  OBVIOUS
<1>1. WalkTypes
  BY SizeOfType DEF Init, WalkInit, WalkTypes, Label, Nothing
<1>2. /\ main = "start" /\ total = Nothing /\ accepting /\ answer = Nothing
      /\ \A n \in Node : pc[n] = "unseen" /\ todo[n] = {}
      /\ futures = [n \in Node |-> << >>]
  BY DEF Init, WalkInit
<1>3. \A n \in Node : \A f \in Entries(tree)[n] : f \in Node
  BY <1>1, OneParent, EntriesListed DEF WalkTypes
<1>4. Descent(Entries(tree))
  BY <1>2, <1>3 DEF Descent
<1>5. FutureLists
  <2>1. \A n \in Node : futures[n] = << >> /\ ToSet(futures[n]) = {} /\ Len(futures[n]) = 0
    BY <1>2 DEF ToSet
  <2> QED
    BY <1>2, <2>1 DEF FutureLists
<1>6. FutureSummed /\ FutureAnswered
  BY <1>2 DEF FutureSummed, FutureAnswered, In
<1> QED
  BY <1>1, <1>4, <1>5, <1>6 DEF FutureInv

\* Steps in which the task of n moves on and sums up nothing.
LEMMA FutureMove ==
  ASSUME WalkTypes, FutureLists, FutureSummed, NEW n \in Node,
         NEW l \in Label \ {"unseen", "listing", "done"},
         pc' = [pc EXCEPT ![n] = l], l \in {"queued", "visiting"} => futures[n] = << >>,
         UNCHANGED <<tree, todo, size, total, futures>>
  PROVE  WalkTypes' /\ FutureLists' /\ FutureSummed'
<1>1. WalkTypes'
  BY DEF WalkTypes
<1>2. FutureLists'
  BY DEF FutureLists, WalkTypes
<1>3. \A m \in Node : Gotten(m)' = Gotten(m) /\ Summed(m)' = Summed(m)
  BY DEF Gotten, Summed
<1>4. FutureSummed'
  BY <1>3 DEF FutureSummed, WalkTypes
<1> QED
  BY <1>1, <1>2, <1>4

\* The answers of steps that are neither of main nor the end of its task.
LEMMA FutureTask ==
  ASSUME WalkTypes, FutureAnswered, main # "start", UNCHANGED <<tree, main, accepting, answer>>,
         timedOut' \in {timedOut, TRUE}, NEW n \in Node, NEW l \in Label,
         pc' = [pc EXCEPT ![n] = l], l = "failed" => timedOut' \/ main # "walking",
         n = Root => pc[n] \in {"visiting", "listing"} /\ l \in {"visiting", "listing"}
  PROVE  FutureAnswered'
<1>1. Root \in Node
  BY TreeAssumption
<1>2. main \in {"walking"} /\ ~timedOut' => In({"failed"})' = {}
  BY DEF FutureAnswered, In, WalkTypes
<1>3. \/ pc'[Root] = pc[Root]
      \/ pc[Root] \in {"visiting", "listing"} /\ pc'[Root] \in {"visiting", "listing"}
  BY <1>1 DEF WalkTypes
<1>4. timedOut => timedOut'
  OBVIOUS
<1>5. Full(tree)' = Full(tree)
  OBVIOUS
<1>6. \/ pc'[Root] = pc[Root]
      \/ main = "walking" /\ pc'[Root] \in {"visiting", "listing"}
  BY <1>3 DEF FutureAnswered
<1> QED
  BY <1>2, <1>4, <1>5, <1>6 DEF FutureAnswered

\* The task of n ends, failed or with its sum.
LEMMA FutureEnd ==
  ASSUME WalkTypes, FutureAnswered, NEW n \in Node, pc[n] \in {"listing"},
         main # "start", NEW l \in {"done", "failed"}, pc' = [pc EXCEPT ![n] = l],
         main' = IF n = Root THEN "closing" ELSE main,
         UNCHANGED <<tree, accepting, answer>>, timedOut' \in {timedOut, TRUE},
         l = "failed" => timedOut' \/ main # "walking"
  PROVE  FutureAnswered'
<1>1. CASE n # Root
  BY <1>1, FutureTask DEF Label
<1>2. CASE n = Root
  <2>1. main = "walking" /\ accepting /\ main' = "closing" /\ pc'[Root] = l
    BY <1>2 DEF FutureAnswered, WalkTypes
  <2>2. Full(tree)' = Full(tree)
    OBVIOUS
  <2> QED
    BY <2>1, <2>2 DEF FutureAnswered
<1> QED
  BY <1>1, <1>2

LEMMA FutureStep == FutureInv /\ Future!Next => FutureInv'
<1> SUFFICES ASSUME FutureInv, Future!Next PROVE FutureInv'
  OBVIOUS
<1>0. /\ WalkTypes /\ Descent(Entries(tree)) /\ FutureLists /\ FutureSummed
      /\ FutureAnswered /\ Root \in Node /\ tree \in Trees
      /\ \A n \in Node : Entries(tree)[n] \subseteq Listing(tree, n)
      /\ \A n \in Node : Entries(tree)[n] = Listing(tree, n)
      /\ \A n \in Node : Listing(tree, n) \subseteq Node
  BY TreeAssumption, EntriesListed, OneParent DEF FutureInv, Entries, WalkTypes
<1>1. CASE Future!Begin
  <2>1. /\ pc' = [pc EXCEPT ![Root] = "visiting"] /\ main = "start" /\ main' = "walking"
        /\ UNCHANGED <<tree, todo, size, total, accepting, futures, answer, timedOut>>
    BY <1>1 DEF Future!Begin
  <2>2. \A n \in Node : pc[n] = "unseen"
    BY <1>0, <2>1 DEF Descent
  <2>3. WalkTypes' /\ FutureLists' /\ FutureSummed'
    BY <1>0, <2>1, <2>2, FutureMove DEF Label, FutureLists
  <2>4. Descent(Entries(tree))'
    BY <1>0, <2>1, DescentBegin
  <2>5. FutureAnswered'
    <3>1. pc'[Root] = "visiting" /\ (~timedOut => In({"failed"})' = {})
      BY <1>0, <2>1, <2>2 DEF In, WalkTypes
    <3>2. Full(tree)' = Full(tree)
      BY <2>1
    <3> QED
      BY <1>0, <2>1, <3>1, <3>2 DEF FutureAnswered
  <2> QED
    BY <2>3, <2>4, <2>5 DEF FutureInv
<1>2. ASSUME NEW n \in Node, Future!Take(n, Future!Busy), UNCHANGED futures
      PROVE  FutureInv'
  <2>1. /\ pc[n] = "queued" /\ pc' = [pc EXCEPT ![n] = "visiting"]
        /\ UNCHANGED <<tree, main, todo, size, total, accepting, futures, answer, timedOut>>
    BY <1>2 DEF Future!Take
  <2>2. main # "start" /\ n # Root /\ futures[n] = << >>
    BY <1>0, <2>1 DEF Descent, FutureAnswered, FutureLists
  <2>3. WalkTypes' /\ FutureLists' /\ FutureSummed'
    BY <1>0, <2>1, <2>2, FutureMove DEF Label
  <2>4. Descent(Entries(tree))'
    BY <1>0, <2>1, <2>2, DescentMove DEF Label
  <2>5. FutureAnswered'
    BY <1>0, <2>1, <2>2, FutureTask DEF Label
  <2> QED
    BY <2>3, <2>4, <2>5 DEF FutureInv
<1>3. ASSUME NEW n \in Node, Future!Visit(n)  PROVE FutureInv'
  <2>1. /\ pc[n] = "visiting" /\ pc' = [pc EXCEPT ![n] = "listing"]
        /\ todo' = [todo EXCEPT ![n] = Entries(tree)[n]]
        /\ size' = [size EXCEPT ![n] = SizeOf({n} \cap tree.files)]
        /\ UNCHANGED <<tree, main, total, accepting, futures, answer, timedOut>>
    BY <1>0, <1>3 DEF Future!Visit, Future!Listing, Listing, Future!SizeOf, SizeOf
  <2>2. WalkTypes'
    <3>1. todo' \in [Node -> SUBSET Node] /\ size' \in [Node -> Sizes]
      BY <1>0, <2>1, SizeOfType DEF WalkTypes
    <3> QED
      BY <1>0, <2>1, <3>1 DEF WalkTypes, Label
  <2>3. main # "start" /\ futures[n] = << >>
    BY <1>0, <2>1 DEF Descent, FutureLists
  <2>4. Descent(Entries(tree))'
    BY <1>0, <2>1, DescentVisit
  <2>5. FutureAnswered'
    BY <1>0, <2>1, <2>3, FutureTask DEF Label
  <2>6. ToSet(futures[n]) = {}
    BY <2>3 DEF ToSet
  <2>7. FutureLists'
    BY <1>0, <2>1, <2>6 DEF FutureLists, WalkTypes
  <2>8. Summed(n)' = {n} \cap tree.files
    <3>1. todo'[n] = Listing(tree, n)
      BY <1>0, <2>1 DEF WalkTypes
    <3>2. Gotten(n)' = {}
      BY <2>1, <3>1 DEF Gotten
    <3> QED
      BY <2>1, <3>2 DEF Summed
  <2>9. \A m \in Node : m # n => Summed(m)' = Summed(m)
    BY <1>0, <2>1 DEF Summed, Gotten, WalkTypes
  <2>10. FutureSummed'
    BY <1>0, <2>1, <2>8, <2>9 DEF FutureSummed, WalkTypes
  <2> QED
    BY <2>2, <2>4, <2>5, <2>7, <2>10 DEF FutureInv
<1>4. ASSUME NEW n \in Node, Future!Submit(n)  PROVE FutureInv'
  <2>0. PICK f \in todo[n] : /\ Future!SubmitEntry(n, f, 0)
                             /\ futures' = [futures EXCEPT ![n] = Append(@, f)]
    BY <1>4 DEF Future!Submit
  <2>1. /\ pc[n] = "listing" /\ pc' = [pc EXCEPT ![f] = "queued"]
        /\ todo' = [todo EXCEPT ![n] = @ \ {f}]
        /\ futures' = [futures EXCEPT ![n] = Append(@, f)]
        /\ UNCHANGED <<tree, main, size, total, accepting, answer, timedOut>>
    BY <2>0 DEF Future!SubmitEntry
  <2>2. Descent(Entries(tree))' /\ f \in Node /\ f # n /\ f # Root /\ pc[f] = "unseen"
        /\ f \in Listing(tree, n) /\ main # "start"
    <3>1. Descent(Entries(tree))' /\ f \in Node /\ f # n /\ f # Root /\ pc[f] = "unseen"
          /\ f \in Entries(tree)[n]
      BY <1>0, <2>1, DescentSubmit
    <3> QED
      BY <1>0, <2>1, <3>1 DEF Descent
  <2>3. WalkTypes'
    BY <1>0, <2>1, <2>2 DEF WalkTypes, Label
  <2>4. FutureAnswered'
    BY <1>0, <2>1, <2>2, FutureTask DEF Label
  <2>5. /\ ToSet(Append(futures[n], f)) = ToSet(futures[n]) \cup {f}
        /\ Append(futures[n], f) \in Seq(Node)
        /\ \A i, k \in 1 .. Len(Append(futures[n], f)) :
             Append(futures[n], f)[i] = Append(futures[n], f)[k] => i = k
    <3>1. futures[n] \in Seq(Node) /\ f \notin ToSet(futures[n])
      BY <1>0 DEF FutureLists
    <3>2. \A i, k \in 1 .. Len(futures[n]) : futures[n][i] = futures[n][k] => i = k
      BY <1>0 DEF FutureLists
    <3> QED
      BY <2>2, <3>1, <3>2, AppendElements, AppendDistinct
  <2>6. FutureLists'
    <3>1. futures' \in [Node -> Seq(Node)]
      BY <1>0, <2>1, <2>5 DEF FutureLists
    <3>2. /\ \A m \in Node : m # n => futures'[m] = futures[m] /\ todo'[m] = todo[m]
          /\ futures'[n] = Append(futures[n], f) /\ todo'[n] = todo[n] \ {f}
      BY <1>0, <2>1 DEF FutureLists, WalkTypes
    <3>3. \A m \in Node : ToSet(futures'[m]) \subseteq Listing(tree, m) \ todo'[m]
      <4>1. \A m \in Node : ToSet(futures[m]) \subseteq Listing(tree, m) \ todo[m]
        BY <1>0 DEF FutureLists
      <4>2. ToSet(futures'[n]) \subseteq Listing(tree, n) \ todo'[n]
        <5>1. ToSet(futures'[n]) = ToSet(futures[n]) \cup {f}
          BY <2>5, <3>2
        <5> QED
          BY <2>2, <3>2, <4>1, <5>1
      <4> QED
        BY <3>2, <4>1, <4>2
    <3>4. \A m \in Node : \A i, k \in 1 .. Len(futures'[m]) :
            futures'[m][i] = futures'[m][k] => i = k
      BY <1>0, <2>5, <3>2 DEF FutureLists
    <3>5. \A m \in Node : pc'[m] \in {"unseen", "queued", "visiting"} => futures'[m] = << >>
      BY <1>0, <2>1, <2>2, <3>2 DEF FutureLists, WalkTypes
    <3> QED
      BY <2>1, <3>1, <3>3, <3>4, <3>5 DEF FutureLists
  <2>7. \A m \in Node : Summed(m)' = Summed(m)
    <3>1. \A m \in Node : Gotten(m)' = Gotten(m)
      <4>1. \A m \in Node : m # n => futures'[m] = futures[m] /\ todo'[m] = todo[m]
        BY <1>0, <2>1 DEF FutureLists, WalkTypes
      <4>2. futures'[n] = Append(futures[n], f) /\ todo'[n] = todo[n] \ {f}
        BY <1>0, <2>1 DEF FutureLists, WalkTypes
      <4>3. todo'[n] \cup ToSet(futures'[n]) = todo[n] \cup ToSet(futures[n])
        BY <2>5, <4>2
      <4> QED
        BY <2>1, <4>1, <4>3 DEF Gotten
    <3> QED
      BY <2>1, <3>1 DEF Summed
  <2>8. FutureSummed'
    BY <1>0, <2>1, <2>2, <2>7 DEF FutureSummed, WalkTypes
  <2> QED
    BY <2>2, <2>3, <2>4, <2>6, <2>8 DEF FutureInv
<1>5. ASSUME NEW n \in Node, Future!SubmitFails(n)  PROVE FutureInv'
  <2>1. /\ pc[n] = "listing" /\ pc' = [pc EXCEPT ![n] = "failed"] /\ ~accepting
        /\ UNCHANGED <<tree, main, todo, size, total, accepting, futures, answer, timedOut>>
    BY <1>5 DEF Future!SubmitFails, Future!Rejected
  <2>2. main \notin {"start", "walking"} /\ n # Root
    BY <1>0, <2>1 DEF Descent, FutureAnswered
  <2>3. WalkTypes' /\ FutureLists' /\ FutureSummed'
    BY <1>0, <2>1, FutureMove DEF Label
  <2>4. Descent(Entries(tree))'
    BY <1>0, <2>1, <2>2, DescentMove DEF Label
  <2>5. FutureAnswered'
    BY <1>0, <2>1, <2>2, FutureTask DEF Label
  <2> QED
    BY <2>3, <2>4, <2>5 DEF FutureInv
<1>6. ASSUME NEW n \in Node, Future!Get(n)  PROVE FutureInv'
  <2> DEFINE h == Head(futures[n])
  <2>1. /\ pc[n] = "listing" /\ todo[n] = {} /\ futures[n] # << >> /\ pc[h] = "done"
        /\ size' = [size EXCEPT ![n] = Plus(@, size[h])]
        /\ futures' = [futures EXCEPT ![n] = Tail(@)]
        /\ UNCHANGED <<tree, main, pc, todo, total, accepting, answer, timedOut>>
    BY <1>6 DEF Future!Get, Future!Waits, Future!Plus, Plus
  <2>2. /\ h \in ToSet(futures[n]) /\ ToSet(Tail(futures[n])) = ToSet(futures[n]) \ {h}
        /\ Tail(futures[n]) \in Seq(Node)
        /\ \A i, k \in 1 .. Len(Tail(futures[n])) :
             Tail(futures[n])[i] = Tail(futures[n])[k] => i = k
    <3>1. futures[n] \in Seq(Node)
      BY <1>0 DEF FutureLists
    <3>2. \A i, k \in 1 .. Len(futures[n]) : futures[n][i] = futures[n][k] => i = k
      BY <1>0 DEF FutureLists
    <3> QED
      BY <2>1, <3>1, <3>2, TailElements
  <2>3. h \in Listing(tree, n) /\ h \in Node /\ n \in Visible(tree) /\ main # "start"
    BY <1>0, <2>1, <2>2 DEF FutureLists, Descent
  <2> HIDE DEF h
  <2>4. /\ \A m \in Node : m # n => futures'[m] = futures[m] /\ size'[m] = size[m]
        /\ futures'[n] = Tail(futures[n]) /\ size'[n] = Plus(size[n], size[h])
    BY <1>0, <2>1 DEF FutureLists, WalkTypes
  <2>5. WalkTypes'
    <3>1. size' \in [Node -> Sizes]
      BY <1>0, <2>1, <2>3, PlusType DEF WalkTypes
    <3> QED
      BY <1>0, <2>1, <3>1 DEF WalkTypes
  <2>6. FutureLists'
    <3>1. futures' \in [Node -> Seq(Node)]
      BY <1>0, <2>1, <2>2 DEF FutureLists
    <3>2. \A m \in Node : ToSet(futures'[m]) \subseteq Listing(tree, m) \ todo[m]
      BY <1>0, <2>2, <2>4 DEF FutureLists
    <3>3. \A m \in Node : \A i, k \in 1 .. Len(futures'[m]) :
            futures'[m][i] = futures'[m][k] => i = k
      BY <1>0, <2>2, <2>4 DEF FutureLists
    <3>4. \A m \in Node : pc[m] \in {"unseen", "queued", "visiting"} => futures'[m] = << >>
      BY <1>0, <2>1, <2>4 DEF FutureLists
    <3> QED
      BY <2>1, <3>1, <3>2, <3>3, <3>4 DEF FutureLists
  <2>7. h \notin Gotten(n) /\ Gotten(n)' = Gotten(n) \cup {h}
    BY <2>1, <2>2, <2>3, <2>4 DEF Gotten
  <2>8. Summed(n)' = Summed(n) \cup (Below(tree, h) \cap tree.files)
    BY <2>1, <2>7 DEF Summed
  <2>9. size'[n] = SizeOf(Summed(n)')
    <3>1. Summed(n) \cap (Below(tree, h) \cap tree.files) = {}
      BY <1>0, <2>3, <2>7, SummedNext
    <3>2. size[n] = SizeOf(Summed(n)) /\ size[h] = SizeOf(Below(tree, h) \cap tree.files)
      BY <1>0, <2>1, <2>3 DEF FutureSummed
    <3> QED
      BY <2>4, <2>8, <3>1, <3>2, PlusNew
  <2>10. \A m \in Node : m # n => Summed(m)' = Summed(m)
    BY <2>1, <2>4 DEF Summed, Gotten
  <2>11. FutureSummed'
    BY <1>0, <2>1, <2>4, <2>9, <2>10 DEF FutureSummed
  <2>12. Descent(Entries(tree))' /\ FutureAnswered'
    BY <1>0, <2>1 DEF Descent, FutureAnswered, In, Full
  <2> QED
    BY <2>5, <2>6, <2>11, <2>12 DEF FutureInv
<1>7. ASSUME NEW n \in Node, Future!GetFails(n) \/ Future!GetTimesOut(n)
      PROVE  FutureInv'
  <2>1. /\ pc[n] = "listing" /\ todo[n] = {} /\ pc' = [pc EXCEPT ![n] = "failed"]
        /\ main' = IF n = Root THEN "closing" ELSE main
        /\ futures[n] # << >> /\ timedOut' \in {timedOut, TRUE}
        /\ timedOut' \/ pc[Head(futures[n])] = "failed"
        /\ UNCHANGED <<tree, todo, size, total, accepting, futures, answer>>
    BY <1>7 DEF Future!GetFails, Future!GetTimesOut, Future!Waits, Future!End
  <2>2. main # "start" /\ main' # "start"
    BY <1>0, <2>1 DEF Descent
  <2>3. WalkTypes' /\ FutureLists' /\ FutureSummed'
    BY <1>0, <2>1, FutureMove DEF Label
  <2>4. Descent(Entries(tree))'
    BY <1>0, <2>1, <2>2, DescentMove DEF Label
  <2>5. timedOut' \/ main # "walking"
    <3>1. Head(futures[n]) \in Node
      BY <1>0, <2>1 DEF FutureLists
    <3>2. CASE pc[Head(futures[n])] = "failed"
      <4>1. In({"failed"}) # {}
        BY <3>1, <3>2 DEF In
      <4>2. timedOut \/ main # "walking"
        BY <1>0, <4>1 DEF FutureAnswered
      <4>3. timedOut => timedOut'
        BY <2>1
      <4> QED
        BY <4>2, <4>3
    <3> QED
      BY <2>1, <3>2
  <2>6. FutureAnswered'
    BY <1>0, <2>1, <2>2, <2>5, FutureEnd
  <2> QED
    BY <2>3, <2>4, <2>6 DEF FutureInv
<1>8. ASSUME NEW n \in Node, Future!Finish(n)  PROVE FutureInv'
  <2>1. /\ pc[n] = "listing" /\ todo[n] = {} /\ futures[n] = << >>
        /\ pc' = [pc EXCEPT ![n] = "done"]
        /\ main' = IF n = Root THEN "closing" ELSE main
        /\ UNCHANGED <<tree, todo, size, total, accepting, futures, answer, timedOut>>
    BY <1>8 DEF Future!Finish, Future!End
  <2>2. main # "start" /\ main' # "start"
    BY <1>0, <2>1 DEF Descent
  <2>3. WalkTypes' /\ FutureLists'
    BY <1>0, <2>1 DEF WalkTypes, Label, FutureLists
  <2>4. Descent(Entries(tree))'
    BY <1>0, <2>1, <2>2, DescentMove DEF Label
  <2>5. FutureAnswered'
    BY <1>0, <2>1, <2>2, FutureEnd
  <2>6. size[n] = SizeOf(Below(tree, n) \cap tree.files)
    <3>1. Gotten(n) = Listing(tree, n)
      BY <2>1 DEF Gotten, ToSet
    <3> QED
      BY <1>0, <2>1, <3>1, SummedAll DEF FutureSummed
  <2>7. \A m \in Node : Summed(m)' = Summed(m)
    BY <2>1 DEF Summed, Gotten
  <2>8. FutureSummed'
    BY <1>0, <2>1, <2>6, <2>7 DEF FutureSummed, WalkTypes
  <2> QED
    BY <2>3, <2>4, <2>5, <2>8 DEF FutureInv
<1>9. ASSUME (Future!Shutdown \/ Future!Return(Future!Answer)) /\ UNCHANGED futures
      PROVE  FutureInv'
  <2>1. /\ UNCHANGED <<tree, pc, todo, size, total, futures, timedOut>>
        /\ \/ main = "closing" /\ main' = "returning" /\ UNCHANGED answer
           \/ /\ main = "returning" /\ main' = "returned"
              /\ answer' = IF pc[Root] = "done" THEN size[Root] ELSE Nothing
              /\ UNCHANGED accepting
    BY <1>9 DEF Future!Shutdown, Future!Return, Future!Answer, Future!Nothing, Nothing,
                Future!SizeOf, SizeOf
  <2>2. WalkTypes' /\ FutureLists'
    BY <1>0, <2>1 DEF WalkTypes, FutureLists
  <2>3. Descent(Entries(tree))'
    BY <1>0, <2>1, DescentMain
  <2>4. FutureSummed'
    <3>1. \A m \in Node : Summed(m)' = Summed(m)
      BY <2>1 DEF Summed, Gotten
    <3> QED
      BY <1>0, <2>1, <3>1 DEF FutureSummed
  <2>5. pc[Root] = "done" => size[Root] = Full(tree)
    BY <1>0, BelowRoot DEF FutureSummed, Full
  <2>6. FutureAnswered'
    BY <1>0, <2>1, <2>5 DEF FutureAnswered, Full
  <2> QED
    BY <2>2, <2>3, <2>4, <2>6 DEF FutureInv
<1> QED
  BY <1>1, <1>2, <1>3, <1>4, <1>5, <1>6, <1>7, <1>8, <1>9 DEF Future!Next, Future!Step

LEMMA FutureAllOrNothing == FutureInv => Future!AllOrNothing
BY DEF FutureInv, FutureAnswered, Future!AllOrNothing, Future!Full, Full, Future!Visible,
       Visible, Future!Listing, Listing, Future!SizeOf, SizeOf, Future!Nothing, Nothing

\* All threads of the pool wait only if there are more directories with
\* entries, the root among them, than threads.
LEMMA FutureDeadlock == FutureInv => Future!DeadlockNeedsDirectories
<1> DEFINE Busy == In({"visiting", "listing"}) \ {Root}
           Directories == {n \in Visible(tree) : Listing(tree, n) # {}}
<1>a. Future!Busy = Busy
  BY DEF Future!Busy, Future!In, In
<1>b. Future!Directories = Directories
  <2>1. \A n : Future!Listing(tree, n) = Listing(tree, n)
    BY DEF Future!Listing, Listing
  <2>2. Future!Visible(tree) = Visible(tree)
    BY <2>1 DEF Future!Visible, Visible
  <2> QED
    BY <2>1, <2>2 DEF Future!Directories
<1>c. \A S : Future!Cardinality(S) = Cardinality(S)
  BY Zenon DEF Future!Cardinality, Cardinality
<1>d. Future!Deadlock => Cardinality(Busy) = PoolSize /\ \A n \in Busy : futures[n] # << >>
  BY <1>a, <1>c DEF Future!Deadlock, Future!Waits
<1> HIDE DEF Busy, Directories
<1> SUFFICES ASSUME FutureInv, Cardinality(Busy) = PoolSize,
                    \A n \in Busy : futures[n] # << >>
             PROVE  Cardinality(Directories) > PoolSize
  BY <1>b, <1>c, <1>d DEF Future!DeadlockNeedsDirectories
<1> USE DEF Busy, Directories
<1>1. Busy \subseteq Directories /\ Root \notin Busy
  <2>1. ASSUME NEW n \in Busy  PROVE n \in Directories
    <3>1. n \in Node /\ n \in Visible(tree)
      BY DEF FutureInv, Descent, In
    <3>2. futures[n] \in Seq(Node) /\ futures[n] # << >>
      BY <3>1 DEF FutureInv, FutureLists
    <3>3. futures[n][1] \in ToSet(futures[n])
      BY <3>2 DEF ToSet
    <3> QED
      BY <3>1, <3>3 DEF FutureInv, FutureLists
  <2> QED
    BY <2>1
<1>2. IsFiniteSet(Directories) /\ IsFiniteSet(Busy)
  <2>1. Directories \subseteq Node /\ Busy \subseteq Node
    BY DEF Visible, In
  <2> QED
    BY <2>1, TreeAssumption, FS_Subset
<1>3. Cardinality(Busy) = PoolSize /\ PoolSize \in Nat \ {0}
  BY PoolAssumption
<1>4. Busy # {}
  BY <1>3, FS_EmptySet
<1>5. Root \in Directories
  <2>1. tree \in Trees /\ Root \in Node /\ Root \in Visible(tree)
    BY TreeAssumption, VisibleClosed DEF FutureInv, WalkTypes
  <2>2. ASSUME Listing(tree, Root) = {} PROVE FALSE
    <3> DEFINE S == {Root}
    <3>1. S \in SUBSET Node /\ Root \in S /\ \A m \in S : Listing(tree, m) \subseteq S
      BY <2>1, <2>2
    <3> HIDE DEF S
    <3>2. Visible(tree) \subseteq S
      BY <2>1, <3>1, VisibleLeast
    <3> QED
      BY <1>1, <1>4, <3>2 DEF S
  <2> QED
    BY <2>1, <2>2
<1> HIDE DEF Busy, Directories
<1>6. Cardinality(Busy \cup {Root}) = PoolSize + 1
  BY <1>1, <1>2, <1>3, FS_AddElement
<1>7. Cardinality(Busy \cup {Root}) <= Cardinality(Directories)
  BY <1>1, <1>2, <1>5, FS_Subset
<1>8. Cardinality(Directories) \in Nat
  BY <1>2, FS_CardinalityType
<1> QED
  BY <1>3, <1>6, <1>7, <1>8

-----------------------------------------------------------------------------
(* CountFileParallel.                                                      *)

\* The tasks whose results main has got, and the files they found.
Got == In({"done"}) \ ToSet(futures)
FilesOf(t, S) == UNION {FilesIn(t, n) : n \in S}

LevelTypes ==
  /\ WalkTypes /\ fileList \in SUBSET Node /\ futures \in Seq(Node)
  /\ pc \in [Node -> {"unseen", "queued", "visiting", "done"}]
  /\ \A i, k \in 1 .. Len(futures) : futures[i] = futures[k] => i = k

\* A directory is in the list, or has a task, once the result of its parent has
\* been got, and not before.
LevelTasks ==
  /\ \A f \in fileList : f \in Visible(tree) /\ pc[f] = "unseen"
  /\ \A n \in Node : pc[n] # "unseen" => n \in Visible(tree)
  /\ \A n \in Node : pc[n] # "unseen" \/ n \in fileList => n = Root \/ n \notin tree.files
  /\ \A n \in Node : pc[n] = "done" => /\ size[n] = SizeOf(FilesIn(tree, n))
                                       /\ todo[n] = DirsIn(tree, n)
  /\ In({"queued", "visiting"}) \subseteq ToSet(futures)
  /\ \A n \in ToSet(futures) : pc[n] # "unseen"
  /\ \A n \in Node \ Got : \A f \in DirsIn(tree, n) : pc[f] = "unseen" /\ f \notin fileList
  /\ \A n \in Got : \A f \in DirsIn(tree, n) : pc[f] # "unseen" \/ f \in fileList
  /\ Root \in fileList \/ pc[Root] # "unseen"

LevelAnswered ==
  /\ total = SizeOf(FilesOf(tree, Got))
  /\ main \in {"closing", "returning"} /\ ~timedOut => futures = << >> /\ fileList = {}
  /\ main = "returned" /\ ~timedOut => Root \in tree.files \/ answer = Full(tree)
  /\ Part(tree, answer)

LevelInv == LevelTypes /\ LevelTasks /\ LevelAnswered

LEMMA FilesVisible ==
  ASSUME NEW t \in Trees, NEW S \in SUBSET Visible(t)
  PROVE  FilesOf(t, S) \subseteq Visible(t) \cap t.files
<1>1. ASSUME NEW n \in S PROVE FilesIn(t, n) \subseteq Visible(t) \cap t.files
  BY VisibleClosed DEF FilesIn
<1> QED
  BY <1>1 DEF FilesOf

LEMMA LevelPart == LevelInv => Part(tree, total)
<1> SUFFICES ASSUME LevelInv PROVE Part(tree, total)
  OBVIOUS
<1>1. Got \subseteq Visible(tree) /\ tree \in Trees
  BY DEF LevelInv, LevelTypes, WalkTypes, LevelTasks, Got, In
<1> QED
  BY <1>1, FilesVisible DEF LevelInv, LevelAnswered, Part

\* When nothing is left to get or to submit, everything has been found.
LEMMA LevelComplete ==
  ASSUME LevelInv, futures = << >>, fileList = {}, Root \notin tree.files
  PROVE  total = Full(tree)
<1> DEFINE S == Got \cup FilesOf(tree, Got)
<1>0. tree \in Trees /\ LevelTypes /\ LevelTasks /\ WalkTypes
  BY DEF LevelInv, LevelTypes, WalkTypes
<1>1. ToSet(futures) = {}
  BY DEF ToSet
<1>2. \A n \in Node : pc[n] # "unseen" => n \in Got
  BY <1>0, <1>1 DEF LevelTypes, LevelTasks, Got, In
<1>3. Got \subseteq Visible(tree) /\ Got \subseteq Node /\ Got \cap tree.files = {}
  BY <1>0 DEF LevelTasks, Got, In
<1>4. FilesOf(tree, Got) \subseteq Visible(tree) \cap tree.files
  BY <1>0, <1>3, FilesVisible
<1>5. Root \in S /\ S \in SUBSET Node
  BY <1>0, <1>2, <1>3, <1>4, TreeAssumption DEF LevelTasks, Visible
<1>6. ASSUME NEW n \in S  PROVE Listing(tree, n) \subseteq S
  <2>1. CASE n \in Got
    <3>1. FilesIn(tree, n) \subseteq S
      BY <2>1 DEF FilesOf
    <3>2. DirsIn(tree, n) \subseteq S
      <4>1. \A f \in DirsIn(tree, n) : f \in Node /\ pc[f] # "unseen"
        BY <1>0, <1>3, <2>1, OneParent DEF LevelTasks, DirsIn
      <4> QED
        BY <1>2, <4>1
    <3> QED
      BY <3>1, <3>2 DEF FilesIn, DirsIn
  <2>2. CASE n \notin Got
    BY <1>4, <2>2 DEF Listing
  <2> QED
    BY <2>1, <2>2
<1>7. Visible(tree) = S
  <2> HIDE DEF S
  <2>1. Visible(tree) \subseteq S
    BY <1>0, <1>5, <1>6, VisibleLeast
  <2> QED
    BY <1>3, <1>4, <2>1 DEF S
<1>8. Visible(tree) \cap tree.files = FilesOf(tree, Got)
  BY <1>3, <1>4, <1>7
<1> QED
  BY <1>8 DEF LevelInv, LevelAnswered, Full

LEMMA LevelInit == Init /\ program = "level" => LevelInv
<1> SUFFICES ASSUME Init, program = "level" PROVE LevelInv
  OBVIOUS
<1>1. WalkTypes
  BY SizeOfType DEF Init, WalkInit, WalkTypes, Label, Nothing
<1>2. /\ main = "start" /\ total = SizeOf({}) /\ answer = Nothing /\ fileList = {Root}
      /\ pc = [n \in Node |-> "unseen"] /\ futures = << >> /\ Root \in Node
  BY TreeAssumption DEF Init, WalkInit, Nothing
<1>3. Got = {} /\ ToSet(futures) = {} /\ FilesOf(tree, Got) = {}
  BY <1>2 DEF Got, ToSet, In, FilesOf
<1>4. LevelTypes
  BY <1>1, <1>2 DEF LevelTypes
<1>5. \A n \in Node : \A f \in DirsIn(tree, n) : f \in Node /\ f # Root
  BY <1>1, OneParent DEF DirsIn, WalkTypes
<1>6. Root \in Visible(tree)
  BY <1>1, VisibleClosed DEF WalkTypes
<1>7. In({"queued", "visiting"}) = {}
  BY <1>2 DEF In
<1>8. LevelTasks
  BY <1>2, <1>3, <1>5, <1>6, <1>7 DEF LevelTasks
<1>9. LevelAnswered
  BY <1>2, <1>3, PartSome DEF LevelAnswered
<1> QED
  BY <1>4, <1>8, <1>9 DEF LevelInv

\* Steps in which main moves on, and neither submits nor gets anything.
LEMMA LevelMain ==
  ASSUME LevelInv, UNCHANGED <<tree, pc, todo, size, total, fileList, futures>>,
         \/ main' \notin {"closing", "returning", "returned"} /\ UNCHANGED answer
         \/ main' = "closing" /\ timedOut' /\ UNCHANGED answer
         \/ main' = "closing" /\ futures = << >> /\ fileList = {} /\ UNCHANGED answer
         \/ main = "closing" /\ main' = "returning" /\ UNCHANGED <<answer, timedOut>>
         \/ main = "returning" /\ main' = "returned" /\ answer' = total /\ UNCHANGED timedOut
  PROVE  LevelInv'
<1>1. Got' = Got
  BY DEF Got, In
<1>2. LevelTypes' /\ LevelTasks'
  BY <1>1 DEF LevelInv, LevelTypes, LevelTasks, WalkTypes, In
<1>3. Part(tree, total)
  BY LevelPart
<1>4. futures = << >> /\ fileList = {} => Root \in tree.files \/ total = Full(tree)
  BY LevelComplete
<1>5. Full(tree)' = Full(tree) /\ (Part(tree, answer)' <=> Part(tree, answer'))
  BY DEF Part
<1>6. LevelAnswered'
  BY <1>1, <1>3, <1>4, <1>5 DEF LevelInv, LevelAnswered
<1> QED
  BY <1>2, <1>6 DEF LevelInv

LEMMA LevelSubmit == ASSUME LevelInv, NEW f \in Node, Level!Submit(f) PROVE LevelInv'
<1>0. /\ LevelTypes /\ LevelTasks /\ LevelAnswered /\ WalkTypes /\ tree \in Trees
  BY DEF LevelInv, LevelTypes, WalkTypes
<1>1. /\ main = "submitting" /\ f \in fileList /\ fileList' = fileList \ {f}
      /\ futures' = Append(futures, f) /\ pc' = [pc EXCEPT ![f] = "queued"]
      /\ UNCHANGED <<tree, main, todo, size, total, answer, timedOut>>
  BY DEF Level!Submit
<1>2. pc[f] = "unseen" /\ f \in Visible(tree) /\ (f = Root \/ f \notin tree.files)
  BY <1>0, <1>1 DEF LevelTasks
<1>3. f \notin ToSet(futures) /\ futures \in Seq(Node)
  BY <1>0, <1>2 DEF LevelTasks, LevelTypes
<1>4. /\ ToSet(futures') = ToSet(futures) \cup {f} /\ futures' \in Seq(Node)
      /\ \A i, k \in 1 .. Len(futures') : futures'[i] = futures'[k] => i = k
  <2>1. \A i, k \in 1 .. Len(futures) : futures[i] = futures[k] => i = k
    BY <1>0 DEF LevelTypes
  <2> QED
    BY <1>1, <1>3, <2>1, AppendElements, AppendDistinct
<1>5. LevelTypes'
  BY <1>0, <1>1, <1>4 DEF LevelTypes, WalkTypes, Label
<1>6. Got' = Got /\ f \notin Got
  BY <1>0, <1>1, <1>2, <1>4 DEF Got, In, WalkTypes
<1>7. \A n \in Node \ Got : f \notin DirsIn(tree, n)
  BY <1>0, <1>1 DEF LevelTasks
<1>8. In({"queued", "visiting"})' = In({"queued", "visiting"}) \cup {f}
  BY <1>0, <1>1 DEF In, WalkTypes
<1>9. \A m \in Node : m # f => pc'[m] = pc[m]
  BY <1>0, <1>1 DEF WalkTypes
<1>10. pc'[f] = "queued"
  BY <1>0, <1>1 DEF WalkTypes
<1>11. \A n \in Node : \A m \in DirsIn(tree, n) : m \in Node
  BY <1>0, OneParent DEF DirsIn
<1>12. \A n \in Node \ Got' : \A m \in DirsIn(tree', n) : pc'[m] = "unseen" /\ m \notin fileList'
  BY <1>0, <1>1, <1>6, <1>7, <1>9, <1>11 DEF LevelTasks
<1>13. \A n \in Got' : \A m \in DirsIn(tree', n) : pc'[m] # "unseen" \/ m \in fileList'
  BY <1>0, <1>1, <1>6, <1>9, <1>10, <1>11 DEF LevelTasks, Got, In
<1>14. Root \in fileList' \/ pc'[Root] # "unseen"
  BY <1>0, <1>1, <1>9, <1>10, TreeAssumption DEF LevelTasks
<1>15. \A n \in ToSet(futures') : pc'[n] # "unseen"
  BY <1>0, <1>3, <1>4, <1>9, <1>10 DEF LevelTasks, ToSet
<1>16. /\ \A m \in fileList' : m \in Visible(tree') /\ pc'[m] = "unseen"
       /\ \A n \in Node : pc'[n] # "unseen" => n \in Visible(tree')
       /\ \A n \in Node : pc'[n] # "unseen" \/ n \in fileList' => n = Root \/ n \notin tree'.files
  BY <1>0, <1>1, <1>2, <1>9, <1>10 DEF LevelTasks, LevelTypes
<1>17. \A n \in Node : pc'[n] = "done" => /\ size'[n] = SizeOf(FilesIn(tree', n))
                                          /\ todo'[n] = DirsIn(tree', n)
  BY <1>0, <1>1, <1>9, <1>10 DEF LevelTasks
<1>18. In({"queued", "visiting"})' \subseteq ToSet(futures')
  BY <1>0, <1>4, <1>8 DEF LevelTasks
<1>19. LevelTasks'
  BY <1>12, <1>13, <1>14, <1>15, <1>16, <1>17, <1>18 DEF LevelTasks
<1>20. LevelAnswered'
  BY <1>0, <1>1, <1>6 DEF LevelAnswered, Part, Full
<1> QED
  BY <1>5, <1>19, <1>20 DEF LevelInv

LEMMA LevelVisit == ASSUME LevelInv, NEW n \in Node, Level!Visit(n) PROVE LevelInv'
<1>0. /\ LevelTypes /\ LevelTasks /\ LevelAnswered /\ WalkTypes /\ tree \in Trees
  BY DEF LevelInv, LevelTypes, WalkTypes
<1>1. /\ pc[n] = "visiting" /\ pc' = [pc EXCEPT ![n] = "done"]
      /\ size' = [size EXCEPT ![n] = SizeOf(FilesIn(tree, n))]
      /\ todo' = [todo EXCEPT ![n] = DirsIn(tree, n)]
      /\ UNCHANGED <<tree, main, total, answer, timedOut, fileList, futures>>
  BY DEF Level!Visit, Level!levelVars, Level!FilesIn, FilesIn, Level!DirsIn, DirsIn,
         Level!Listing, Listing, Level!SizeOf, SizeOf
<1>2. n \in ToSet(futures)
  BY <1>0, <1>1 DEF LevelTasks, In
<1>3. DirsIn(tree, n) \subseteq Node
  BY <1>0, OneParent DEF DirsIn
<1>4. todo' \in [Node -> SUBSET Node] /\ size' \in [Node -> Sizes]
  BY <1>0, <1>1, <1>3, SizeOfType DEF WalkTypes
<1>5. LevelTypes'
  BY <1>0, <1>1, <1>4 DEF LevelTypes, WalkTypes, Label
<1>6. Got' = Got
  BY <1>0, <1>1, <1>2 DEF Got, In, WalkTypes
<1>7. /\ \A m \in Node : m # n => pc'[m] = pc[m] /\ size'[m] = size[m] /\ todo'[m] = todo[m]
      /\ pc'[n] = "done" /\ size'[n] = SizeOf(FilesIn(tree, n)) /\ todo'[n] = DirsIn(tree, n)
  BY <1>0, <1>1 DEF WalkTypes
<1>8. \A m \in Node : pc'[m] = "unseen" <=> pc[m] = "unseen"
  BY <1>1, <1>7
<1>9. In({"queued", "visiting"})' \subseteq In({"queued", "visiting"})
  BY <1>7 DEF In
<1>10. \A m \in Node : \A f \in DirsIn(tree, m) : f \in Node
  BY <1>0, OneParent DEF DirsIn
<1>11. /\ \A f \in fileList' : f \in Visible(tree') /\ pc'[f] = "unseen"
       /\ \A m \in Node : pc'[m] # "unseen" => m \in Visible(tree')
       /\ \A m \in Node : pc'[m] # "unseen" \/ m \in fileList' => m = Root \/ m \notin tree'.files
       /\ Root \in fileList' \/ pc'[Root] # "unseen"
  BY <1>0, <1>1, <1>8, TreeAssumption DEF LevelTasks, LevelTypes
<1>12. \A m \in Node : pc'[m] = "done" => /\ size'[m] = SizeOf(FilesIn(tree', m))
                                          /\ todo'[m] = DirsIn(tree', m)
  BY <1>0, <1>1, <1>7 DEF LevelTasks
<1>13. In({"queued", "visiting"})' \subseteq ToSet(futures')
  BY <1>0, <1>1, <1>9 DEF LevelTasks
<1>14. \A m \in ToSet(futures') : pc'[m] # "unseen"
  <2>1. ToSet(futures) \subseteq Node
    BY <1>0 DEF LevelTypes, ToSet
  <2> QED
    BY <1>0, <1>1, <1>8, <2>1 DEF LevelTasks
<1>15. /\ \A m \in Node \ Got' : \A f \in DirsIn(tree', m) : pc'[f] = "unseen" /\ f \notin fileList'
       /\ \A m \in Got' : \A f \in DirsIn(tree', m) : pc'[f] # "unseen" \/ f \in fileList'
  BY <1>0, <1>1, <1>6, <1>8, <1>10 DEF LevelTasks, Got, In
<1>16. LevelTasks'
  BY <1>11, <1>12, <1>13, <1>14, <1>15 DEF LevelTasks
<1>17. LevelAnswered'
  BY <1>0, <1>1, <1>6 DEF LevelAnswered, Part, Full
<1> QED
  BY <1>5, <1>16, <1>17 DEF LevelInv

LEMMA LevelGet == ASSUME LevelInv, Level!Get PROVE LevelInv'
<1>0. /\ LevelTypes /\ LevelTasks /\ LevelAnswered /\ WalkTypes /\ tree \in Trees
  BY DEF LevelInv, LevelTypes, WalkTypes
<1> DEFINE h == Head(futures)
<1>1. /\ main = "collecting" /\ futures # << >> /\ pc[h] = "done"
      /\ total' = Plus(total, size[h]) /\ fileList' = fileList \cup todo[h]
      /\ futures' = Tail(futures)
      /\ UNCHANGED <<tree, main, pc, todo, size, answer, timedOut>>
  BY DEF Level!Get, Level!Plus, Plus
<1>2. /\ h \in ToSet(futures) /\ h \in Node /\ ToSet(futures') = ToSet(futures) \ {h}
      /\ futures' \in Seq(Node)
      /\ \A i, k \in 1 .. Len(futures') : futures'[i] = futures'[k] => i = k
  <2>1. futures \in Seq(Node) /\ \A i, k \in 1 .. Len(futures) : futures[i] = futures[k] => i = k
    BY <1>0 DEF LevelTypes
  <2> QED
    BY <1>1, <2>1, TailElements
<1> HIDE DEF h
<1>3. size[h] = SizeOf(FilesIn(tree, h)) /\ todo[h] = DirsIn(tree, h) /\ h \in Visible(tree)
  BY <1>0, <1>1, <1>2 DEF LevelTasks
<1>4. Got' = Got \cup {h} /\ h \notin Got /\ Got \subseteq Node
  BY <1>1, <1>2 DEF Got, In
<1>5. FilesOf(tree, Got') = FilesOf(tree, Got) \cup FilesIn(tree, h)
  BY <1>4 DEF FilesOf
<1>6. FilesOf(tree, Got) \cap FilesIn(tree, h) = {}
  <2>1. ASSUME NEW n \in Got PROVE FilesIn(tree, n) \cap FilesIn(tree, h) = {}
    BY <1>0, <1>2, <1>4, OneParent DEF FilesIn
  <2> QED
    BY <2>1 DEF FilesOf
<1>7. total' = SizeOf(FilesOf(tree, Got'))
  <2>1. total = SizeOf(FilesOf(tree, Got))
    BY <1>0 DEF LevelAnswered
  <2> QED
    BY <1>1, <1>3, <1>5, <1>6, <2>1, PlusNew
<1>8. \A f \in DirsIn(tree, h) : /\ f \in Node /\ pc[f] = "unseen" /\ f \in Visible(tree)
                                 /\ f \notin tree.files
  BY <1>0, <1>2, <1>3, <1>4, OneParent, VisibleClosed DEF LevelTasks, DirsIn
<1>9. LevelTypes'
  BY <1>0, <1>1, <1>2, <1>3, <1>7, <1>8, SizeOfType DEF LevelTypes, WalkTypes
<1>10. ASSUME NEW n \in Node, n \notin Got', NEW f \in DirsIn(tree, n)
       PROVE  pc[f] = "unseen" /\ f \notin fileList'
  <2>1. f \notin DirsIn(tree, h)
    BY <1>0, <1>2, <1>4, <1>10, OneParent DEF DirsIn
  <2> QED
    BY <1>0, <1>1, <1>3, <1>4, <1>10, <2>1 DEF LevelTasks
<1>11. ASSUME NEW n \in Got', NEW f \in DirsIn(tree, n)
       PROVE  pc[f] # "unseen" \/ f \in fileList'
  BY <1>0, <1>1, <1>3, <1>4, <1>11 DEF LevelTasks
<1>12. In({"queued", "visiting"})' \subseteq ToSet(futures')
  BY <1>0, <1>1, <1>2 DEF LevelTasks, In
<1>13. /\ \A f \in fileList' : f \in Visible(tree) /\ pc[f] = "unseen"
       /\ \A n \in Node : pc[n] # "unseen" \/ n \in fileList' => n = Root \/ n \notin tree.files
       /\ Root \in fileList' \/ pc[Root] # "unseen"
       /\ \A n \in ToSet(futures') : pc[n] # "unseen"
  BY <1>0, <1>1, <1>2, <1>3, <1>8 DEF LevelTasks
<1>14. /\ \A n \in Node : pc[n] # "unseen" => n \in Visible(tree)
       /\ \A n \in Node : pc[n] = "done" => /\ size[n] = SizeOf(FilesIn(tree, n))
                                            /\ todo[n] = DirsIn(tree, n)
  BY <1>0 DEF LevelTasks
<1>15. LevelTasks'
  BY <1>1, <1>10, <1>11, <1>12, <1>13, <1>14 DEF LevelTasks
<1>16. LevelAnswered'
  BY <1>0, <1>1, <1>7 DEF LevelAnswered, Part, Full
<1> QED
  BY <1>9, <1>15, <1>16 DEF LevelInv

LEMMA LevelStep == LevelInv /\ Level!Next => LevelInv'
<1> SUFFICES ASSUME LevelInv, Level!Next PROVE LevelInv'
  OBVIOUS
<1>1. ASSUME NEW n \in Node, Level!Take(n, Level!Busy), UNCHANGED <<fileList, futures>>
      PROVE  LevelInv'
  <2>0. LevelTypes /\ LevelTasks /\ LevelAnswered /\ WalkTypes /\ tree \in Trees
    BY DEF LevelInv, LevelTypes, WalkTypes
  <2>1. /\ pc[n] = "queued" /\ pc' = [pc EXCEPT ![n] = "visiting"]
        /\ UNCHANGED <<tree, main, todo, size, total, answer, timedOut, fileList, futures>>
    BY <1>1 DEF Level!Take
  <2>2. LevelTypes'
    BY <2>0, <2>1 DEF LevelTypes, WalkTypes, Label
  <2>3. Got' = Got /\ In({"queued", "visiting"})' = In({"queued", "visiting"})
    BY <2>0, <2>1 DEF Got, In, WalkTypes
  <2>4. /\ \A m \in Node : pc'[m] = "unseen" <=> pc[m] = "unseen"
        /\ \A m \in Node : pc'[m] = "done" => pc[m] = "done"
    BY <2>0, <2>1 DEF WalkTypes
  <2>5. \A m \in Node : \A f \in DirsIn(tree, m) : f \in Node
    BY <2>0, OneParent DEF DirsIn
  <2>6. ToSet(futures) \subseteq Node /\ Root \in Node
    BY <2>0, TreeAssumption DEF LevelTypes, ToSet
  <2>7. /\ \A m \in Node \ Got' : \A f \in DirsIn(tree', m) : pc'[f] = "unseen" /\ f \notin fileList'
        /\ \A m \in Got' : \A f \in DirsIn(tree', m) : pc'[f] # "unseen" \/ f \in fileList'
    BY <2>0, <2>1, <2>3, <2>4, <2>5 DEF LevelTasks, Got, In
  <2>8. LevelTasks'
    BY <2>0, <2>1, <2>3, <2>4, <2>6, <2>7 DEF LevelTasks, LevelTypes
  <2>9. LevelAnswered'
    BY <2>0, <2>1, <2>3 DEF LevelAnswered, Part, Full
  <2> QED
    BY <2>2, <2>8, <2>9 DEF LevelInv
<1>2. CASE \/ Level!Begin \/ Level!Collect \/ Level!NextLevel \/ Level!GetTimesOut
           \/ (Level!Shutdown \/ Level!Return(total)) /\ UNCHANGED <<fileList, futures>>
  <2>1. /\ UNCHANGED <<tree, pc, todo, size, total, fileList, futures>>
        /\ \/ main' \notin {"closing", "returning", "returned"} /\ UNCHANGED answer
           \/ main' = "closing" /\ timedOut' /\ UNCHANGED answer
           \/ main' = "closing" /\ futures = << >> /\ fileList = {} /\ UNCHANGED answer
           \/ main = "closing" /\ main' = "returning" /\ UNCHANGED <<answer, timedOut>>
           \/ main = "returning" /\ main' = "returned" /\ answer' = total /\ UNCHANGED timedOut
    BY <1>2 DEF Level!Begin, Level!Collect, Level!NextLevel, Level!GetTimesOut, Level!GiveUp,
                Level!Shutdown, Level!Return, Level!levelVars
  <2> QED
    BY <2>1, LevelMain
<1> QED
  BY <1>1, <1>2, LevelSubmit, LevelVisit, LevelGet DEF Level!Next, Level!Step, Level!levelVars

-----------------------------------------------------------------------------
(* CountByRecursiveTask.                                                   *)

\* The files in the sum of a task that has joined the tasks of some directories.
BelowAll(t, S) == UNION {Below(t, f) : f \in S}
Joined(n) == Own(tree, n) \cup (BelowAll(tree, DirsIn(tree, n) \ todo[n]) \cap tree.files)

ForkTasks ==
  /\ pc \in [Node -> {"unseen", "queued", "visiting", "done"}]
  /\ \A n \in Node : pc[n] # "unseen" => n \in Visible(tree)
  /\ \A n \in Node : pc[n] \in {"unseen", "queued"} => \A f \in DirsIn(tree, n) : pc[f] = "unseen"
  /\ \A n \in Node : todo[n] \subseteq DirsIn(tree, n)
  /\ \A n \in Node : pc[n] = "visiting" => size[n] = SizeOf(Joined(n))
  /\ \A n \in Node : pc[n] = "done" => todo[n] = {} /\ size[n] = SizeOf(Joined(n))

\* A worker is in tasks that have begun.
ForkStack ==
  /\ stack \in [1 .. PoolSize -> Seq(Node)]
  /\ \A w \in 1 .. PoolSize : \A n \in ToSet(stack[w]) : pc[n] \in {"visiting", "done"}

ForkAnswered ==
  /\ main = "start" => \A n \in Node : pc[n] = "unseen"
  /\ total = Nothing /\ answer \in {Nothing, Full(tree)}
  /\ main = "returned" => answer = Full(tree)

ForkInv == WalkTypes /\ ForkTasks /\ ForkStack /\ ForkAnswered

LEMMA BelowAllAdd ==
  ASSUME NEW t, NEW S, NEW m
  PROVE  BelowAll(t, S \cup {m}) = BelowAll(t, S) \cup Below(t, m)
BY DEF BelowAll

LEMMA JoinedAll ==
  ASSUME tree \in Trees, NEW n \in Node, todo[n] = {}
  PROVE  Joined(n) = Below(tree, n) \cap tree.files
<1>1. Below(tree, n) = {n} \cup UNION {Below(tree, f) : f \in Listing(tree, n)}
  BY BelowUnfold
<1>2. CASE n \in tree.files
  <2>1. Listing(tree, n) = {} /\ DirsIn(tree, n) = {}
    BY <1>2 DEF Listing, DirsIn
  <2>2. BelowAll(tree, DirsIn(tree, n) \ todo[n]) = {}
    BY <2>1 DEF BelowAll
  <2> QED
    BY <1>1, <1>2, <2>1, <2>2 DEF Joined, Own
<1>3. CASE n \notin tree.files
  <2>1. \A f \in FilesIn(tree, n) : f \in Listing(tree, n) /\ Below(tree, f) = {f} /\ f \in tree.files
    BY OneParent, BelowFile DEF FilesIn
  <2>2. \A f \in Listing(tree, n) : f \in FilesIn(tree, n) \/ f \in DirsIn(tree, n)
    BY DEF FilesIn, DirsIn
  <2>3. DirsIn(tree, n) \subseteq Listing(tree, n)
    BY DEF DirsIn
  <2> DEFINE D == BelowAll(tree, DirsIn(tree, n))
  <2>4. Joined(n) = FilesIn(tree, n) \cup (D \cap tree.files)
    <3>1. DirsIn(tree, n) \ todo[n] = DirsIn(tree, n)
      OBVIOUS
    <3> QED
      BY <1>3, <3>1 DEF Joined, Own
  <2>5. Below(tree, n) = {n} \cup FilesIn(tree, n) \cup D
    <3>1. \A x \in Below(tree, n) : x = n \/ x \in FilesIn(tree, n) \/ x \in D
      BY <1>1, <2>1, <2>2 DEF BelowAll
    <3>2. \A x \in FilesIn(tree, n) : x \in Below(tree, n)
      BY <1>1, <2>1
    <3>3. D \subseteq Below(tree, n)
      BY <1>1, <2>3 DEF BelowAll
    <3> QED
      BY <1>1, <3>1, <3>2, <3>3
  <2> HIDE DEF D
  <2> QED
    BY <1>3, <2>1, <2>4, <2>5
<1> QED
  BY <1>2, <1>3

LEMMA JoinedNext ==
  ASSUME tree \in Trees, NEW n \in Visible(tree), NEW m \in DirsIn(tree, n), m \in todo[n]
  PROVE  Joined(n) \cap (Below(tree, m) \cap tree.files) = {}
<1>1. m \in Listing(tree, n) /\ n \in Node
  BY DEF DirsIn, Visible
<1>2. n \notin Below(tree, m)
  BY <1>1, NoCircle
<1>3. ASSUME NEW f \in Listing(tree, n), f # m  PROVE Below(tree, f) \cap Below(tree, m) = {}
  BY <1>1, <1>3, SiblingsApart
<1>4. \A f \in FilesIn(tree, n) : f \notin Below(tree, m)
  <2>1. ASSUME NEW f \in FilesIn(tree, n)  PROVE f \notin Below(tree, m)
    <3>1. f \in Listing(tree, n) /\ f # m
      BY DEF FilesIn, DirsIn
    <3>2. f \in Below(tree, f)
      BY <1>1, <3>1, OneParent, BelowClosed
    <3> QED
      BY <1>3, <3>1, <3>2
  <2> QED
    BY <2>1
<1>5. \A f \in DirsIn(tree, n) \ todo[n] : Below(tree, f) \cap Below(tree, m) = {}
  BY <1>3 DEF DirsIn
<1> QED
  BY <1>2, <1>4, <1>5 DEF Joined, Own, BelowAll

LEMMA ForkInit == Init /\ program = "forkjoin" => ForkInv
<1> SUFFICES ASSUME Init, program = "forkjoin" PROVE ForkInv
  OBVIOUS
<1>1. WalkTypes
  BY SizeOfType DEF Init, WalkInit, WalkTypes, Label, Nothing
<1>2. /\ main = "start" /\ total = Nothing /\ answer = Nothing /\ pc = [n \in Node |-> "unseen"]
      /\ \A n \in Node : todo[n] = {}
      /\ stack = [w \in 1 .. PoolSize |-> << >>]
  BY DEF Init, WalkInit
<1>3. ForkTasks
  BY <1>1, <1>2, OneParent DEF ForkTasks, DirsIn, WalkTypes
<1>4. ForkStack
  <2>1. << >> \in Seq(Node)
    OBVIOUS
  <2>2. \A w \in 1 .. PoolSize : stack[w] = << >> /\ ToSet(stack[w]) = {}
    BY <1>2 DEF ToSet
  <2>3. stack \in [1 .. PoolSize -> Seq(Node)]
    BY <1>2, <2>1
  <2> QED
    BY <2>2, <2>3 DEF ForkStack
<1>5. ForkAnswered
  BY <1>2 DEF ForkAnswered
<1> QED
  BY <1>1, <1>3, <1>4, <1>5 DEF ForkInv

\* The last task of a worker, and the others.
LEMMA LastFront ==
  ASSUME NEW S, NEW s \in Seq(S), s # << >>
  PROVE  Last(s) \in ToSet(s) /\ Front(s) \in Seq(S) /\ ToSet(Front(s)) \subseteq ToSet(s)
<1>1. Last(s) \in ToSet(s)
  BY DEF Last, ToSet
<1>2. Len(s) \in Nat /\ Len(s) > 0 /\ \A i \in 1 .. Len(s) : s[i] \in S
  OBVIOUS
<1> DEFINE n == Len(s) - 1
           f == SubSeq(s, 1, n)
<1>3. n \in Nat /\ \A i \in 1 .. n : s[i] \in S
  BY <1>2
<1>4. f \in Seq(S) /\ Len(f) = n /\ \A i \in 1 .. n : f[i] = s[i]
  <2>1. \A i \in 1 .. n : s[i] \in S
    BY <1>3
  <2> HIDE DEF f, n
  <2> QED
    BY <1>3, <2>1, SubSeqProperties DEF f
<1>5. Front(s) = f
  BY DEF Front
<1> HIDE DEF f
<1>6. ToSet(f) \subseteq ToSet(s)
  BY <1>2, <1>4 DEF ToSet
<1> QED
  BY <1>1, <1>4, <1>5, <1>6

LEMMA ForkCompute ==
  ASSUME ForkInv, NEW w \in 1 .. PoolSize, NEW n \in Node, ForkJoin!Compute(w, n)
  PROVE  ForkInv'
<1>0. WalkTypes /\ ForkTasks /\ ForkStack /\ ForkAnswered /\ tree \in Trees
  BY DEF ForkInv, LevelTypes, WalkTypes
<1>1. /\ pc[n] = "queued"
      /\ stack' = [stack EXCEPT ![w] = Append(@, n)]
      /\ pc' = [m \in Node |-> IF m = n THEN "visiting"
                               ELSE IF m \in DirsIn(tree, n) THEN "queued" ELSE pc[m]]
      /\ size' = [size EXCEPT ![n] = SizeOf(Own(tree, n))]
      /\ todo' = [todo EXCEPT ![n] = DirsIn(tree, n)]
      /\ UNCHANGED <<tree, main, total, answer, timedOut>>
  BY DEF ForkJoin!Compute, Own, ForkJoin!FilesIn, FilesIn, ForkJoin!DirsIn, DirsIn,
         ForkJoin!Listing, Listing, ForkJoin!SizeOf, SizeOf
<1>2. n \in Visible(tree) /\ \A f \in DirsIn(tree, n) : pc[f] = "unseen"
  BY <1>0, <1>1 DEF ForkTasks
<1>3. \A k \in Node : \A f \in DirsIn(tree, k) : f \in Node /\ (f \in DirsIn(tree, n) => k = n)
  BY <1>0, OneParent DEF DirsIn
<1>4. \A f \in DirsIn(tree, n) : f \in Visible(tree)
  BY <1>0, <1>2, VisibleClosed DEF DirsIn
<1>5. /\ todo' \in [Node -> SUBSET Node] /\ size' \in [Node -> Sizes]
      /\ pc' \in [Node -> {"unseen", "queued", "visiting", "done"}]
  BY <1>0, <1>1, <1>3, SizeOfType DEF WalkTypes, ForkTasks
<1>6. WalkTypes'
  BY <1>0, <1>1, <1>5 DEF WalkTypes, Label
<1>7. /\ \A m \in Node : m # n => size'[m] = size[m] /\ todo'[m] = todo[m]
      /\ size'[n] = SizeOf(Own(tree, n)) /\ todo'[n] = DirsIn(tree, n)
      /\ pc'[n] = "visiting"
      /\ \A m \in Node : m # n => pc'[m] = pc[m] \/ (pc[m] = "unseen" /\ pc'[m] = "queued")
      /\ \A m \in Node : m # n /\ m \notin DirsIn(tree, n) => pc'[m] = pc[m]
  BY <1>0, <1>1, <1>2 DEF WalkTypes
<1>8. Joined(n)' = Own(tree, n)
  <2>1. DirsIn(tree, n) \ todo'[n] = {}
    BY <1>7
  <2> QED
    BY <1>1, <2>1 DEF Joined, BelowAll
<1>9. \A m \in Node : m # n => Joined(m)' = Joined(m)
  BY <1>1, <1>7 DEF Joined
<1>10. ASSUME NEW m \in Node, pc'[m] \in {"unseen", "queued"}, NEW f \in DirsIn(tree, m)
       PROVE  pc'[f] = "unseen"
  <2>1. m # n /\ pc[m] \in {"unseen", "queued"}
    BY <1>7, <1>10
  <2>2. f \in Node /\ pc[f] = "unseen" /\ f # n /\ f \notin DirsIn(tree, n)
    BY <1>0, <1>1, <1>3, <2>1 DEF ForkTasks
  <2> QED
    BY <1>7, <2>2
<1>11. \A m \in Node : pc'[m] # "unseen" => m \in Visible(tree)
  BY <1>0, <1>2, <1>4, <1>7 DEF ForkTasks
<1>12. \A m \in Node : todo'[m] \subseteq DirsIn(tree, m)
  BY <1>0, <1>7 DEF ForkTasks
<1>13. \A m \in Node : pc'[m] = "visiting" => size'[m] = SizeOf(Joined(m)')
  BY <1>0, <1>7, <1>8, <1>9 DEF ForkTasks
<1>14. \A m \in Node : pc'[m] = "done" => todo'[m] = {} /\ size'[m] = SizeOf(Joined(m)')
  BY <1>0, <1>7, <1>8, <1>9 DEF ForkTasks
<1>15. ForkTasks'
  BY <1>1, <1>5, <1>10, <1>11, <1>12, <1>13, <1>14 DEF ForkTasks
<1>16. ForkStack'
  <2>1. stack[w] \in Seq(Node)
    BY <1>0 DEF ForkStack
  <2>2. ToSet(Append(stack[w], n)) = ToSet(stack[w]) \cup {n} /\ Append(stack[w], n) \in Seq(Node)
    BY <2>1, AppendElements
  <2>3. /\ stack' \in [1 .. PoolSize -> Seq(Node)] /\ stack'[w] = Append(stack[w], n)
        /\ \A v \in 1 .. PoolSize : v # w => stack'[v] = stack[v]
    BY <1>0, <1>1, <2>2 DEF ForkStack
  <2>4. \A m \in Node : pc[m] \in {"visiting", "done"} => pc'[m] \in {"visiting", "done"}
    BY <1>7
  <2>5. \A v \in 1 .. PoolSize : \A m \in ToSet(stack[v]) : m \in Node /\ pc[m] \in {"visiting", "done"}
    BY <1>0 DEF ForkStack, ToSet
  <2>6. ASSUME NEW v \in 1 .. PoolSize, NEW m \in ToSet(stack'[v])
        PROVE  pc'[m] \in {"visiting", "done"}
    <3>1. ToSet(stack'[v]) \subseteq ToSet(stack[v]) \cup {n}
      BY <2>2, <2>3
    <3> QED
      BY <1>7, <2>4, <2>5, <3>1
  <2> QED
    BY <2>3, <2>6 DEF ForkStack
<1>17. ForkAnswered'
  <2>1. main # "start"
    BY <1>0, <1>1 DEF ForkAnswered
  <2> QED
    BY <1>0, <1>1, <2>1 DEF ForkAnswered, Full
<1> QED
  BY <1>6, <1>15, <1>16, <1>17 DEF ForkInv

LEMMA ForkJoins ==
  ASSUME ForkInv, NEW w \in 1 .. PoolSize, ForkJoin!Join(w)
  PROVE  ForkInv'
<1>0. WalkTypes /\ ForkTasks /\ ForkStack /\ ForkAnswered /\ tree \in Trees
  BY DEF ForkInv, LevelTypes, WalkTypes
<1>1. PICK n \in Node :
        /\ pc[n] \in {"visiting", "done"}
        /\ UNCHANGED <<tree, main, pc, total, answer, timedOut, stack>>
        /\ \E m \in todo[n] : /\ pc[m] = "done" /\ size' = [size EXCEPT ![n] = Plus(@, size[m])]
                              /\ todo' = [todo EXCEPT ![n] = @ \ {m}]
  <2> DEFINE l == Last(stack[w])
  <2>1. /\ stack[w] # << >>
        /\ UNCHANGED <<tree, main, pc, total, answer, timedOut, stack>>
        /\ \E m \in todo[l] : /\ pc[m] = "done" /\ size' = [size EXCEPT ![l] = Plus(@, size[m])]
                              /\ todo' = [todo EXCEPT ![l] = @ \ {m}]
    BY DEF ForkJoin!Join, ForkJoin!Last, Last, ForkJoin!Plus, Plus
  <2>2. stack[w] \in Seq(Node)
    BY <1>0 DEF ForkStack
  <2>3. l \in ToSet(stack[w])
    BY <2>1, <2>2, LastFront
  <2> HIDE DEF l
  <2>4. l \in Node /\ pc[l] \in {"visiting", "done"}
    BY <1>0, <2>2, <2>3 DEF ForkStack, ToSet
  <2> QED
    BY <2>1, <2>4
<1>2. n \in Node /\ pc[n] \in {"visiting", "done"}
  BY <1>1
<1>3. PICK m \in todo[n] : /\ pc[m] = "done" /\ size' = [size EXCEPT ![n] = Plus(@, size[m])]
                           /\ todo' = [todo EXCEPT ![n] = @ \ {m}]
  BY <1>1
<1>4. /\ n \in Visible(tree) /\ pc[n] = "visiting" /\ m \in DirsIn(tree, n) /\ m \in Node
      /\ size[n] = SizeOf(Joined(n)) /\ size[m] = SizeOf(Joined(m)) /\ todo[m] = {}
  BY <1>0, <1>2, <1>3, OneParent DEF ForkTasks, DirsIn
<1>5. Joined(m) = Below(tree, m) \cap tree.files
  BY <1>0, <1>4, JoinedAll
<1>6. /\ size'[n] = Plus(size[n], size[m]) /\ todo'[n] = todo[n] \ {m}
      /\ \A k \in Node : k # n => size'[k] = size[k] /\ todo'[k] = todo[k]
  BY <1>0, <1>2, <1>3 DEF WalkTypes
<1>7. Joined(n)' = Joined(n) \cup (Below(tree, m) \cap tree.files)
  <2>1. DirsIn(tree, n) \ todo'[n] = (DirsIn(tree, n) \ todo[n]) \cup {m}
    BY <1>3, <1>4, <1>6
  <2> DEFINE D == DirsIn(tree, n) \ todo[n]
  <2> HIDE DEF D
  <2>2. BelowAll(tree, D \cup {m}) = BelowAll(tree, D) \cup Below(tree, m)
    BY BelowAllAdd
  <2>3. Joined(n)' = Own(tree, n) \cup (BelowAll(tree, D \cup {m}) \cap tree.files)
    BY <1>1, <2>1 DEF Joined, D
  <2>4. Joined(n) = Own(tree, n) \cup (BelowAll(tree, D) \cap tree.files)
    BY DEF Joined, D
  <2> QED
    BY <2>2, <2>3, <2>4
<1>8. size'[n] = SizeOf(Joined(n)')
  <2>1. Joined(n) \cap (Below(tree, m) \cap tree.files) = {}
    BY <1>0, <1>3, <1>4, JoinedNext
  <2> QED
    BY <1>4, <1>5, <1>6, <1>7, <2>1, PlusNew
<1>9. \A k \in Node : k # n => Joined(k)' = Joined(k)
  BY <1>1, <1>6 DEF Joined
<1>10. WalkTypes'
  <2>1. size' \in [Node -> Sizes] /\ todo' \in [Node -> SUBSET Node]
    BY <1>0, <1>2, <1>3, <1>4, PlusType DEF WalkTypes
  <2> QED
    BY <1>0, <1>1, <2>1 DEF WalkTypes
<1>11. ForkTasks'
  <2>1. \A k \in Node : pc[k] = "visiting" => size'[k] = SizeOf(Joined(k)')
    BY <1>0, <1>6, <1>8, <1>9 DEF ForkTasks
  <2>2. \A k \in Node : pc[k] = "done" => todo'[k] = {} /\ size'[k] = SizeOf(Joined(k)')
    BY <1>0, <1>4, <1>6, <1>9 DEF ForkTasks
  <2>3. \A k \in Node : todo'[k] \subseteq DirsIn(tree, k)
    BY <1>0, <1>6 DEF ForkTasks
  <2> QED
    BY <1>0, <1>1, <2>1, <2>2, <2>3 DEF ForkTasks
<1>12. ForkStack' /\ ForkAnswered'
  BY <1>0, <1>1 DEF ForkStack, ForkAnswered, Full
<1> QED
  BY <1>10, <1>11, <1>12 DEF ForkInv

LEMMA ForkFinish ==
  ASSUME ForkInv, NEW w \in 1 .. PoolSize, ForkJoin!Finish(w)
  PROVE  ForkInv'
<1>0. WalkTypes /\ ForkTasks /\ ForkStack /\ ForkAnswered /\ tree \in Trees
  BY DEF ForkInv, LevelTypes, WalkTypes
<1> DEFINE n == Last(stack[w])
<1>1. /\ stack[w] # << >> /\ todo[n] = {} /\ pc' = [pc EXCEPT ![n] = "done"]
      /\ stack' = [stack EXCEPT ![w] = Front(@)]
      /\ UNCHANGED <<tree, main, todo, size, total, answer, timedOut>>
  BY DEF ForkJoin!Finish, ForkJoin!Last, Last, ForkJoin!Front, Front
<1>2. stack[w] \in Seq(Node)
  BY <1>0 DEF ForkStack
<1>3. n \in ToSet(stack[w]) /\ Front(stack[w]) \in Seq(Node) /\ ToSet(Front(stack[w])) \subseteq ToSet(stack[w])
  BY <1>1, <1>2, LastFront
<1> HIDE DEF n
<1>4. n \in Node /\ pc[n] \in {"visiting", "done"}
  BY <1>0, <1>2, <1>3 DEF ForkStack, ToSet
<1>5. size[n] = SizeOf(Joined(n))
  BY <1>0, <1>4 DEF ForkTasks
<1>6. \A m \in Node : Joined(m)' = Joined(m)
  BY <1>1 DEF Joined
<1>7. pc'[n] = "done" /\ \A m \in Node : m # n => pc'[m] = pc[m]
  BY <1>0, <1>1, <1>4 DEF WalkTypes
<1>8. WalkTypes'
  BY <1>0, <1>1, <1>4 DEF WalkTypes, Label
<1>9. \A m \in Node : \A f \in DirsIn(tree, m) : f \in Node
  BY <1>0, OneParent DEF DirsIn
<1>10. ForkTasks'
  <2>1. pc' \in [Node -> {"unseen", "queued", "visiting", "done"}]
    BY <1>0, <1>1, <1>4 DEF ForkTasks
  <2>2. \A m \in Node : pc'[m] \in {"unseen", "queued"} => \A f \in DirsIn(tree, m) : pc'[f] = "unseen"
    BY <1>0, <1>4, <1>7, <1>9 DEF ForkTasks
  <2>3. \A m \in Node : pc'[m] = "done" => todo[m] = {} /\ size[m] = SizeOf(Joined(m))
    BY <1>0, <1>1, <1>5, <1>7 DEF ForkTasks
  <2>4. \A m \in Node : pc'[m] = "visiting" => size[m] = SizeOf(Joined(m))
    BY <1>0, <1>7 DEF ForkTasks
  <2>5. \A m \in Node : pc'[m] # "unseen" => m \in Visible(tree)
    BY <1>0, <1>4, <1>7 DEF ForkTasks
  <2> QED
    BY <1>0, <1>1, <1>6, <2>1, <2>2, <2>3, <2>4, <2>5 DEF ForkTasks
<1>11. ForkStack'
  <2>1. /\ stack' \in [1 .. PoolSize -> Seq(Node)] /\ stack'[w] = Front(stack[w])
        /\ \A v \in 1 .. PoolSize : v # w => stack'[v] = stack[v]
    BY <1>0, <1>1, <1>3 DEF ForkStack
  <2>2. \A v \in 1 .. PoolSize : ToSet(stack'[v]) \subseteq ToSet(stack[v])
    BY <1>3, <2>1
  <2>3. \A v \in 1 .. PoolSize : \A m \in ToSet(stack[v]) : m \in Node /\ pc[m] \in {"visiting", "done"}
    BY <1>0 DEF ForkStack, ToSet
  <2>4. \A m \in Node : pc[m] \in {"visiting", "done"} => pc'[m] \in {"visiting", "done"}
    BY <1>7
  <2> QED
    BY <2>1, <2>2, <2>3, <2>4 DEF ForkStack
<1>12. ForkAnswered'
  <2>1. main # "start"
    BY <1>0, <1>4 DEF ForkAnswered
  <2> QED
    BY <1>0, <1>1, <2>1 DEF ForkAnswered, Full
<1> QED
  BY <1>8, <1>10, <1>11, <1>12 DEF ForkInv

LEMMA ForkStep == ForkInv /\ ForkJoin!Next => ForkInv'
<1> SUFFICES ASSUME ForkInv, ForkJoin!Next PROVE ForkInv'
  OBVIOUS
<1>0. /\ WalkTypes /\ ForkTasks /\ ForkStack /\ ForkAnswered /\ tree \in Trees
      /\ Root \in Node /\ Root \in Visible(tree)
  BY TreeAssumption, VisibleClosed DEF ForkInv, LevelTypes, WalkTypes
<1>1. CASE ForkJoin!Begin
  <2>1. /\ main = "start" /\ main' = "returning" /\ pc' = [pc EXCEPT ![Root] = "queued"]
        /\ UNCHANGED <<tree, todo, size, total, answer, timedOut, stack>>
    BY <1>1 DEF ForkJoin!Begin
  <2>2. \A n \in Node : pc[n] = "unseen"
    BY <1>0, <2>1 DEF ForkAnswered
  <2>3. \A n \in Node : \A f \in DirsIn(tree, n) : f \in Node /\ f # Root
    BY <1>0, OneParent DEF DirsIn
  <2>4. \A n \in Node : Joined(n)' = Joined(n)
    BY <2>1 DEF Joined
  <2>5. WalkTypes' /\ ForkTasks'
    BY <1>0, <2>1, <2>2, <2>3, <2>4 DEF WalkTypes, Label, ForkTasks
  <2>6. ForkStack'
    <3>1. \A v \in 1 .. PoolSize : \A m \in ToSet(stack[v]) : m \in Node /\ pc[m] \in {"visiting", "done"}
      BY <1>0 DEF ForkStack, ToSet
    <3>2. \A v \in 1 .. PoolSize : \A m \in ToSet(stack'[v]) : pc'[m] \in {"visiting", "done"}
      BY <2>1, <2>2, <3>1
    <3> QED
      BY <1>0, <2>1, <3>2 DEF ForkStack
  <2>7. ForkAnswered'
    BY <1>0, <2>1 DEF ForkAnswered, Full
  <2> QED
    BY <2>5, <2>6, <2>7 DEF ForkInv
<1>2. CASE pc[Root] = "done" /\ ForkJoin!Return(size[Root]) /\ UNCHANGED stack
  <2>1. /\ pc[Root] = "done" /\ main = "returning" /\ main' = "returned" /\ answer' = size[Root]
        /\ UNCHANGED <<tree, pc, todo, size, total, timedOut, stack>>
    BY <1>2 DEF ForkJoin!Return
  <2>2. size[Root] = Full(tree)
    BY <1>0, <2>1, JoinedAll, BelowRoot DEF ForkTasks, Full
  <2>3. \A n \in Node : Joined(n)' = Joined(n)
    BY <2>1 DEF Joined
  <2>4. WalkTypes' /\ ForkTasks' /\ ForkStack'
    BY <1>0, <2>1, <2>3 DEF WalkTypes, ForkTasks, ForkStack
  <2>5. ForkAnswered'
    BY <1>0, <2>1, <2>2 DEF ForkAnswered, Full
  <2> QED
    BY <2>4, <2>5 DEF ForkInv
<1> QED
  BY <1>1, <1>2, ForkCompute, ForkJoins, ForkFinish DEF ForkJoin!Next, ForkJoin!Worker

-----------------------------------------------------------------------------
(* All of the programs.                                                    *)

\* The inductive invariant: that of the program the behaviour is of.
IInv ==
  /\ program \in {"latch", "queue", "future", "level", "forkjoin"}
  /\ program = "latch" => LatchInv
  /\ program = "queue" => QueueInv
  /\ program = "future" => FutureInv
  /\ program = "level" => LevelInv
  /\ program = "forkjoin" => ForkInv

LEMMA IInvInit == Init => IInv
BY LatchInit, QueueInit, FutureInit, LevelInit, ForkInit DEF Init, IInv

LEMMA IInvStutter == IInv /\ UNCHANGED vars => IInv'
<1> SUFFICES ASSUME IInv, UNCHANGED vars PROVE IInv'
  OBVIOUS
<1>0. /\ UNCHANGED <<tree, main, pc, todo, size, outstanding, total, accepting, answer, timedOut>>
      /\ UNCHANGED <<program, latch, queue, futures, fileList, stack>>
  BY DEF vars, walkVars, own
<1>1. WalkTypes' = WalkTypes /\ Counting' = Counting /\ Answered' = Answered
  BY <1>0 DEF WalkTypes, Counting, Answered, In
<1>2. Descent(Entries(tree))' = Descent(Entries(tree)) /\ Descent(Dirs(tree))' = Descent(Dirs(tree))
  BY <1>0 DEF Descent
<1>3. LatchInv' = LatchInv
  BY <1>0, <1>1, <1>2 DEF LatchInv, LatchSummed, LatchOpen, In
<1>4. QueueInv' = QueueInv
  BY <1>0, <1>1, <1>2 DEF QueueInv, QueueSummed, QueuedBy, QueueLooked, In
<1>5. FutureInv' = FutureInv
  BY <1>0, <1>1, <1>2 DEF FutureInv, FutureLists, FutureSummed, Summed, Gotten, FutureAnswered, In
<1>6. LevelInv' = LevelInv
  BY <1>0, <1>1 DEF LevelInv, LevelTypes, LevelTasks, LevelAnswered, Got, In
<1>7. ForkInv' = ForkInv
  BY <1>0, <1>1 DEF ForkInv, ForkTasks, Joined, ForkStack, ForkAnswered
<1> QED
  BY <1>0, <1>3, <1>4, <1>5, <1>6, <1>7 DEF IInv

LEMMA IInvStep == IInv /\ [Next]_vars => IInv'
<1> SUFFICES ASSUME IInv, Next PROVE IInv'
  BY IInvStutter
<1>1. CASE program = "latch"
  <2>1. Latch!Next /\ program' = program
    BY <1>1 DEF Next, Step, Timeout, Run, Latch!Next
  <2> QED
    BY <1>1, <2>1, LatchStep DEF IInv
<1>2. CASE program = "queue"
  <2>1. Queue!Next /\ program' = program
    BY <1>2 DEF Next, Step, Timeout, Run, Queue!Next
  <2> QED
    BY <1>2, <2>1, QueueStep DEF IInv
<1>3. CASE program = "future"
  <2>1. Future!Next /\ program' = program
    BY <1>3 DEF Next, Step, Timeout, Run, Future!Next
  <2> QED
    BY <1>3, <2>1, FutureStep DEF IInv
<1>4. CASE program = "level"
  <2>1. Level!Next /\ program' = program
    BY <1>4 DEF Next, Step, Timeout, Run, Level!Next
  <2> QED
    BY <1>4, <2>1, LevelStep DEF IInv
<1>5. CASE program = "forkjoin"
  <2>1. ForkJoin!Next /\ program' = program
    BY <1>5 DEF Next, Step, Timeout, Run
  <2> QED
    BY <1>5, <2>1, ForkStep DEF IInv
<1> QED
  BY <1>1, <1>2, <1>3, <1>4, <1>5 DEF IInv

LEMMA Inductive == Spec => []IInv
BY IInvInit, IInvStep, PTL DEF Spec

\* No program counts a file twice, or one that is not below the root: not in
\* the sum it keeps and not in the answer it gives.
THEOREM EachFileOnce == Spec => []NoFileTwice
<1>1. IInv => NoFileTwice
  <2> SUFFICES ASSUME IInv PROVE Part(tree, total) /\ Part(tree, answer)
    BY PartAtMost DEF NoFileTwice
  <2>1. CASE program = "latch"
    BY <2>1, LatchPart DEF IInv, LatchInv, Answered
  <2>2. CASE program = "queue"
    BY <2>2, QueuePart DEF IInv, QueueInv, Answered
  <2>3. CASE program = "future"
    BY <2>3, PartSome DEF IInv, FutureInv, FutureSummed, FutureAnswered
  <2>4. CASE program = "level"
    BY <2>4, LevelPart DEF IInv, LevelInv, LevelAnswered
  <2>5. CASE program = "forkjoin"
    BY <2>5, PartSome DEF IInv, ForkInv, ForkAnswered
  <2> QED
    BY <2>1, <2>2, <2>3, <2>4, <2>5 DEF IInv
<1> QED
  BY Inductive, <1>1, PTL

\* Without a timeout every answer is the size of the whole tree.
THEOREM WholeTreeAnswered == Spec => []AnswerRight
<1>1. IInv => AnswerRight
  BY DEF IInv, AnswerRight, LatchInv, QueueInv, Answered, FutureInv, FutureAnswered,
         LevelInv, LevelAnswered, ForkInv, ForkAnswered
<1> QED
  BY Inductive, <1>1, PTL

\* The latch is opened after everything has been added and every task has ended.
THEOREM LatchIsLast == Spec => []LatchOpensLast
<1>1. IInv => LatchOpensLast
  BY LatchSafe DEF IInv, LatchOpensLast
<1> QED
  BY Inductive, <1>1, PTL

\* Main polls in vain only when it has got everything already.
THEOREM LateNullIsHarmless == Spec => []LateNullCostsNothing
<1>1. IInv => LateNullCostsNothing
  BY QueueSafe DEF IInv, LateNullCostsNothing
<1> QED
  BY Inductive, <1>1, PTL

\* As many directories with entries as threads do not stop the naive program.
THEOREM FewDirectoriesDoNotDeadlock == Spec => []DeadlockNeedsDirectories
<1>1. IInv => DeadlockNeedsDirectories
  BY FutureDeadlock DEF IInv, DeadlockNeedsDirectories
<1> QED
  BY Inductive, <1>1, PTL

\* The naive program answers with the whole sum or with 0, timeout or not.
THEOREM WholeSumOrZero == Spec => []AllOrNothing
<1>1. IInv => AllOrNothing
  BY FutureAllOrNothing DEF IInv, AllOrNothing
<1> QED
  BY Inductive, <1>1, PTL

\* CountFileDriect, which is asked for the same tree, answers with each file
\* below the root once, however deep the tree is.
THEOREM SequentialCountsAll == Spec => []SequentialRight
<1>1. IInv => SequentialRight
  BY SequentialCounts
  DEF IInv, SequentialRight, LatchInv, QueueInv, FutureInv, LevelInv, LevelTypes, ForkInv, WalkTypes
<1> QED
  BY Inductive, <1>1, PTL
=============================================================================
