------------------------------ MODULE FileTree ------------------------------
(***************************************************************************)
(* The directories that the programs of demo/file add up, and the one      *)
(* sequential program among them, CountFileDriect.  A size is kept as the  *)
(* number of times that each file went into it: two totals are compared    *)
(* file by file, so that neither a file that is missing nor one that is    *)
(* added twice can be made up for by another.                              *)
(***************************************************************************)
EXTENDS Naturals, FiniteSets, Functions

CONSTANTS
  Node,   \* files and directories
  Root,   \* the file or directory the program is asked for
  Trees   \* the file systems it may find there

\* A record for each file system: the entries of each directory, the nodes
\* that are files, and the directories that listFiles() returns null for.
ASSUME TreeAssumption ==
  /\ Root \in Node /\ IsFiniteSet(Node)
  /\ \A t \in Trees :
       /\ t.children \in [Node -> SUBSET Node]
       /\ t.files \subseteq Node /\ t.unreadable \subseteq Node \ t.files
       /\ \A n \in Node : Root \notin t.children[n]
       /\ \A m, n \in Node : m # n => t.children[m] \cap t.children[n] = {}

Sizes == [Node -> Nat]
SizeOf(S) == [n \in Node |-> IF n \in S THEN 1 ELSE 0]
Nothing == SizeOf({})
Plus(a, b) == [n \in Node |-> a[n] + b[n]]
AtMost(a, b) == \A n \in Node : a[n] <= b[n]

\* What listFiles() returns, a null array being no entries.
Listing(t, n) == IF n \in t.files \cup t.unreadable THEN {} ELSE t.children[n]
FilesIn(t, n) == Listing(t, n) \cap t.files
DirsIn(t, n) == Listing(t, n) \ t.files

\* What can be reached from the root: the least set that holds the root and
\* the entries of each of its members.
Visible(t) ==
  {n \in Node : \A S \in SUBSET Node :
     Root \in S /\ (\A m \in S : Listing(t, m) \subseteq S) => n \in S}

\* The right answer.
Full(t) == SizeOf(Visible(t) \cap t.files)

\* Fault: the files of a directory are added and then recursed into.
CountFilesTwice(t) ==
  LET count[n \in Visible(t)] ==
        IF n \in t.files THEN SizeOf({n})
        ELSE FoldFunctionOnSet(Plus, SizeOf(FilesIn(t, n)),
                               [m \in Listing(t, n) |-> count[m]], Listing(t, n))
  IN  count

CountFileSileInDir(t) ==
  LET count[n \in Visible(t)] ==
        IF n \in t.files THEN SizeOf({n})
        ELSE FoldFunctionOnSet(Plus, Nothing,
                               [m \in Listing(t, n) |-> count[m]], Listing(t, n))
  IN  count
=============================================================================
