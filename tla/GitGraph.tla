------------------------------ MODULE GitGraph ------------------------------
(***************************************************************************)
(* js/mermaid.core.js 8129-8279 and 11426-11517: the commits and branches  *)
(* of a gitGraph diagram, which its statements build while it is parsed,   *)
(* and the nodes and lines that are drawn of them.  Nothing calls clear(): *)
(* a second diagram on the page goes on with the commits of the first.     *)
(*                                                                         *)
(* Ids are drawn at random and taken to be fresh.  As the seq of a commit  *)
(* is the number of commits before it, the n-th commit is the number n     *)
(* here, and its seq n - 1; Null stands for null and undefined.            *)
(***************************************************************************)
EXTENDS Naturals, Sequences, FiniteSets, SequencesExt

CONSTANTS
  Branch,     \* names of branches, "master" among them
  MaxCommits  \* bound on the commits

VARIABLES
  commits,    \* the parent of each commit: << >>, one commit, or two of a merge
  head,       \* the commit head points to
  branches,   \* the names in the order they were added, and their commits
  curBranch,
  lineDrawn,  \* the commits that carry the lineDrawn flag
  outcome     \* history: what the last statement did, see Did

gitVars == <<commits, head, branches, curBranch, lineDrawn, outcome>>

Null == 0

\* What a statement was, whether it returned or threw, and what it found.
Did(op, how, facts) == outcome' = [op |-> op, how |-> how, facts |-> facts]

Nothing == Did("statement", "returned", << >>)

GitInit ==
  /\ commits = << >> /\ head = Null
  /\ branches = << [name |-> "master", commit |-> Null] >>
  /\ curBranch = "master"
  /\ lineDrawn = {}
  /\ outcome = [op |-> "none", how |-> "returned", facts |-> << >>]

\* branches[name], where a name that is not there gives undefined.
Tip(name) ==
  IF \E i \in DOMAIN branches : branches[i].name = name
  THEN branches[CHOOSE i \in DOMAIN branches : branches[i].name = name].commit ELSE Null

\* The assignment branches[name] = c.
SetBranch(name, c) ==
  branches' =
    IF \E i \in DOMAIN branches : branches[i].name = name
    THEN [i \in DOMAIN branches |->
            IF branches[i].name = name THEN [branches[i] EXCEPT !.commit = c] ELSE branches[i]]
    ELSE Append(branches, [name |-> name, commit |-> c])

\* A new commit becomes the head and the tip of the current branch.
AddCommit(parents) ==
  /\ Len(commits) < MaxCommits
  /\ commits' = Append(commits, parents)
  /\ head' = Len(commits) + 1
  /\ SetBranch(curBranch, Len(commits) + 1)

\* An exception ends the parsing; draw() catches and logs it.
Throws(op) == Did(op, "threw", << >>) /\ UNCHANGED <<commits, branches>>

Commit ==
  /\ AddCommit(IF head = Null THEN << >> ELSE <<head>>)
  /\ Nothing
  /\ UNCHANGED <<curBranch, lineDrawn>>

CreateBranch(name) ==
  /\ SetBranch(name, head)
  /\ Nothing
  /\ UNCHANGED <<commits, head, curBranch, lineDrawn>>

\* A branch nobody has created leaves head undefined.
Checkout(name) ==
  /\ curBranch' = name
  /\ head' = Tip(name)
  /\ Nothing
  /\ UNCHANGED <<commits, branches, lineDrawn>>

\* isfastforwardable(): walk from other towards the first commit as long as
\* its seq is not below that of current.  "throws": a parent of a merge commit
\* is null.
IsFastForwardable(current, other) ==
  LET from[c \in 0 .. Len(commits)] ==
        IF c = Null THEN "throws"
        ELSE IF current < c /\ commits[c] # << >>
          THEN LET byFirst == from[commits[c][1]]
               IN  IF Len(commits[c]) = 1 \/ byFirst # "no" THEN byFirst ELSE from[commits[c][2]]
        ELSE IF current = c THEN "yes" ELSE "no"
  IN  from[other]

\* Fault: the two commits are taken for each other.
ReachableSwapped(current, other) ==
  IF current < other THEN IsFastForwardable(current, other) ELSE "no"

IsReachableFrom(current, other) ==
  IF current > other THEN IsFastForwardable(other, current) ELSE "no"

\* merge: nothing if the other branch is already merged, else a fast forward
\* if that is possible, else a merge commit with head and the other tip.
Merge(name) ==
  LET current == Tip(curBranch)
      other == Tip(name)
      reachable == IsReachableFrom(current, other)
      forward == IsFastForwardable(current, other)
      threw == current = Null \/ other = Null \/ "throws" \in {reachable, forward}
  IN  /\ IF threw THEN Throws("merge") /\ UNCHANGED head
         ELSE /\ Did("merge", "returned", <<current, other, head>>)
              /\ IF reachable = "yes" THEN UNCHANGED <<commits, head, branches>>
                 ELSE IF forward = "yes"
                   THEN SetBranch(curBranch, other) /\ head' = other /\ UNCHANGED commits
                   ELSE AddCommit(<<head, other>>)
      /\ UNCHANGED <<curBranch, lineDrawn>>

\* The commit count parents before c: Null if one of them has none, or two.
Before(c, count) ==
  LET back[n \in 0 .. count] ==
        IF n = 0 THEN c
        ELSE IF back[n - 1] = Null \/ Len(commits[back[n - 1]]) # 1 THEN Null
        ELSE commits[back[n - 1]][1]
  IN  back[count]

\* reset: as many parents back as told.  head is assigned before the id of an
\* undefined commit makes the statement throw.
Reset(ref, count) ==
  LET from == IF ref = "HEAD" THEN head ELSE Tip(ref)
      commit == Before(from, count)
  IN  /\ IF commit = Null THEN Throws("reset")
                          ELSE SetBranch(curBranch, commit) /\ Nothing /\ UNCHANGED commits
      /\ head' = IF commit = Null /\ count > 0 THEN head ELSE commit
      /\ UNCHANGED <<curBranch, lineDrawn>>

-----------------------------------------------------------------------------
\* A drawing: the flags, the lines <<from, to>>, and how it goes on.
Page ==
  [drawn : SUBSET (1 .. Len(commits)), lines : Seq(Nat \X Nat), how : {"returned", "threw", "hangs"}]

Go(page) == page.how = "returned"

WithLines(page, c) ==
  [page EXCEPT !.lines = @ \o [i \in DOMAIN commits[c] |-> <<c, commits[c][i]>>]]

\* Fault: the lines behind the second parent of a merge commit are left out.
RenderFirstLines(page, c) ==
  LET render[d \in 1 .. Len(commits)] ==
        [p \in Page |->
           IF ~Go(p) \/ d = 1 \/ d \in p.drawn THEN p
           ELSE IF commits[d] = << >> THEN [p EXCEPT !.how = "hangs"]
           ELSE IF commits[d][1] = Null THEN [p EXCEPT !.how = "threw"]
           ELSE render[commits[d][1]][[WithLines(p, d) EXCEPT !.drawn = @ \cup {d}]]]
  IN  render[c][page]

\* renderLines(): draw a commit's lines, then those of its second parent, flag
\* the commit, and go on with its first parent.  A commit without a parent ends
\* the loop only if its seq is 0; a line to null throws.
RenderLines(page, c) ==
  LET render[d \in 1 .. Len(commits)] ==
        [p \in Page |->
           IF ~Go(p) \/ d = 1 \/ d \in p.drawn THEN p
           ELSE IF commits[d] = << >> THEN [p EXCEPT !.how = "hangs"]
           ELSE IF commits[d][1] = Null THEN [p EXCEPT !.how = "threw"]
           ELSE LET lined == WithLines(p, d)
                    side == IF Len(commits[d]) = 2 THEN render[commits[d][2]][lined] ELSE lined
                IN  IF Go(side) THEN render[commits[d][1]][[side EXCEPT !.drawn = @ \cup {d}]]
                                ELSE side]
  IN  render[c][page]

\* draw(): the branches one after the other; one without a commit throws.
DrawGitGraph ==
  LET page[i \in 0 .. Len(branches)] ==
        IF i = 0 THEN [drawn |-> lineDrawn, lines |-> << >>, how |-> "returned"]
        ELSE IF ~Go(page[i - 1]) THEN page[i - 1]
        ELSE IF branches[i].commit = Null THEN [page[i - 1] EXCEPT !.how = "threw"]
        ELSE RenderLines(page[i - 1], branches[i].commit)
  IN  page[Len(branches)]

Draw ==
  /\ lineDrawn' = DrawGitGraph.drawn
  /\ Did("draw", DrawGitGraph.how, <<lineDrawn, DrawGitGraph.lines>>)
  /\ UNCHANGED <<commits, head, branches, curBranch>>

\* A page that hangs does nothing more.
GitNext ==
  /\ outcome.how # "hangs"
  /\ \/ Commit \/ Draw
     \/ \E name \in Branch : CreateBranch(name) \/ Checkout(name) \/ Merge(name)
     \/ \E ref \in Branch \cup {"HEAD"}, count \in 0 .. 2 : Reset(ref, count)

GitSpec == GitInit /\ [][GitNext]_gitVars

-----------------------------------------------------------------------------
\* The commits that can be reached from those of a set, these included, without
\* passing a flagged one: the least set that holds them and with each member
\* its parents.
Reach(from, flagged) ==
  {c \in 1 .. Len(commits) : \A S \in SUBSET (1 .. Len(commits)) :
     (from \ flagged) \ {Null} \subseteq S
     /\ (\A d \in S : (ToSet(commits[d]) \ flagged) \ {Null} \subseteq S) => c \in S}

History(c) == Reach({c}, {})

\* A merge is a fast forward or nothing exactly if one tip is in the history of
\* the other, and nothing is lost: the branch then has both histories.
\* isfastforwardable() may cut its search short by seq because nothing resets
\* that.  Where a reset that threw has left head behind the branch, the merge
\* commit takes what head points to for the branch's own history.
MergeLosesNothing ==
  outcome.op = "merge" /\ outcome.how = "returned" =>
    LET current == outcome.facts[1]
        other == outcome.facts[2]
        headBefore == outcome.facts[3]
        result == Tip(curBranch)
    IN  IF other \in History(current) THEN result = current
        ELSE IF current \in History(other) THEN result = other /\ head = other
        ELSE /\ head = result
             /\ History(result) = {result} \cup History(headBefore) \cup History(other)
             /\ headBefore \in {current, Null}

\* A drawing that ends has one line for each parent of each commit that can be
\* reached without passing one whose line an earlier drawing has flagged; it
\* throws or hangs exactly if a branch, or a parent there, is null: the page
\* hangs only for a commit without a parent that is not the first of the page.
DrawsEveryLine ==
  outcome.op = "draw" =>
    LET lines == outcome.facts[2]
        tips == {branches[i].commit : i \in DOMAIN branches}
        fresh == Reach(tips, outcome.facts[1])
        lateRoots == {c \in fresh \ {1} : commits[c] = << >>}
        broken == {c \in fresh : commits[c] # << >> /\ commits[c][1] = Null}
    IN  /\ outcome.how = "returned" <=> Null \notin tips /\ lateRoots = {} /\ broken = {}
        /\ outcome.how = "hangs" => lateRoots # {}
        /\ IsInjective(lines)
        /\ outcome.how = "returned" =>
             ToSet(lines) = UNION {{<<c, p>> : p \in ToSet(commits[c])} : c \in fresh}
=============================================================================
