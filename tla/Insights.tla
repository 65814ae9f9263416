------------------------------ MODULE Insights ------------------------------
(***************************************************************************)
(* The views computed from conversations: the family of branches with its  *)
(* totals, the commit graph, and the comparison of two conversations.      *)
(***************************************************************************)
EXTENDS Conversations, FiniteSetsExt

-----------------------------------------------------------------------------
\* The family of a conversation.

Above[n \in Nat] ==
  [c \in DOMAIN conversation |->
     IF n = 0 \/ conversation[c].parent = None THEN c ELSE Above[n - 1][conversation[c].parent]]
RootOf(c) == Above[Len(conversation)][c]
Branches(c) == {d \in DOMAIN conversation : conversation[d].parent = c}
Descent[n \in Nat] ==
  [c \in DOMAIN conversation |->
     {c} \cup IF n = 0 THEN {} ELSE UNION {Descent[n - 1][d] : d \in Branches(c)}]

\* Mutant: branches of branches are not collected.
BranchesOnly(c) == {RootOf(c)} \cup Branches(RootOf(c))

Family(c) == Descent[Len(conversation)][RootOf(c)]

Kinds == {"branches", "commits", "messages", "participants"}
Count(kind, c) ==
  CASE kind = "branches" -> 1
    [] kind = "commits" -> Cardinality(CommitsOf(c))
    [] kind = "messages" -> Cardinality(In(c))
    [] kind = "participants" -> Cardinality({u \in Users : Participates(u, c)})

\* The totals of the branch manager, summed up the tree, and those of the
\* overview, summed over the family.
TreeTotal(kind) ==
  LET total[c \in DOMAIN conversation] ==
        Count(kind, c) + MapThenSumSet(LAMBDA d : total[d], Branches(c))
  IN  total
OverviewTotal(kind, c) == MapThenSumSet(LAMBDA d : Count(kind, d), Family(c))

-----------------------------------------------------------------------------
\* The commit graph of a family: each commit after its parent, and the first
\* commit of a branch after the newest of the conversation it starts from.

First(c) == CHOOSE k \in CommitsOf(c) : \A o \in CommitsOf(c) : commit[k].created <= commit[o].created

Shown(c) == {k \in DOMAIN commit : commit[k].conversation \in Family(c)}

ChainEdges(c) == {<<commit[k].parent, k>> : k \in {o \in Shown(c) : commit[o].parent \in Shown(c)}}

ForkEdges(c) ==
  LET forks == {d \in Family(c) : /\ conversation[d].parent # None
                                  /\ CommitsOf(d) # {}
                                  /\ CommitsOf(conversation[d].parent) # {}
                                  /\ commit[First(d)].parent = None}
  IN  {<<Newest(conversation[d].parent), First(d)>> : d \in forks}

Edges(c) == ChainEdges(c) \cup ForkEdges(c)

-----------------------------------------------------------------------------
\* Comparing two conversations: how many messages they begin with in common.

Shared(left, right) ==
  LET l == InOrder(In(left))
      r == InOrder(In(right))
      same(n) == \A i \in 1 .. n : message[l[i]].origin = message[r[i]].origin
      common == {n \in 0 .. Len(l) : n <= Len(r) /\ same(n)}
  IN  CHOOSE n \in common : \A o \in common : o <= n

-----------------------------------------------------------------------------
\* The commit graph of a family is a forest that shows every commit once,
\* after its parent: nothing has two edges in, a commit with a parent has one
\* from it, and there is no cycle, that is, among any commits some has no edge
\* from another of them; although parents are read before other commits are
\* visible.  get_commit_graph mixes the edges of chains and of branches.
CommitGraphIsForest ==
  \A c \in {RootOf(d) : d \in DOMAIN conversation} :
    LET graph == Edges(c) IN
    /\ \A k \in Shown(c) :
         /\ Cardinality({e \in graph : e[2] = k}) <= 1
         /\ commit[k].parent # None => <<commit[k].parent, k>> \in graph
    /\ \A K \in SUBSET Shown(c) :
         K # {} => \E k \in K : \A e \in graph : e[2] = k => e[1] \notin K

\* The branch manager and the overview of a family agree, from whichever of
\* its conversations they are asked for, and every conversation belongs to the
\* one family of its root: walking up and collecting down are inverse.
TotalsAgree ==
  \A c \in DOMAIN conversation :
    /\ c \in Family(c)
    /\ conversation[c].parent = None =>
         /\ \A d \in Family(c) : RootOf(d) = c
         /\ \A kind \in Kinds : TreeTotal(kind)[c] = OverviewTotal(kind, c)

\* A branch begins like the conversation it was made from: compare() finds all
\* its copies in common, as long as nothing has come late, that is, became
\* visible in the original before the branch point after the copies were made.
BranchIsPrefix ==
  \A c \in DOMAIN conversation : conversation[c].parent # None =>
    LET from == conversation[c].parent
        before == UpTo(from, message[conversation[c].point].time)
        copies == {m \in In(c) : message[m].copy}
    IN  (\A m \in before : m <= conversation[c].upto) =>
          /\ Cardinality(copies) = Cardinality(before)
          /\ Shared(from, c) >= Cardinality(copies)
=============================================================================
