------------------------ MODULE BranchMemory_proofs ------------------------
(***************************************************************************)
(* Proofs about BranchMemory, for any repositories, conversations, names   *)
(* and requests.                                                           *)
(***************************************************************************)
EXTENDS BranchMemory, TLAPS, WellFoundedInduction, FiniteSetTheorems, SequenceTheorems

-----------------------------------------------------------------------------
(* A request stays one when a handler sets one of its fields.              *)

\* Setting op: what is asked.
LEMMA SetOp ==
  ASSUME NEW r \in Request, NEW x \in Ops
  PROVE  [r EXCEPT !.op = x] \in Request
BY ZenonT(60) DEF Request

\* Setting pc: where its handler stands.
LEMMA SetPc ==
  ASSUME NEW r \in Request, NEW x \in Pcs
  PROVE  [r EXCEPT !.pc = x] \in Request
BY ZenonT(60) DEF Request

\* Setting conv: the conversation it loaded.
LEMMA SetConv ==
  ASSUME NEW r \in Request, NEW x \in Conversations \cup {None}
  PROVE  [r EXCEPT !.conv = x] \in Request
BY ZenonT(60) DEF Request

\* Setting coding: whether that is a coding conversation.
LEMMA SetCoding ==
  ASSUME NEW r \in Request, NEW x \in BOOLEAN
  PROVE  [r EXCEPT !.coding = x] \in Request
BY ZenonT(60) DEF Request

\* Setting repo: the repository it has read.
LEMMA SetRepo ==
  ASSUME NEW r \in Request, NEW x \in Repositories \cup {None}
  PROVE  [r EXCEPT !.repo = x] \in Request
BY ZenonT(60) DEF Request

\* Setting prev: the repository it came from.
LEMMA SetPrev ==
  ASSUME NEW r \in Request, NEW x \in Repositories \cup {None}
  PROVE  [r EXCEPT !.prev = x] \in Request
BY ZenonT(60) DEF Request

\* Setting new: the conversation it makes.
LEMMA SetNew ==
  ASSUME NEW r \in Request, NEW x \in Conversations \cup {None}
  PROVE  [r EXCEPT !.new = x] \in Request
BY ZenonT(60) DEF Request

\* Setting subject: the conversation it speaks for.
LEMMA SetSubject ==
  ASSUME NEW r \in Request, NEW x \in Conversations \cup {None}
  PROVE  [r EXCEPT !.subject = x] \in Request
BY ZenonT(60) DEF Request

\* Setting target: the repository it goes to.
LEMMA SetTarget ==
  ASSUME NEW r \in Request, NEW x \in Repositories \cup {None}
  PROVE  [r EXCEPT !.target = x] \in Request
BY ZenonT(60) DEF Request

\* Setting branch: its branch.
LEMMA SetBranch ==
  ASSUME NEW r \in Request, NEW x \in BranchIds \cup {NoId}
  PROVE  [r EXCEPT !.branch = x] \in Request
BY ZenonT(60) DEF Request

\* Setting name: the name of a new branch.
LEMMA SetName ==
  ASSUME NEW r \in Request, NEW x \in Names
  PROVE  [r EXCEPT !.name = x] \in Request
BY ZenonT(60) DEF Request

\* Setting default: whether a new branch is the default.
LEMMA SetDefault ==
  ASSUME NEW r \in Request, NEW x \in BOOLEAN
  PROVE  [r EXCEPT !.default = x] \in Request
BY ZenonT(60) DEF Request

\* Setting commit: its commit.
LEMMA SetCommit ==
  ASSUME NEW r \in Request, NEW x \in CommitIds \cup {NoId}
  PROVE  [r EXCEPT !.commit = x] \in Request
BY ZenonT(60) DEF Request

\* Setting package: its package.
LEMMA SetPackage ==
  ASSUME NEW r \in Request, NEW x \in CommitIds \cup {NoId}
  PROVE  [r EXCEPT !.package = x] \in Request
BY ZenonT(60) DEF Request

\* Setting named: whether the caller named the commit.
LEMMA SetNamed ==
  ASSUME NEW r \in Request, NEW x \in BOOLEAN
  PROVE  [r EXCEPT !.named = x] \in Request
BY ZenonT(60) DEF Request

\* Setting seen: the version it has read.
LEMMA SetSeen ==
  ASSUME NEW r \in Request, NEW x \in Nat
  PROVE  [r EXCEPT !.seen = x] \in Request
BY ZenonT(60) DEF Request

\* Setting marks: the branches it will detach or unmark, with what it has read of them.
LEMMA SetMarks ==
  ASSUME NEW r \in Request, NEW x \in Marks
  PROVE  [r EXCEPT !.marks = x] \in Request
BY ZenonT(60) DEF Request

\* Setting created: the timestamp of its commit.
LEMMA SetCreated ==
  ASSUME NEW r \in Request, NEW x \in Nat
  PROVE  [r EXCEPT !.created = x] \in Request
BY ZenonT(60) DEF Request

\* Setting generated: the timestamp of its package.
LEMMA SetGenerated ==
  ASSUME NEW r \in Request, NEW x \in Nat
  PROVE  [r EXCEPT !.generated = x] \in Request
BY ZenonT(60) DEF Request

\* Setting todo: the digests left to rebuild.
LEMMA SetTodo ==
  ASSUME NEW r \in Request, NEW x \in SUBSET BranchIds
  PROVE  [r EXCEPT !.todo = x] \in Request
BY ZenonT(60) DEF Request

\* Setting then: what comes after them.
LEMMA SetThen ==
  ASSUME NEW r \in Request, NEW x \in Pcs
  PROVE  [r EXCEPT !.then = x] \in Request
BY ZenonT(60) DEF Request

\* Setting read: the digest it has read.
LEMMA SetRead ==
  ASSUME NEW r \in Request, NEW x \in Digest
  PROVE  [r EXCEPT !.read = x] \in Request
BY ZenonT(60) DEF Request

-----------------------------------------------------------------------------
\* A request that is given branches to rebuild is one.
LEMMA RebuildingType ==
  ASSUME NEW r \in Request, NEW bs \in SUBSET BranchIds, NEW pc \in Pcs
  PROVE  [r EXCEPT !.pc = "rebuild", !.todo = bs, !.then = pc] \in Request
<1>1. "rebuild" \in Pcs
  BY DEF Pcs
<1>2. [r EXCEPT !.pc = "rebuild"] \in Request
  BY <1>1, SetPc, Zenon
<1>3. [r EXCEPT !.pc = "rebuild", !.todo = bs] \in Request
  BY <1>2, SetTodo, Zenon
<1>. QED
  BY <1>3, SetThen, Zenon

\* So is one that is given branches to detach.
LEMMA DroppingType ==
  ASSUME NEW r \in Request, NEW marks \in Marks
  PROVE  [r EXCEPT !.pc = "drop", !.marks = marks, !.prev = None] \in Request
<1>1. "drop" \in Pcs
  BY DEF Pcs
<1>2. [r EXCEPT !.pc = "drop"] \in Request
  BY <1>1, SetPc, Zenon
<1>3. [r EXCEPT !.pc = "drop", !.marks = marks] \in Request
  BY <1>2, SetMarks, Zenon
<1>. QED
  BY <1>3, SetPrev, Zenon

USE MemoryAssumption

-----------------------------------------------------------------------------
(* Numbers *)

\* A set of natural numbers has a least one.
LEMMA LeastNumber ==
  ASSUME NEW S \in SUBSET Nat, S # {}
  PROVE  \E n \in S : \A m \in S : n <= m
<1>. DEFINE Below == {p \in Nat \X Nat : p[1] < p[2]}
<1>1. IsWellFoundedOn(Below, Nat)
  <2>1. Below = OpToRel(<, Nat)
    BY Zenon DEF OpToRel
  <2>. QED
    BY <2>1, NatLessThanWellFounded, Zenon
<1>2. PICK n \in S : \A m \in S : <<m, n>> \notin Below
  <2>. HIDE DEF Below
  <2>. QED
    BY <1>1, WFMin, Zenon
<1>3. \A m \in S : ~ (m < n)
  BY <1>2
<1>. QED
  BY <1>3

\* A set of natural numbers with a bound has a greatest one.
LEMMA GreatestNumber ==
  ASSUME NEW S \in SUBSET Nat, S # {}, NEW max \in Nat, \A n \in S : n <= max
  PROVE  \E n \in S : \A m \in S : m <= n
<1>. DEFINE Bounds == {n \in Nat : \A m \in S : m <= n}
<1>1. PICK n \in Bounds : \A m \in Bounds : n <= m
  <2>1. Bounds \in SUBSET Nat /\ max \in Bounds
    OBVIOUS
  <2>. HIDE DEF Bounds
  <2>. QED
    BY <2>1, LeastNumber
<1>2. ASSUME n \notin S PROVE FALSE
  <2>1. \A m \in S : m < n
    BY <1>2
  <2>2. PICK m \in S : TRUE
    OBVIOUS
  <2>3. n > 0 /\ n - 1 \in Bounds
    BY <2>1, <2>2
  <2>. QED
    BY <1>1, <2>3
<1>. QED
  BY <1>1, <1>2

-----------------------------------------------------------------------------
(* What queries return *)

LEMMA PrimaryFacts ==
  ASSUME NEW r, ActiveOf(r) # {}
  PROVE  Primary(r) \in ActiveOf(r)
<1>. DEFINE first == IF \E b \in ActiveOf(r) : branch[b].default
                     THEN {b \in ActiveOf(r) : branch[b].default} ELSE ActiveOf(r)
<1>1. first # {} /\ first \subseteq ActiveOf(r) /\ first \in SUBSET Nat
  BY DEF ActiveOf, BranchesOf, BranchIds
<1>2. \E b \in first : \A o \in first : b <= o
  <2>. HIDE DEF first
  <2>. QED
    BY <1>1, LeastNumber
<1>3. (CHOOSE b \in first : \A o \in first : b <= o) \in first
  <2>. HIDE DEF first
  <2>. QED
    BY <1>2, Zenon
<1>. QED
  BY <1>1, <1>3 DEF Primary

\* Among some commits there is one with the greatest of any of their columns.
LEMMA GreatestOf ==
  ASSUME NEW S, S # {}, NEW max \in Nat, NEW f \in [S -> 0 .. max]
  PROVE  \E k \in S : \A o \in S : f[o] <= f[k]
<1>. DEFINE Values == {f[k] : k \in S}
<1>1. Values \in SUBSET Nat /\ Values # {} /\ \A v \in Values : v <= max
  OBVIOUS
<1>2. PICK v \in Values : \A w \in Values : w <= v
  <2>. HIDE DEF Values
  <2>. QED
    BY <1>1, GreatestNumber
<1>. QED
  BY <1>2

\* What is known of the rows of commits.
LEMMA CommitFacts ==
  ASSUME RowsOK, NEW k \in DOMAIN commits
  PROVE  /\ k \in 1 .. Len(commits) /\ Len(commits) \in Nat
         /\ commits[k].conversation \in Conversations
         /\ commits[k].created \in Nat /\ commits[k].generated \in Nat
<1>1. commits \in Seq(CommitRow)
  BY DEF RowsOK
<1>2. commits[k] \in CommitRow /\ k \in 1 .. Len(commits) /\ Len(commits) \in Nat
  BY <1>1
<1>. QED
  BY <1>2 DEF CommitRow

LEMMA NewestFacts ==
  ASSUME RowsOK, StampsSound, clock \in Nat, NEW c
  PROVE  /\ CommitsOf(c) = {} => NewestCommit(c) = NoId /\ NewestPackage(c) = NoId
         /\ CommitsOf(c) # {} =>
              /\ NewestCommit(c) \in CommitsOf(c) /\ NewestPackage(c) \in CommitsOf(c)
              /\ \A k \in CommitsOf(c) :
                   /\ commits[k].created <= commits[NewestCommit(c)].created
                   /\ commits[k].generated <= commits[NewestPackage(c)].generated
         /\ CommitsOf(c) \subseteq 1 .. Len(commits)
         /\ NewestCommit(c) \in 0 .. Len(commits) /\ NewestPackage(c) \in 0 .. Len(commits)
<1>1. CommitsOf(c) \subseteq 1 .. Len(commits) /\ Len(commits) \in Nat
  BY DEF CommitsOf, RowsOK
<1>2. CASE CommitsOf(c) = {}
  BY <1>1, <1>2 DEF NewestCommit, NewestPackage, NoId
<1>3. CASE CommitsOf(c) # {}
  <2>1. \A k \in CommitsOf(c) : commits[k].created \in 0 .. clock /\ commits[k].generated \in 0 .. clock
    BY DEF StampsSound, CommitsOf
  <2>2. \E k \in CommitsOf(c) : \A o \in CommitsOf(c) : commits[o].created <= commits[k].created
    <3>. DEFINE f == [k \in CommitsOf(c) |-> commits[k].created]
    <3>1. f \in [CommitsOf(c) -> 0 .. clock] /\ \A k \in CommitsOf(c) : f[k] = commits[k].created
      BY <2>1
    <3>. HIDE DEF f
    <3>2. PICK k \in CommitsOf(c) : \A o \in CommitsOf(c) : f[o] <= f[k]
      BY <1>3, <3>1, GreatestOf
    <3>. QED
      BY <3>1, <3>2
  <2>3. \E k \in CommitsOf(c) : \A o \in CommitsOf(c) : commits[o].generated <= commits[k].generated
    <3>. DEFINE f == [k \in CommitsOf(c) |-> commits[k].generated]
    <3>1. f \in [CommitsOf(c) -> 0 .. clock] /\ \A k \in CommitsOf(c) : f[k] = commits[k].generated
      BY <2>1
    <3>. HIDE DEF f
    <3>2. PICK k \in CommitsOf(c) : \A o \in CommitsOf(c) : f[o] <= f[k]
      BY <1>3, <3>1, GreatestOf
    <3>. QED
      BY <3>1, <3>2
  <2>4. /\ NewestCommit(c) \in CommitsOf(c)
        /\ \A k \in CommitsOf(c) : commits[k].created <= commits[NewestCommit(c)].created
    BY <1>3, <2>2, Zenon DEF NewestCommit
  <2>5. /\ NewestPackage(c) \in CommitsOf(c)
        /\ \A k \in CommitsOf(c) : commits[k].generated <= commits[NewestPackage(c)].generated
    BY <1>3, <2>3, Zenon DEF NewestPackage
  <2>. QED
    BY <1>1, <1>3, <2>4, <2>5
<1>. QED
  BY <1>2, <1>3

LEMMA RootFacts ==
  ASSUME Families, NEW c \in Conversations
  PROVE  Root(c) \in Lineage(c) /\ Root(c) \in Conversations /\ conversation[Root(c)].parent = None
<1>1. \E a \in Lineage(c) : conversation[a].parent = None
  BY DEF Families
<1>2. Root(c) \in {o \in Lineage(c) : conversation[o].parent = None}
  BY <1>1, Zenon DEF Root
<1>. QED
  BY <1>2 DEF Lineage

\* A request that is over.
LEMMA FreeFacts ==
  /\ Free \in Request /\ Stage(Free) = "free" /\ Free.pc = "free" /\ Free.op = "none"
  /\ Free.conv = None /\ Free.new = None /\ Free.todo = {} /\ Free.commit = NoId
  /\ Free.package = NoId /\ ~Free.named /\ Free.created = 0 /\ Free.generated = 0
BY DEF Free, Request, Stage, Ops, Pcs, Digest, NoDigest, NoId, CommitIds, BranchIds, Marks

-----------------------------------------------------------------------------
(* What may happen to the tables while a request waits *)

\* Branches, commits and conversations only come; a branch may go, lose its
\* default flag, or get one more record; chains of parents stay.
Extended(b) == records'[b] = records[b] \/ \E e \in Record : records'[b] = Append(records[b], e)
Evolves ==
  /\ opened' \in opened .. MaxBranches
  /\ commits' = commits \/ \E row \in CommitRow : commits' = Append(commits, row)
  /\ \A c \in Conversations : conversation[c].exists =>
       conversation'[c].exists /\ Root(c)' = Root(c)
  /\ \A b \in 1 .. opened :
       /\ branch'[b].repository \in {branch[b].repository, None}
       /\ branch'[b].default => branch[b].default
       /\ branch'[b].repository # None => Extended(b)


\* What the tables hold.
LEMMA RowFacts ==
  ASSUME RowsOK
  PROVE  /\ opened \in Nat /\ 1 .. opened \subseteq BranchIds
         /\ commits \in Seq(CommitRow) /\ Len(commits) \in Nat
         /\ \A b \in BranchIds : /\ records[b] \in Seq(Record) /\ Len(records[b]) \in Nat
                                 /\ DOMAIN records[b] = 1 .. Len(records[b])
                                 /\ memory[b].version \in Nat /\ memory[b].latest \in Nat
                                 /\ memory[b].synced \in Nat
                                 /\ branch[b].repository \in Repositories \cup {None}
         /\ \A c \in Conversations : /\ conversation[c].exists \in BOOLEAN
                                     /\ conversation[c].coding \in BOOLEAN
                                     /\ conversation[c].parent \in Conversations \cup {None}
                                     /\ conversation[c].repository \in Repositories \cup {None}
<1>1. opened \in Nat /\ 1 .. opened \subseteq BranchIds
  BY DEF RowsOK, BranchIds
<1>2. commits \in Seq(CommitRow) /\ Len(commits) \in Nat
  BY DEF RowsOK
<1>3. ASSUME NEW b \in BranchIds
      PROVE  /\ records[b] \in Seq(Record) /\ Len(records[b]) \in Nat
             /\ DOMAIN records[b] = 1 .. Len(records[b])
             /\ memory[b].version \in Nat /\ memory[b].latest \in Nat /\ memory[b].synced \in Nat
             /\ branch[b].repository \in Repositories \cup {None}
  BY DEF RowsOK, MemoryRow, BranchRow
<1>4. ASSUME NEW c \in Conversations
      PROVE  /\ conversation[c].exists \in BOOLEAN /\ conversation[c].coding \in BOOLEAN
             /\ conversation[c].parent \in Conversations \cup {None}
             /\ conversation[c].repository \in Repositories \cup {None}
  BY DEF RowsOK, ConversationRow
<1>. QED
  BY <1>1, <1>2, <1>3, <1>4

LEMMA RecordFacts ==
  ASSUME RowsOK, NEW b \in BranchIds, NEW i \in DOMAIN records[b]
  PROVE  /\ records[b][i] \in Record
         /\ records[b][i].commit \in Nat /\ records[b][i].package \in Nat
<1>1. records[b] \in Seq(Record)
  BY RowFacts
<1>2. records[b][i] \in Record
  BY <1>1
<1>. QED
  BY <1>2 DEF Record, CommitIds, NoId

\* A row of a conversation is written as a whole or in a column.
LEMMA ConversationWritten ==
  ASSUME RowsOK, NEW c \in Conversations
  PROVE  /\ conversation[c] \in ConversationRow
         /\ \A x \in Repositories \cup {None} :
              [conversation[c] EXCEPT !.repository = x] \in ConversationRow
         /\ \A x \in BOOLEAN : [conversation[c] EXCEPT !.coding = x] \in ConversationRow
         /\ \A x \in Repositories \cup {None}, y \in BOOLEAN :
              [conversation[c] EXCEPT !.coding = y, !.repository = x] \in ConversationRow
<1>1. PICK row \in ConversationRow : row = conversation[c]
  BY DEF RowsOK
<1>2. \A x \in Repositories \cup {None} : [row EXCEPT !.repository = x] \in ConversationRow
  BY <1>1 DEF ConversationRow
<1>3. \A x \in BOOLEAN : [row EXCEPT !.coding = x] \in ConversationRow
  BY <1>1 DEF ConversationRow
<1>4. \A x \in Repositories \cup {None}, y \in BOOLEAN :
        [row EXCEPT !.coding = y, !.repository = x] \in ConversationRow
  BY <1>1 DEF ConversationRow
<1>. QED
  BY <1>1, <1>2, <1>3, <1>4

LEMMA ConversationRowsKept ==
  ASSUME RowsOK, NEW c \in Conversations, NEW row \in ConversationRow,
         conversation' = [conversation EXCEPT ![c] = row],
         UNCHANGED <<repository, branch, opened, memory, records, commits, digest>>
  PROVE  RowsOK'
BY DEF RowsOK

LEMMA LatestFacts ==
  ASSUME RowsOK, VersionsAgree, NEW b \in BranchIds, BranchExists(b)
  PROVE  /\ Len(records[b]) \in DOMAIN records[b] /\ Len(records[b]) > 0
         /\ memory[b].version = Len(records[b]) /\ memory[b].latest = Len(records[b])
         /\ memory[b].synced = Len(records[b])
         /\ Latest(b) = records[b][Len(records[b])] /\ Latest(b) \in Record
BY RowFacts DEF VersionsAgree, Latest

\* A branch that has been read and has the version that was read has had
\* nothing appended.
LEMMA BranchKept ==
  ASSUME TablesSound, TablesSound', Evolves, NEW b, NEW v \in Nat, Seen(b, v)
  PROVE  /\ Seen(b, v)'
         /\ Current(b, v)' => /\ Current(b, v) /\ records'[b] = records[b]
                              /\ Latest(b)' = Latest(b)
<1>1. b \in BranchIds /\ b \in 1 .. opened /\ b \in 1 .. opened'
  BY RowFacts DEF Seen, TablesSound, TablesOK, Evolves, RowsOK
<1>2. /\ memory[b].version = Len(records[b]) /\ memory[b].latest = memory[b].version
      /\ memory'[b].version = Len(records'[b]) /\ memory'[b].latest = memory'[b].version
  BY <1>1 DEF TablesSound, VersionsAgree
<1>3. records[b] \in Seq(Record) /\ Len(records[b]) \in Nat
  BY <1>1, RowFacts DEF TablesSound, TablesOK
<1>4. ASSUME BranchExists(b)'
      PROVE  /\ BranchExists(b)
             /\ records'[b] = records[b] \/ Len(records'[b]) = Len(records[b]) + 1
  <2>1. BranchExists(b) /\ Extended(b)
    BY <1>1, <1>4 DEF Evolves, BranchExists
  <2>. QED
    BY <1>3, <2>1 DEF Extended
<1>5. Seen(b, v)'
  BY <1>1, <1>2, <1>3, <1>4 DEF Seen
<1>6. ASSUME Current(b, v)'
      PROVE  Current(b, v) /\ records'[b] = records[b]
  <2>1. BranchExists(b)' /\ memory'[b].version = v
    BY <1>6 DEF Current
  <2>2. v <= memory[b].version /\ BranchExists(b)
    BY <1>4, <2>1 DEF Seen
  <2>3. Len(records'[b]) <= Len(records[b])
    BY <1>2, <2>1, <2>2
  <2>4. records'[b] = records[b]
    BY <1>3, <1>4, <2>1, <2>3
  <2>. QED
    BY <1>2, <2>1, <2>2, <2>4 DEF Current
<1>. QED
  BY <1>2, <1>5, <1>6 DEF Current, Latest

\* Records that were there stay where they are.
LEMMA RecordsKept ==
  ASSUME RowsOK, Evolves, NEW b \in 1 .. opened, BranchExists(b)'
  PROVE  /\ BranchExists(b)
         /\ \A i \in DOMAIN records[b] : i \in DOMAIN records'[b] /\ records'[b][i] = records[b][i]
<1>1. BranchExists(b) /\ Extended(b)
  BY DEF Evolves, BranchExists
<1>2. b \in BranchIds /\ records[b] \in Seq(Record)
  BY RowFacts
<1>3. ASSUME NEW e \in Record, records'[b] = Append(records[b], e), NEW i \in DOMAIN records[b]
      PROVE  i \in DOMAIN records'[b] /\ records'[b][i] = records[b][i]
  BY <1>2, <1>3
<1>. QED
  BY <1>1, <1>3 DEF Extended

\* Commits only come, and come last.
LEMMA CommitsKept ==
  ASSUME RowsOK, Evolves, NEW c
  PROVE  /\ Len(commits') \in Nat /\ Len(commits) <= Len(commits')
         /\ CommitsOf(c) \subseteq CommitsOf(c)'
         /\ \A k \in CommitsOf(c)' : k \in Nat /\ (k \notin CommitsOf(c) => k > Len(commits))
         /\ \A k \in CommitsOf(c) : commits'[k] = commits[k]
<1>1. commits \in Seq(CommitRow) /\ Len(commits) \in Nat
  BY RowFacts
<1>2. CASE commits' = commits
  BY <1>1, <1>2 DEF CommitsOf
<1>3. ASSUME NEW row \in CommitRow, commits' = Append(commits, row)
      PROVE  /\ Len(commits') \in Nat /\ Len(commits) <= Len(commits')
             /\ CommitsOf(c) \subseteq CommitsOf(c)'
             /\ \A k \in CommitsOf(c)' : k \in Nat /\ (k \notin CommitsOf(c) => k > Len(commits))
             /\ \A k \in CommitsOf(c) : commits'[k] = commits[k]
  <2>1. Len(commits') = Len(commits) + 1
    BY <1>1, <1>3
  <2>2. /\ DOMAIN commits = 1 .. Len(commits) /\ DOMAIN commits' = 1 .. Len(commits) + 1
        /\ \A k \in 1 .. Len(commits) : commits'[k] = commits[k]
    BY <1>1, <1>3
  <2>. QED
    BY <1>1, <2>1, <2>2 DEF CommitsOf
<1>. QED
  BY <1>2, <1>3 DEF Evolves

LEMMA LoadsKept ==
  ASSUME TablesSound, Evolves, NEW x \in Request, Loads(x)
  PROVE  Loads(x)'
<1>1. x.conv # None => conversation'[x.conv].exists
  BY DEF Loads, Request, Evolves
<1>2. x.commit <= Len(commits')
  <2>1. Len(commits) \in Nat /\ Len(commits') \in Nat /\ Len(commits) <= Len(commits')
    <3>1. RowsOK
      BY DEF TablesSound, TablesOK
    <3>. QED
      BY <3>1, CommitsKept, RowFacts, Zenon
  <2>2. x.commit <= Len(commits) /\ x.commit \in Nat
    BY DEF Loads, Request, CommitIds, NoId
  <2>. QED
    BY <2>1, <2>2
<1>. QED
  BY <1>1, <1>2 DEF Loads

LEMMA PushKnowsKept ==
  ASSUME TablesSound, TablesSound', Evolves, NEW x \in Request, PushKnows(x), BranchKnown(x)
  PROVE  PushKnows(x)'
<1>. SUFFICES ASSUME x.op = "push", Stage(x) \in {"write", "package", "append"}
              PROVE  PushKnows(x)'
  BY DEF PushKnows
<1>1. Seen(x.branch, x.seen) /\ x.seen \in Nat /\ x.branch \in BranchIds
  <2>1. Seen(x.branch, x.seen) /\ x.seen \in Nat
    BY DEF BranchKnown, Request
  <2>. QED
    BY <2>1, RowFacts DEF Seen, TablesSound, TablesOK
<1>2. Current(x.branch, x.seen)' =>
        /\ Current(x.branch, x.seen) /\ Latest(x.branch)' = Latest(x.branch)
        /\ Latest(x.branch).commit \in Nat /\ Latest(x.branch).commit <= Len(commits)
  <2>1. Current(x.branch, x.seen)' => Current(x.branch, x.seen) /\ Latest(x.branch)' = Latest(x.branch)
    BY <1>1, BranchKept
  <2>2. Current(x.branch, x.seen) =>
          Latest(x.branch).commit \in Nat /\ Latest(x.branch).commit <= Len(commits)
    BY <1>1, LatestFacts DEF TablesSound, TablesOK, RecordsSound, Current, Record, CommitIds, NoId
  <2>. QED
    BY <2>1, <2>2
<1>3. /\ CommitsOf(x.subject) \subseteq CommitsOf(x.subject)'
      /\ \A k \in CommitsOf(x.subject)' : k \notin CommitsOf(x.subject) => k > Len(commits)
      /\ \A k \in CommitsOf(x.subject)' : k \in Nat
      /\ \A k \in CommitsOf(x.subject) : commits'[k] = commits[k]
  BY CommitsKept DEF TablesSound, TablesOK
<1>4. Current(x.branch, x.seen)' => /\ ~Detached(x.branch)'
                                    /\ Latest(x.branch)'.conversation = x.subject
  BY <1>2 DEF PushKnows, Detached
<1>5. ASSUME ~x.named, x.commit # NoId
      PROVE  /\ x.commit \in CommitsOf(x.subject)'
             /\ x.pc = "append" =>
                  /\ x.package \in CommitsOf(x.subject)'
                  /\ x.commit # x.package =>
                       commits'[x.commit].generated < commits'[x.package].generated
  BY <1>3, <1>5 DEF PushKnows
<1>6. ASSUME ~x.named, x.pc \in {"package", "append"}, x.commit = NoId, Current(x.branch, x.seen)'
      PROVE  Latest(x.branch)'.commit \notin CommitsOf(x.subject)'
  <2>1. Latest(x.branch).commit \notin CommitsOf(x.subject)
    BY <1>2, <1>6 DEF PushKnows
  <2>2. Len(commits) \in Nat
    BY RowFacts DEF TablesSound, TablesOK
  <2>. QED
    BY <1>2, <1>3, <1>6, <2>1, <2>2
<1>7. ASSUME ~x.named, x.pc = "append", x.commit = NoId, x.package # NoId
      PROVE  x.package \in CommitsOf(x.subject)'
  BY <1>3, <1>7 DEF PushKnows
<1>8. /\ x.subject # None
      /\ ~x.named => (x.pc = "write" => x.commit = NoId) /\ (x.pc # "append" => x.package = NoId)
  BY DEF PushKnows
<1>. QED
  BY <1>4, <1>5, <1>6, <1>7, <1>8 DEF PushKnows

LEMMA BranchKnownKept ==
  ASSUME TablesSound, TablesSound', Evolves, NEW x \in Request, BranchKnown(x),
         Equipped(x), Loads(x)
  PROVE  BranchKnown(x)'
<1>1. ASSUME Stage(x) = "append" \/ (x.op = "push" /\ Stage(x) \in {"write", "package"})
      PROVE  Seen(x.branch, x.seen)'
  BY <1>1, BranchKept DEF BranchKnown, Request
<1>2. ASSUME Stage(x) = "drop", NEW m \in x.marks
      PROVE  /\ Seen(m[1], m[2])'
             /\ Current(m[1], m[2])' => Latest(m[1])'.conversation = Root(x.conv)'
  <2>1. m[2] \in Nat /\ Seen(m[1], m[2])
    BY <1>2 DEF BranchKnown, Request, Marks
  <2>2. Root(x.conv)' = Root(x.conv)
    BY <1>2 DEF Equipped, Loads, Request, Evolves
  <2>. QED
    BY <1>2, <2>1, <2>2, BranchKept DEF BranchKnown
<1>3. ASSUME x.pc = "write", x.op = "branch", NEW m \in x.marks
      PROVE  m[1] <= opened' /\ branch'[m[1]].repository \in {x.target, None}
  <2>1. m[1] \in 1 .. opened /\ branch[m[1]].repository \in {x.target, None}
    BY <1>3, RowFacts DEF BranchKnown, Request, BranchIds, TablesSound, TablesOK, Marks
  <2>2. branch'[m[1]].repository \in {branch[m[1]].repository, None}
    BY <2>1 DEF Evolves
  <2>. QED
    BY <2>1, <2>2, RowFacts DEF Evolves, TablesSound, TablesOK
<1>4. ASSUME x.pc = "write", x.op = "prune"
      PROVE  x.branch \in 1 .. opened' /\ ~branch'[x.branch].default
  <2>1. x.branch \in 1 .. opened /\ ~branch[x.branch].default
    BY <1>4 DEF BranchKnown
  <2>. QED
    BY <2>1, RowFacts DEF Evolves, TablesSound, TablesOK
<1>. QED
  BY <1>1, <1>2, <1>3, <1>4 DEF BranchKnown

LEMMA DigestKnownKept ==
  ASSUME TablesSound, TablesSound', Evolves, NEW x \in Request, DigestKnown(x)
  PROVE  DigestKnown(x)'
<1>1. ASSUME x.pc \in {"rebuild", "publish"}
      PROVE  x.todo \subseteq 1 .. opened'
  BY <1>1, RowFacts DEF DigestKnown, Evolves, TablesSound, TablesOK
<1>2. ASSUME x.pc = "publish", BranchExists(x.branch)'
      PROVE  /\ x.read.sync \in DOMAIN records'[x.branch]
             /\ LET shown == records'[x.branch][x.read.sync] IN
                x.read.commit = IF shown.kind = "detach" THEN NoId ELSE shown.commit
  <2>1. x.branch \in 1 .. opened
    BY <1>2 DEF DigestKnown
  <2>2. /\ BranchExists(x.branch)
        /\ \A i \in DOMAIN records[x.branch] :
             i \in DOMAIN records'[x.branch] /\ records'[x.branch][i] = records[x.branch][i]
    BY <1>2, <2>1, RecordsKept DEF TablesSound, TablesOK
  <2>. QED
    BY <1>2, <2>1, <2>2 DEF DigestKnown
<1>. QED
  BY <1>1, <1>2 DEF DigestKnown

\* What a request knows stays true while others go on.
LEMMA KnowsKept ==
  ASSUME TablesSound, TablesSound', Evolves, NEW x \in Request, Knows(x)
  PROVE  Knows(x)'
<1>1. Equipped(x)'
  <2>1. Equipped(x)' = Equipped(x)
    OBVIOUS
  <2>. QED
    BY <2>1 DEF Knows
<1>. QED
  BY <1>1, LoadsKept, PushKnowsKept, BranchKnownKept, DigestKnownKept DEF Knows

-----------------------------------------------------------------------------
(* Steps of a request *)

\* A conversation one request is about to make is not what another has.
Fresh(s, n) == n.new \in {None, req[s].new} \/ \A t \in Slots \ {s} : req[t].new # n.new

LEMMA RoomKept ==
  ASSUME Len(commits) \in Nat, Len(commits) + Cardinality(Committing) <= MaxCommits,
         NEW s \in Slots, NEW n, req \in [Slots -> Request], req' = [req EXCEPT ![s] = n],
         commits' = commits, ~(n.op = "commit" /\ n.pc \in {"date", "generate", "write"})
  PROVE  Len(commits') + Cardinality(Committing') <= MaxCommits
<1>1. Committing \subseteq Slots /\ Committing' \subseteq Committing
  BY DEF Committing
<1>2. IsFiniteSet(Committing)
  BY <1>1, FS_Subset
<1>3. Cardinality(Committing') <= Cardinality(Committing)
  BY <1>1, <1>2, FS_Subset
<1>4. Cardinality(Committing') \in Nat /\ Cardinality(Committing) \in Nat
  BY <1>1, <1>2, FS_CardinalityType, FS_Subset
<1>. QED
  BY <1>3, <1>4

\* The step of one request, when the tables stay sound: it has to know what it
\* will rely on, and what the others know stays true.
LEMMA RequestStep ==
  ASSUME TypeOK, TablesSound, RequestsKnow, TablesSound', Evolves,
         NEW s \in Slots, NEW n \in Request, req' = [req EXCEPT ![s] = n],
         issued' \in 0 .. MaxRequests, clock' \in Nat, Knows(n)', Fresh(s, n),
         Stage(n) = "write" /\ n.op \in {"fork", "restore"} => ~conversation'[n.new].exists,
         \A c \in Conversations : conversation'[c].exists => conversation[c].exists \/ c = req[s].new,
         \/ commits' = commits /\ ~(n.op = "commit" /\ n.pc \in {"date", "generate", "write"})
         \/ Len(commits') + Cardinality(Committing') <= MaxCommits
  PROVE  Consistent'
<1>1. req' \in [Slots -> Request]
  BY DEF TypeOK
<1>2. \A t \in Slots : req'[t] = IF t = s THEN n ELSE req[t]
  BY DEF TypeOK
<1>3. ASSUME NEW x \in {req[t] : t \in Slots}' PROVE Knows(x)'
  <2>1. PICK t \in Slots : x = req'[t]
    OBVIOUS
  <2>2. CASE t = s
    BY <1>2, <2>1, <2>2
  <2>3. CASE t # s
    <3>1. x \in {req[u] : u \in Slots} /\ x \in Request
      BY <1>2, <2>1, <2>3 DEF TypeOK
    <3>. QED
      BY <3>1, KnowsKept DEF RequestsKnow
  <2>. QED
    BY <2>2, <2>3
<1>4. ASSUME NEW t \in Slots, Stage(req'[t]) = "write", req'[t].op \in {"fork", "restore"}
      PROVE  ~conversation'[req'[t].new].exists
  <2>1. CASE t = s
    BY <1>2, <1>4, <2>1
  <2>2. CASE t # s
    <3>1. ~conversation[req[t].new].exists /\ req[t].new # None /\ req[t] \in Request
      BY <1>2, <1>4, <2>2 DEF RequestsKnow, Knows, Equipped, TypeOK
    <3>2. req[t].new \in Conversations /\ req[t].new # req[s].new
      BY <2>2, <3>1 DEF RequestsKnow, Request
    <3>. QED
      BY <1>2, <2>2, <3>1, <3>2
  <2>. QED
    BY <2>1, <2>2
<1>5. ASSUME NEW t \in Slots, NEW u \in Slots, t # u, req'[t].new # None
      PROVE  req'[t].new # req'[u].new
  BY <1>2, <1>5 DEF RequestsKnow, Fresh
<1>6. Len(commits') + Cardinality(Committing') <= MaxCommits
  BY RoomKept, RowFacts DEF TypeOK, TablesOK, RequestsKnow
<1>7. RequestsKnow'
  BY <1>3, <1>4, <1>5, <1>6 DEF RequestsKnow
<1>. QED
  BY <1>1, <1>7 DEF Consistent, TypeOK, TablesSound

LEMMA TablesUnchanged ==
  ASSUME TablesSound, UNCHANGED tables
  PROVE  TablesSound' /\ Evolves
<1>1. TablesOK'
  BY DEF tables, TablesSound, TablesOK, RowsOK, ReferencesOK
<1>2. VersionsAgree'
  BY DEF tables, TablesSound, VersionsAgree, BranchExists, Latest
<1>3. DigestDescribesRecord'
  BY DEF tables, TablesSound, DigestDescribesRecord
<1>4. Numbered' /\ Families'
  BY DEF tables, TablesSound, Numbered, BranchExists, Families, Lineage
<1>5. RecordsSound'
  BY DEF tables, TablesSound, RecordsSound, CommitsOf
<1>6. \A c \in Conversations : Root(c)' = Root(c)
  BY DEF tables, Root, Lineage
<1>. QED
  BY <1>1, <1>2, <1>3, <1>4, <1>5, <1>6
     DEF tables, Evolves, Extended, TablesSound, TablesOK, RowsOK

\* A step that only reads.
LEMMA ReadStep ==
  ASSUME Consistent, UNCHANGED tables, NEW s \in Slots, NEW n \in Request,
         req' = [req EXCEPT ![s] = n], issued' \in 0 .. MaxRequests, clock' \in Nat, Knows(n), Fresh(s, n),
         Stage(n) = "write" /\ n.op \in {"fork", "restore"} => ~conversation[n.new].exists,
         \/ ~(n.op = "commit" /\ n.pc \in {"date", "generate", "write"})
         \/ Len(commits) + Cardinality(Committing') <= MaxCommits
  PROVE  Consistent'
<1>1. TypeOK /\ TablesSound /\ RequestsKnow
  BY DEF Consistent
<1>2. TablesSound' /\ Evolves
  BY <1>1, TablesUnchanged
<1>3. Knows(n)'
  BY <1>1, <1>2, KnowsKept
<1>4. conversation' = conversation /\ commits' = commits
  BY DEF tables
<1>. QED
  BY <1>1, <1>2, <1>3, <1>4, RequestStep

LEMMA GoFacts ==
  ASSUME TypeOK, NEW s \in Slots, NEW n, Go(s, n)
  PROVE  req' = [req EXCEPT ![s] = n] /\ issued' \in 0 .. MaxRequests /\ clock' \in Nat
BY DEF TypeOK, Go

LEMMA FreeKnows ==
  ASSUME RowsOK
  PROVE  Knows(Free)
<1>1. Equipped(Free) /\ Loads(Free)
  BY FreeFacts, RowFacts DEF Equipped, Loads, NoId
<1>. QED
  BY <1>1, FreeFacts DEF Knows, PushKnows, BranchKnown, DigestKnown

\* The end of a request that wrote nothing in its last transaction.
LEMMA EndStep ==
  ASSUME Consistent, NEW s \in Slots, End(s), UNCHANGED tables
  PROVE  Consistent'
<1>1. req' = [req EXCEPT ![s] = Free] /\ issued' \in 0 .. MaxRequests /\ clock' \in Nat
  BY GoFacts DEF Consistent, End
<1>2. Fresh(s, Free)
  BY FreeFacts DEF Fresh
<1>3. Knows(Free)
  BY FreeKnows DEF Consistent, TypeOK, TablesOK
<1>. QED
  BY <1>1, <1>2, <1>3, FreeFacts, ReadStep

\* A step after which the request goes on, reading only.
LEMMA GoStep ==
  ASSUME Consistent, NEW s \in Slots, NEW n \in Request, Go(s, n), UNCHANGED tables,
         Knows(n), n.new \in {None, req[s].new}, n.pc \notin {"date", "generate", "write"}, n.op \notin {"fork", "restore"} \/ Stage(n) # "write"
  PROVE  Consistent'
<1>1. req' = [req EXCEPT ![s] = n] /\ issued' \in 0 .. MaxRequests /\ clock' \in Nat
  BY GoFacts DEF Consistent
<1>. QED
  BY <1>1, ReadStep DEF Fresh

\* The first step of a request.
LEMMA StartStep ==
  ASSUME Consistent, NEW s \in Slots, NEW n \in Request, Start(s, n), Knows(n), Fresh(s, n),
         Stage(n) = "write" /\ n.op \in {"fork", "restore"} => ~conversation[n.new].exists,
         \/ ~(n.op = "commit" /\ n.pc \in {"date", "generate", "write"})
         \/ Len(commits) + Cardinality(Committing') <= MaxCommits
  PROVE  Consistent'
<1>1. req' = [req EXCEPT ![s] = n] /\ issued' \in 0 .. MaxRequests /\ clock' \in Nat /\ UNCHANGED tables
  BY DEF Consistent, TypeOK, Start
<1>. QED
  BY <1>1, ReadStep

-----------------------------------------------------------------------------
(* Steps that begin a request *)

\* A request that has loaded its conversation and will write next.
LEMMA WriterKnows ==
  ASSUME NEW n \in Request, n.pc \in {"date", "generate", "write"},
         n.op \notin {"push", "branch", "prune"},
         Equipped(n), Loads(n)
  PROVE  Knows(n)
BY DEF Knows, PushKnows, BranchKnown, DigestKnown, Stage

LEMMA LoadedFacts ==
  ASSUME RowsOK, NEW c \in Conversations, NEW op \in Ops
  PROVE  /\ Loaded(op, c) \in Request
         /\ Loaded(op, c).op = op /\ Loaded(op, c).pc = "write" /\ Loaded(op, c).conv = c
         /\ Loaded(op, c).repo = conversation[c].repository
         /\ Loaded(op, c).new = None /\ ~Loaded(op, c).named
         /\ Loaded(op, c).commit = NoId /\ Loaded(op, c).package = NoId
<1>1. /\ "write" \in Pcs /\ conversation[c].coding \in BOOLEAN
      /\ c \in Conversations \cup {None}
      /\ conversation[c].repository \in Repositories \cup {None}
  BY RowFacts DEF Pcs
<1>2. Loaded(op, c) \in Request
  BY <1>1, FreeFacts, SetOp, SetPc, SetConv, SetRepo, SetCoding, Zenon DEF Loaded
<1>3. /\ Loaded(op, c).op = op /\ Loaded(op, c).pc = "write" /\ Loaded(op, c).conv = c
      /\ Loaded(op, c).repo = conversation[c].repository
      /\ Loaded(op, c).new = None /\ ~Loaded(op, c).named
      /\ Loaded(op, c).commit = NoId /\ Loaded(op, c).package = NoId
  BY DEF Loaded, Free
<1>. QED
  BY <1>2, <1>3

LEMMA AttachStep ==
  ASSUME Consistent, NEW s \in Slots, NEW c \in Conversations, NEW r \in Repositories, Attach(s, c, r)
  PROVE  Consistent'
<1>. DEFINE n == [Loaded("attach", c) EXCEPT !.target = r]
<1>1. RowsOK /\ "attach" \in Ops
  BY DEF Consistent, TypeOK, TablesOK, Ops
<1>2. /\ n \in Request /\ n.op = "attach" /\ n.pc = "write" /\ n.conv = c /\ n.target = r
      /\ n.new = None /\ ~n.named /\ n.commit = NoId /\ n.package = NoId
  BY <1>1, LoadedFacts DEF Request
<1>. HIDE DEF n
<1>3. Equipped(n) /\ Loads(n)
  BY <1>1, <1>2, RowFacts DEF Attach, Equipped, Loads, Stage, NoId
<1>4. Knows(n) /\ Fresh(s, n)
  BY <1>2, <1>3, WriterKnows DEF Fresh
<1>5. Start(s, n)
  BY DEF Attach, n
<1>. QED
  BY <1>2, <1>4, <1>5, StartStep

LEMMA DetachStep ==
  ASSUME Consistent, NEW s \in Slots, NEW c \in Conversations, Detach(s, c)
  PROVE  Consistent'
<1>. DEFINE n == Loaded("detach", c)
<1>1. RowsOK /\ "detach" \in Ops
  BY DEF Consistent, TypeOK, TablesOK, Ops
<1>2. /\ n \in Request /\ n.op = "detach" /\ n.pc = "write" /\ n.conv = c
      /\ n.repo = conversation[c].repository
      /\ n.new = None /\ ~n.named /\ n.commit = NoId /\ n.package = NoId
  BY <1>1, LoadedFacts
<1>. HIDE DEF n
<1>3. Equipped(n) /\ Loads(n)
  BY <1>1, <1>2, RowFacts DEF Detach, Equipped, Loads, Stage, NoId
<1>4. Knows(n) /\ Fresh(s, n)
  BY <1>2, <1>3, WriterKnows DEF Fresh
<1>5. Start(s, n)
  BY DEF Detach, n
<1>. QED
  BY <1>2, <1>4, <1>5, StartStep

LEMMA DisableCodingStep ==
  ASSUME Consistent, NEW s \in Slots, NEW c \in Conversations, DisableCoding(s, c)
  PROVE  Consistent'
<1>. DEFINE n == Loaded("disable", c)
<1>1. RowsOK /\ "disable" \in Ops
  BY DEF Consistent, TypeOK, TablesOK, Ops
<1>2. /\ n \in Request /\ n.op = "disable" /\ n.pc = "write" /\ n.conv = c
      /\ n.repo = conversation[c].repository
      /\ n.new = None /\ ~n.named /\ n.commit = NoId /\ n.package = NoId
  BY <1>1, LoadedFacts
<1>. HIDE DEF n
<1>3. Equipped(n) /\ Loads(n)
  BY <1>1, <1>2, RowFacts DEF DisableCoding, Equipped, Loads, Stage, NoId
<1>4. Knows(n) /\ Fresh(s, n)
  BY <1>2, <1>3, WriterKnows DEF Fresh
<1>5. Start(s, n)
  BY DEF DisableCoding, n
<1>. QED
  BY <1>2, <1>4, <1>5, StartStep

LEMMA CreateCommitStep ==
  ASSUME Consistent, NEW s \in Slots, NEW c \in Conversations, CreateCommit(s, c)
  PROVE  Consistent'
<1>. DEFINE n == [Loaded("commit", c) EXCEPT !.pc = "date"]
<1>1. RowsOK /\ "commit" \in Ops /\ "date" \in Pcs
  BY DEF Consistent, TypeOK, TablesOK, Ops, Pcs
<1>2. /\ n \in Request /\ n.op = "commit" /\ n.pc = "date" /\ n.conv = c
      /\ n.new = None /\ ~n.named /\ n.commit = NoId /\ n.package = NoId
  BY <1>1, LoadedFacts DEF Request
<1>. HIDE DEF n
<1>3. Equipped(n) /\ Loads(n)
  BY <1>1, <1>2, RowFacts DEF CreateCommit, Equipped, Loads, Stage, NoId
<1>4. Knows(n) /\ Fresh(s, n)
  BY <1>2, <1>3, WriterKnows DEF Fresh
<1>5. Start(s, n)
  BY DEF CreateCommit, n
<1>6. Len(commits) + Cardinality(Committing') <= MaxCommits
  <2>1. s \notin Committing /\ Committing' = Committing \cup {s} /\ Committing \subseteq Slots
    BY <1>2, <1>5 DEF Start, Committing, At, Consistent, TypeOK
  <2>2. IsFiniteSet(Committing)
    BY <2>1, FS_Subset
  <2>3. Cardinality(Committing) \in Nat /\ Cardinality(Committing') = Cardinality(Committing) + 1
    BY <2>1, <2>2, FS_AddElement, FS_CardinalityType
  <2>4. Len(commits) \in Nat /\ Len(commits) + Cardinality(Committing) < MaxCommits
    BY <1>1, RowFacts DEF CreateCommit
  <2>. QED
    BY <2>3, <2>4
<1>. QED
  BY <1>2, <1>4, <1>5, <1>6, StartStep

LEMMA ForkStep ==
  ASSUME Consistent, NEW s \in Slots, NEW c \in Conversations, NEW new \in Conversations,
         Fork(s, c, new)
  PROVE  Consistent'
<1>. DEFINE n == [Loaded("fork", c) EXCEPT !.new = new]
<1>1. RowsOK /\ "fork" \in Ops
  BY DEF Consistent, TypeOK, TablesOK, Ops
<1>2. /\ n \in Request /\ n.op = "fork" /\ n.pc = "write" /\ n.conv = c /\ n.new = new
      /\ ~n.named /\ n.commit = NoId /\ n.package = NoId
  BY <1>1, LoadedFacts DEF Request
<1>. HIDE DEF n
<1>3. Equipped(n) /\ Loads(n)
  BY <1>1, <1>2, RowFacts DEF Fork, Equipped, Loads, Stage, NoId
<1>4. Knows(n) /\ Fresh(s, n)
  BY <1>2, <1>3, WriterKnows DEF Fresh, Fork
<1>5. Start(s, n) /\ ~conversation[new].exists
  BY DEF Fork, n
<1>. QED
  BY <1>2, <1>4, <1>5, StartStep

LEMMA RestoreStep ==
  ASSUME Consistent, NEW s \in Slots, NEW k \in DOMAIN commits, NEW new \in Conversations,
         Restore(s, k, new)
  PROVE  Consistent'
<1>. DEFINE c == commits[k].conversation
            l == Loaded("restore", c)
            n == [l EXCEPT !.new = new, !.commit = k, !.package = k]
<1>1. RowsOK /\ "restore" \in Ops
  BY DEF Consistent, TypeOK, TablesOK, Ops
<1>2. c \in Conversations /\ k \in CommitIds /\ k <= Len(commits) /\ conversation[c].exists
  BY <1>1, CommitFacts DEF RowsOK, CommitIds, Consistent, TablesSound, Families
<1>. HIDE DEF c
<1>3. /\ n \in Request /\ n.op = "restore" /\ n.pc = "write" /\ n.conv = c /\ n.new = new
      /\ ~n.named /\ n.commit = k /\ n.package = k
  <2>1. l \in Request /\ l.op = "restore" /\ l.pc = "write" /\ l.conv = c /\ ~l.named
    BY <1>1, <1>2, LoadedFacts
  <2>. HIDE DEF l
  <2>2. n \in Request
    <3>1. /\ new \in Conversations \cup {None} /\ k \in CommitIds \cup {NoId}
      BY <1>2
    <3>. QED
      BY <2>1, <3>1, SetNew, SetCommit, SetPackage, Zenon
  <2>3. /\ n.op = "restore" /\ n.pc = "write" /\ n.conv = c /\ n.new = new
        /\ ~n.named /\ n.commit = k /\ n.package = k
    BY <2>1 DEF Request
  <2>. QED
    BY <2>2, <2>3
<1>5. Start(s, n) /\ ~conversation[new].exists
  BY DEF Restore, c
<1>. HIDE DEF n
<1>4. Equipped(n) /\ Loads(n)
  BY <1>2, <1>3 DEF Equipped, Loads, Stage
<1>6. Knows(n) /\ Fresh(s, n)
  BY <1>3, <1>4, WriterKnows DEF Fresh, Restore
<1>. QED
  BY <1>3, <1>5, <1>6, StartStep

LEMMA PushStep ==
  ASSUME Consistent, NEW s \in Slots, NEW b \in BranchIds,
         NEW k \in {NoId} \cup DOMAIN commits, NEW p \in {NoId} \cup DOMAIN commits, Push(s, b, k, p)
  PROVE  Consistent'
<1>. DEFINE subject == Latest(b).conversation
            version == memory[b].version
            repo == branch[b].repository
            named == k # NoId \/ p # NoId
            n == [Free EXCEPT !.op = "push", !.pc = "write", !.branch = b,
                    !.subject = subject, !.seen = version, !.repo = repo, !.commit = k,
                    !.package = p, !.named = named]
<1>1. /\ RowsOK /\ VersionsAgree /\ Numbered /\ BranchExists(b)
      /\ ~Detached(b) /\ subject # None
  BY DEF Consistent, TypeOK, TablesOK, TablesSound, Push
<1>2. subject \in Conversations /\ version \in Nat /\ repo \in Repositories /\ b <= opened
  <2>1. subject \in Conversations
    BY <1>1, LatestFacts DEF Record
  <2>2. version \in Nat /\ repo \in Repositories
    BY <1>1, RowFacts DEF BranchExists
  <2>3. b <= opened
    BY <1>1, RowFacts DEF Numbered, BranchIds
  <2>. QED
    BY <2>1, <2>2, <2>3
<1>3. /\ k \in CommitIds \cup {NoId} /\ p \in CommitIds \cup {NoId} /\ k <= Len(commits)
  BY <1>1 DEF RowsOK, CommitIds, NoId
<1>4. Start(s, n)
  BY DEF Push
<1>. named \in BOOLEAN /\ (~named => k = NoId /\ p = NoId)
  OBVIOUS
<1>. HIDE DEF subject, version, repo, named
<1>5. /\ n \in Request /\ n.op = "push" /\ n.pc = "write" /\ n.conv = None /\ n.new = None
      /\ n.branch = b /\ n.subject = subject /\ n.seen = version
      /\ n.commit = k /\ n.package = p /\ n.named = named
  <2>1. n \in Request
    <3>1. /\ "push" \in Ops /\ "write" \in Pcs /\ b \in BranchIds \cup {NoId}
          /\ subject \in Conversations \cup {None} /\ repo \in Repositories \cup {None}
      BY <1>2 DEF Ops, Pcs
    <3>2. [Free EXCEPT !.op = "push", !.pc = "write", !.branch = b] \in Request
      BY <3>1, FreeFacts, SetOp, SetPc, SetBranch, Zenon
    <3>3. [Free EXCEPT !.op = "push", !.pc = "write", !.branch = b, !.subject = subject,
                       !.seen = version, !.repo = repo] \in Request
      BY <1>2, <3>1, <3>2, SetSubject, SetSeen, SetRepo, Zenon
    <3>. QED
      BY <1>3, <3>3, SetCommit, SetPackage, SetNamed, Zenon
  <2>. QED
    BY <2>1 DEF Free
<1>. HIDE DEF n
<1>6. Equipped(n) /\ Loads(n) /\ DigestKnown(n)
  BY <1>3, <1>5 DEF Equipped, Loads, DigestKnown, Stage
<1>7. BranchKnown(n)
  BY <1>2, <1>5, RowFacts, <1>1 DEF BranchKnown, Stage, Seen, BranchIds, version
<1>8. PushKnows(n)
  BY <1>1, <1>5 DEF PushKnows, Stage, subject
<1>9. Knows(n) /\ Fresh(s, n)
  BY <1>5, <1>6, <1>7, <1>8 DEF Knows, Fresh
<1>. QED
  BY <1>4, <1>5, <1>9, StartStep

\* What is left to rebuild, when there are such branches.
LEMMA RebuildingFacts ==
  ASSUME NEW r \in Request, NEW bs \in SUBSET BranchIds, NEW pc \in Pcs
  PROVE  /\ Rebuilding(r, bs, pc) \in Request
         /\ Rebuilding(r, bs, pc) =
              IF pc = "free"
              THEN IF bs = {} THEN Free ELSE [Free EXCEPT !.pc = "rebuild", !.todo = bs, !.then = pc]
              ELSE IF bs = {} THEN [r EXCEPT !.pc = pc]
                   ELSE [r EXCEPT !.pc = "rebuild", !.todo = bs, !.then = pc]
<1>. "rebuild" \in Pcs
  BY DEF Pcs
<1>1. CASE pc = "free" /\ bs = {}
  BY <1>1, FreeFacts DEF Rebuilding
<1>2. CASE pc = "free" /\ bs # {}
  <2>1. Rebuilding(r, bs, pc) = [Free EXCEPT !.pc = "rebuild", !.todo = bs, !.then = pc]
    BY <1>2, Zenon DEF Rebuilding
  <2>2. [Free EXCEPT !.pc = "rebuild", !.todo = bs, !.then = pc] \in Request
    BY RebuildingType, FreeFacts
  <2>. QED
    BY <1>2, <2>1, <2>2
<1>3. CASE pc # "free" /\ bs = {}
  BY <1>3 DEF Rebuilding, Request
<1>4. CASE pc # "free" /\ bs # {}
  <2>1. Rebuilding(r, bs, pc) = [r EXCEPT !.pc = "rebuild", !.todo = bs, !.then = pc]
    BY <1>4, Zenon DEF Rebuilding
  <2>2. [r EXCEPT !.pc = "rebuild", !.todo = bs, !.then = pc] \in Request
    BY RebuildingType
  <2>. QED
    BY <1>4, <2>1, <2>2
<1>. QED
  BY <1>1, <1>2, <1>3, <1>4

\* A request that has nothing left but digests to rebuild.
LEMMA RebuilderKnows ==
  ASSUME RowsOK, NEW r \in Request, NEW bs \in SUBSET (1 .. opened)
  PROVE  /\ Rebuilding(r, bs, "free") \in Request /\ Knows(Rebuilding(r, bs, "free"))
         /\ Rebuilding(r, bs, "free").new = None
         /\ Rebuilding(r, bs, "free").pc \notin {"date", "generate", "write"} /\ Stage(Rebuilding(r, bs, "free")) = "free"
<1>1. bs \in SUBSET BranchIds /\ "free" \in Pcs
  BY RowFacts DEF Pcs
<1>2. CASE bs = {}
  BY <1>1, <1>2, RebuildingFacts, FreeFacts, FreeKnows
<1>3. CASE bs # {}
  <2>. DEFINE n == [Free EXCEPT !.pc = "rebuild", !.todo = bs, !.then = "free"]
  <2>1. Rebuilding(r, bs, "free") = n /\ n \in Request
    <3>1. Rebuilding(r, bs, "free") = n
      BY <1>3, Zenon DEF Rebuilding
    <3>. HIDE DEF n
    <3>. QED
      BY <1>1, <3>1, RebuildingFacts
  <2>2. /\ n.pc = "rebuild" /\ n.todo = bs /\ n.then = "free" /\ n.op = "none" /\ n.conv = None
        /\ n.new = None /\ ~n.named /\ n.commit = NoId /\ n.package = NoId
    BY DEF Free
  <2>. HIDE DEF n
  <2>3. Equipped(n) /\ Loads(n) /\ Stage(n) = "free"
    BY <2>2, RowFacts DEF Equipped, Loads, Stage, NoId
  <2>4. PushKnows(n) /\ BranchKnown(n) /\ DigestKnown(n)
    BY <2>2 DEF PushKnows, BranchKnown, DigestKnown, Stage
  <2>. QED
    BY <2>1, <2>2, <2>3, <2>4 DEF Knows
<1>. QED
  BY <1>2, <1>3

LEMMA ReadDigestStep ==
  ASSUME Consistent, NEW s \in Slots, NEW b \in BranchIds, ReadDigest(s, b)
  PROVE  Consistent'
<1>. DEFINE n == Rebuilding(Free, {b}, "free")
<1>1. RowsOK /\ {b} \in SUBSET (1 .. opened)
  BY RowFacts DEF Consistent, TypeOK, TablesOK, TablesSound, Numbered, ReadDigest, BranchIds
<1>2. n \in Request /\ Knows(n) /\ n.new = None /\ n.pc \notin {"date", "generate", "write"} /\ Stage(n) = "free"
  BY <1>1, FreeFacts, RebuilderKnows
<1>3. Start(s, n)
  BY DEF ReadDigest
<1>. HIDE DEF n
<1>. QED
  BY <1>2, <1>3, StartStep DEF Fresh

LEMMA CreateBranchStep ==
  ASSUME Consistent, NEW s \in Slots, NEW r \in Repositories, NEW name \in Names,
         NEW default \in BOOLEAN, CreateBranch(s, r, name, default)
  PROVE  Consistent'
<1>. DEFINE marks == IF ~default THEN {}
                     ELSE {<<b, 0>> : b \in {o \in BranchesOf(r) : branch[o].default}}
            n == [Free EXCEPT !.op = "branch", !.pc = "write", !.target = r, !.name = name,
                              !.default = default, !.marks = marks]
<1>1. RowsOK /\ Numbered
  BY DEF Consistent, TypeOK, TablesOK, TablesSound
<1>2. /\ marks \in Marks /\ (~default => marks = {})
      /\ \A m \in marks : m[1] <= opened /\ branch[m[1]].repository = r
  BY <1>1, RowFacts DEF BranchesOf, Numbered, BranchExists, BranchIds, Marks
<1>3. Start(s, n)
  BY DEF CreateBranch
<1>. HIDE DEF marks
<1>4. /\ n \in Request /\ n.op = "branch" /\ n.pc = "write" /\ n.conv = None /\ n.new = None
      /\ n.target = r /\ n.default = default /\ n.marks = marks
      /\ ~n.named /\ n.commit = NoId /\ n.package = NoId
  <2>1. "branch" \in Ops /\ "write" \in Pcs /\ r \in Repositories \cup {None}
    BY DEF Ops, Pcs
  <2>2. [Free EXCEPT !.op = "branch", !.pc = "write", !.target = r] \in Request
    BY <2>1, FreeFacts, SetOp, SetPc, SetTarget, Zenon
  <2>3. n \in Request
    BY <1>2, <2>2, SetName, SetDefault, SetMarks, Zenon
  <2>. QED
    BY <2>3 DEF Free
<1>. HIDE DEF n
<1>5. Equipped(n) /\ Loads(n) /\ PushKnows(n) /\ DigestKnown(n)
  BY <1>1, <1>4, RowFacts DEF Equipped, Loads, PushKnows, DigestKnown, Stage, NoId
<1>6. BranchKnown(n)
  BY <1>2, <1>4 DEF BranchKnown, Stage
<1>. QED
  BY <1>3, <1>4, <1>5, <1>6, StartStep DEF Knows, Fresh

LEMMA DeleteBranchStep ==
  ASSUME Consistent, NEW s \in Slots, NEW b \in BranchIds, DeleteBranch(s, b)
  PROVE  Consistent'
<1>. DEFINE n == [Free EXCEPT !.op = "prune", !.pc = "write", !.branch = b]
<1>1. RowsOK /\ b \in 1 .. opened /\ ~branch[b].default
  BY RowFacts DEF Consistent, TypeOK, TablesOK, TablesSound, Numbered, DeleteBranch, BranchIds
<1>2. Start(s, n)
  BY DEF DeleteBranch
<1>3. /\ n \in Request /\ n.op = "prune" /\ n.pc = "write" /\ n.conv = None /\ n.new = None
      /\ n.branch = b /\ ~n.named /\ n.commit = NoId /\ n.package = NoId
  <2>1. "prune" \in Ops /\ "write" \in Pcs /\ b \in BranchIds \cup {NoId}
    BY DEF Ops, Pcs
  <2>2. n \in Request
    BY <2>1, FreeFacts, SetOp, SetPc, SetBranch, Zenon
  <2>. QED
    BY <2>2 DEF Free
<1>. HIDE DEF n
<1>4. Equipped(n) /\ Loads(n) /\ PushKnows(n) /\ DigestKnown(n) /\ BranchKnown(n)
  BY <1>1, <1>3, RowFacts DEF Equipped, Loads, PushKnows, DigestKnown, BranchKnown, Stage, NoId
<1>. QED
  BY <1>2, <1>3, <1>4, StartStep DEF Knows, Fresh

LEMMA DeleteRepositoryStep ==
  ASSUME Consistent, NEW s \in Slots, NEW r \in Repositories, DeleteRepository(s, r)
  PROVE  Consistent'
<1>. DEFINE n == [Free EXCEPT !.op = "delete", !.pc = "write", !.target = r]
<1>1. RowsOK
  BY DEF Consistent, TypeOK, TablesOK
<1>2. Start(s, n)
  BY DEF DeleteRepository
<1>3. /\ n \in Request /\ n.op = "delete" /\ n.pc = "write" /\ n.conv = None /\ n.new = None
      /\ n.target = r /\ ~n.named /\ n.commit = NoId /\ n.package = NoId
  <2>1. "delete" \in Ops /\ "write" \in Pcs /\ r \in Repositories \cup {None}
    BY DEF Ops, Pcs
  <2>2. n \in Request
    BY <2>1, FreeFacts, SetOp, SetPc, SetTarget, Zenon
  <2>. QED
    BY <2>2 DEF Free
<1>. HIDE DEF n
<1>4. Equipped(n) /\ Loads(n)
  BY <1>1, <1>3, RowFacts DEF Equipped, Loads, Stage, NoId
<1>. QED
  BY <1>2, <1>3, <1>4, WriterKnows, StartStep DEF Fresh

-----------------------------------------------------------------------------
(* Steps that go on reading *)

LEMMA InvFacts ==
  ASSUME Consistent, NEW s \in Slots
  PROVE  /\ RowsOK /\ TypeOK /\ TablesSound /\ RequestsKnow /\ req[s] \in Request
         /\ Knows(req[s]) /\ Equipped(req[s]) /\ Loads(req[s])
         /\ PushKnows(req[s]) /\ BranchKnown(req[s]) /\ DigestKnown(req[s])
BY DEF Consistent, TypeOK, TablesOK, RequestsKnow, Knows

LEMMA StopStep ==
  ASSUME Consistent, NEW s \in Slots, Stop(s)
  PROVE  Consistent'
BY EndStep DEF Stop

LEMMA RefreshStep ==
  ASSUME Consistent, NEW s \in Slots, Refresh(s)
  PROVE  Consistent'
<1>. DEFINE r == req[s]
            repo == conversation[r.conv].repository
            pc == IF r.prev \in {None, r.target} THEN "resolve" ELSE "collect"
            n == [r EXCEPT !.repo = repo, !.target = None, !.pc = pc]
<1>1. r \in Request /\ Equipped(r) /\ Loads(r) /\ r.pc = "refresh" /\ RowsOK
  BY InvFacts DEF Refresh, At
<1>2. r.op = "attach" /\ r.conv \in Conversations /\ repo \in Repositories \cup {None}
  BY <1>1, RowFacts DEF Equipped, Stage, Request
<1>3. pc \in Pcs /\ pc \in {"resolve", "collect"} /\ (pc = "collect" => r.prev # None)
  BY DEF Pcs
<1>4. Go(s, n) /\ UNCHANGED tables
  BY DEF Refresh
<1>. HIDE DEF r, repo, pc
<1>5. n \in Request
  BY <1>1, <1>2, <1>3, SetRepo, SetTarget, SetPc, Zenon
<1>6. /\ n.op = "attach" /\ n.pc = pc /\ n.conv = r.conv /\ n.new = r.new /\ n.prev = r.prev
      /\ n.commit = r.commit /\ n.package = r.package /\ n.named = r.named
  BY <1>1, <1>2 DEF Request
<1>. HIDE DEF n
<1>7. Equipped(n) /\ Loads(n)
  BY <1>1, <1>2, <1>3, <1>6 DEF Equipped, Loads, Stage
<1>8. PushKnows(n) /\ BranchKnown(n) /\ DigestKnown(n)
  BY <1>3, <1>6 DEF PushKnows, BranchKnown, DigestKnown, Stage
<1>. QED
  BY <1>3, <1>4, <1>5, <1>6, <1>7, <1>8, GoStep DEF Knows, r

LEMMA MarkedFacts ==
  ASSUME RowsOK, VersionsAgree, Numbered, NEW root, NEW r \in Repositories
  PROVE  /\ Marked(root, r) \in Marks
         /\ \A m, o \in Marked(root, r) : m[1] = o[1] => m = o
         /\ \A m \in Marked(root, r) : Seen(m[1], m[2]) /\ Latest(m[1]).conversation = root
<1>1. ASSUME NEW b \in BranchesOf(r)
      PROVE  b \in BranchIds /\ memory[b].version \in Nat /\ Seen(b, memory[b].version)
  BY RowFacts DEF BranchesOf, Numbered, BranchExists, Seen, BranchIds
<1>. QED
  BY <1>1 DEF Marked, Marks

LEMMA CollectStep ==
  ASSUME Consistent, NEW s \in Slots, Collect(s)
  PROVE  Consistent'
<1>. DEFINE r == req[s]
            marks == Marked(Root(r.conv), r.prev)
            next == IF r.op = "attach" THEN [r EXCEPT !.pc = "resolve", !.prev = None] ELSE Free
            drop == [r EXCEPT !.pc = "drop", !.marks = marks, !.prev = None]
<1>1. r \in Request /\ Equipped(r) /\ Loads(r) /\ r.pc = "collect" /\ RowsOK
  BY InvFacts DEF Collect, At
<1>2. r.op \in {"attach", "detach"} /\ r.conv # None /\ r.prev \in Repositories
  BY <1>1 DEF Equipped, Stage, Request
<1>3. /\ marks \in Marks
      /\ \A m, o \in marks : m[1] = o[1] => m = o
      /\ \A m \in marks : Seen(m[1], m[2]) /\ Latest(m[1]).conversation = Root(r.conv)
  BY <1>1, <1>2, MarkedFacts DEF Consistent, TablesSound
<1>4. Go(s, IF marks = {} THEN next ELSE drop) /\ UNCHANGED tables
  BY DEF Collect
<1>. HIDE DEF r, marks
<1>5. CASE marks # {}
  <2>1. drop \in Request
    BY <1>1, <1>3, DroppingType
  <2>2. /\ drop.op = r.op /\ drop.pc = "drop" /\ drop.conv = r.conv /\ drop.new = r.new
        /\ drop.marks = marks
        /\ drop.commit = r.commit /\ drop.package = r.package /\ drop.named = r.named
    BY <1>1 DEF Request
  <2>3. Go(s, drop)
    BY <1>4, <1>5
  <2>. HIDE DEF drop
  <2>4. Equipped(drop) /\ Loads(drop)
    BY <1>1, <1>2, <2>2 DEF Equipped, Loads, Stage
  <2>5. PushKnows(drop) /\ BranchKnown(drop) /\ DigestKnown(drop)
    BY <1>2, <1>3, <2>2 DEF PushKnows, BranchKnown, DigestKnown, Stage
  <2>. QED
    BY <1>4, <2>1, <2>2, <2>3, <2>4, <2>5, GoStep DEF Knows, r, Stage
<1>6. CASE marks = {} /\ r.op = "attach"
  <2>. DEFINE n == [r EXCEPT !.pc = "resolve", !.prev = None]
  <2>1. n \in Request
    <3>1. "resolve" \in Pcs
      BY DEF Pcs
    <3>. QED
      BY <1>1, <3>1 DEF Request
  <2>2. /\ n.op = r.op /\ n.pc = "resolve" /\ n.conv = r.conv /\ n.new = r.new
        /\ n.commit = r.commit /\ n.package = r.package /\ n.named = r.named
    BY <1>1 DEF Request
  <2>3. Go(s, n)
    BY <1>4, <1>6
  <2>. HIDE DEF n
  <2>4. Equipped(n) /\ Loads(n)
    BY <1>1, <1>2, <1>6, <2>2 DEF Equipped, Loads, Stage
  <2>5. PushKnows(n) /\ BranchKnown(n) /\ DigestKnown(n)
    BY <1>2, <2>2 DEF PushKnows, BranchKnown, DigestKnown, Stage
  <2>. QED
    BY <1>4, <2>1, <2>2, <2>3, <2>4, <2>5, GoStep DEF Knows, r, Stage
<1>7. CASE marks = {} /\ r.op # "attach"
  BY <1>4, <1>7, EndStep DEF End
<1>. QED
  BY <1>5, <1>6, <1>7

LEMMA ResolveStep ==
  ASSUME Consistent, NEW s \in Slots, Resolve(s)
  PROVE  Consistent'
<1>. DEFINE r == req[s]
            repo == Known(r)
            subject == IF r.op = "restore" THEN r.new ELSE Root(r.conv)
            told == [Free EXCEPT !.op = r.op, !.commit = r.commit, !.package = r.package,
                                 !.subject = subject]
<1>1. r \in Request /\ Equipped(r) /\ Loads(r) /\ r.pc = "resolve" /\ RowsOK /\ Families /\ Numbered
  BY InvFacts DEF Resolve, At, TablesSound
<1>2. /\ r.op \in {"attach", "commit", "fork", "restore"} /\ r.conv \in Conversations
      /\ subject \in Conversations
  BY <1>1, RootFacts DEF Equipped, Stage, Request
<1>3. repo \in Repositories \cup {None}
  BY <1>1, <1>2, RootFacts, RowFacts DEF Known, Request
<1>4. /\ UNCHANGED tables
      /\ \/ End(s)
         \/ /\ repo # None /\ ActiveOf(repo) # {}
            /\ Go(s, [told EXCEPT !.pc = "append", !.branch = Primary(repo),
                                  !.seen = memory[Primary(repo)].version])
         \/ repo # None /\ Go(s, [told EXCEPT !.pc = "open", !.target = repo])
  BY DEF Resolve
<1>5. /\ r.commit \in CommitIds \cup {NoId} /\ r.package = r.commit
      /\ r.op = "attach" => r.commit = NoId
  BY <1>1, <1>2 DEF Equipped, Request
<1>. HIDE DEF r, repo, subject
<1>6. told \in Request
  <2>1. r.op \in Ops /\ r.package \in CommitIds \cup {NoId} /\ subject \in Conversations \cup {None}
    BY <1>2, <1>5 DEF Ops
  <2>. QED
    BY <1>5, <2>1, FreeFacts, SetOp, SetCommit, SetPackage, SetSubject, Zenon
<1>7. /\ told.op = r.op /\ told.conv = None /\ told.new = None /\ told.subject = subject
      /\ told.commit = r.commit /\ told.package = r.package /\ ~told.named
  BY DEF Free
<1>. HIDE DEF told
<1>8. ASSUME repo # None, ActiveOf(repo) # {},
             Go(s, [told EXCEPT !.pc = "append", !.branch = Primary(repo),
                                !.seen = memory[Primary(repo)].version])
      PROVE  Consistent'
  <2>. DEFINE b == Primary(repo)
              version == memory[b].version
              n == [told EXCEPT !.pc = "append", !.branch = b, !.seen = version]
  <2>1. b \in BranchIds /\ BranchExists(b) /\ b \in 1 .. opened /\ version \in Nat
    <3>1. b \in BranchIds /\ branch[b].repository = repo
      BY <1>8, PrimaryFacts DEF ActiveOf, BranchesOf
    <3>2. BranchExists(b) /\ version \in Nat
      BY <1>1, <1>8, <3>1, RowFacts DEF BranchExists
    <3>. QED
      BY <1>1, <3>1, <3>2, RowFacts DEF Numbered, BranchIds
  <2>2. Seen(b, version)
    BY <2>1 DEF Seen
  <2>3. Go(s, n)
    BY <1>8
  <2>. HIDE DEF b, version
  <2>4. n \in Request
    <3>1. "append" \in Pcs /\ b \in BranchIds \cup {NoId}
      BY <2>1 DEF Pcs
    <3>. QED
      BY <1>6, <2>1, <3>1, SetPc, SetBranch, SetSeen, Zenon
  <2>5. /\ n.op = r.op /\ n.pc = "append" /\ n.conv = None /\ n.new = None /\ n.branch = b
        /\ n.seen = version /\ n.subject = subject
        /\ n.commit = r.commit /\ n.package = r.package /\ ~n.named
    BY <1>6, <1>7 DEF Request
  <2>. HIDE DEF n
  <2>6. Equipped(n) /\ Loads(n)
    BY <1>1, <1>2, <1>5, <2>5 DEF Equipped, Loads, Stage
  <2>7. PushKnows(n) /\ BranchKnown(n) /\ DigestKnown(n)
    BY <1>2, <2>2, <2>5 DEF PushKnows, BranchKnown, DigestKnown, Stage
  <2>. QED
    BY <1>4, <2>3, <2>4, <2>5, <2>6, <2>7, GoStep DEF Knows, Stage
<1>9. ASSUME repo # None, Go(s, [told EXCEPT !.pc = "open", !.target = repo])
      PROVE  Consistent'
  <2>. DEFINE n == [told EXCEPT !.pc = "open", !.target = repo]
  <2>1. n \in Request
    <3>1. "open" \in Pcs
      BY DEF Pcs
    <3>. QED
      BY <1>3, <1>6, <3>1, SetPc, SetTarget, Zenon
  <2>2. /\ n.op = r.op /\ n.pc = "open" /\ n.conv = None /\ n.new = None
        /\ n.target = repo /\ n.subject = subject
        /\ n.commit = r.commit /\ n.package = r.package /\ ~n.named
    BY <1>6, <1>7 DEF Request
  <2>3. Go(s, n)
    BY <1>9
  <2>. HIDE DEF n
  <2>4. Equipped(n) /\ Loads(n)
    BY <1>1, <1>2, <1>5, <1>9, <2>2 DEF Equipped, Loads, Stage
  <2>5. PushKnows(n) /\ BranchKnown(n) /\ DigestKnown(n)
    BY <1>2, <2>2 DEF PushKnows, BranchKnown, DigestKnown, Stage
  <2>. QED
    BY <1>4, <2>1, <2>2, <2>3, <2>4, <2>5, GoStep DEF Knows, Stage
<1>. QED
  BY <1>4, <1>8, <1>9, EndStep

LEMMA AfterFailureStep ==
  ASSUME Consistent, NEW s \in Slots, NEW b, UNCHANGED tables,
         req[s].pc \in {"rebuild", "publish"}, Go(s, AfterFailure(req[s], b))
  PROVE  Consistent'
<1>. DEFINE n == Rebuilding(req[s], req[s].todo \ {b}, "free")
<1>1. RowsOK /\ req[s] \in Request /\ req[s].todo \ {b} \in SUBSET (1 .. opened)
  BY InvFacts DEF DigestKnown
<1>2. n \in Request /\ Knows(n) /\ n.new = None /\ n.pc \notin {"date", "generate", "write"} /\ Stage(n) = "free"
  BY <1>1, RebuilderKnows
<1>3. Go(s, n)
  BY DEF AfterFailure
<1>. HIDE DEF n
<1>. QED
  BY <1>2, <1>3, GoStep

LEMMA ReadForDigestStep ==
  ASSUME Consistent, NEW s \in Slots, ReadForDigest(s)
  PROVE  Consistent'
<1>. DEFINE r == req[s]
<1>1. /\ r \in Request /\ Equipped(r) /\ Loads(r) /\ PushKnows(r) /\ BranchKnown(r)
      /\ DigestKnown(r) /\ r.pc = "rebuild" /\ RowsOK /\ VersionsAgree
  BY InvFacts DEF ReadForDigest, At, TablesSound
<1>2. UNCHANGED tables
  BY DEF ReadForDigest
<1>3. PICK b \in r.todo :
        IF BranchExists(b)
        THEN Go(s, [r EXCEPT !.pc = "publish", !.branch = b,
                             !.read = [version |-> digest[b].version,
                                       sync |-> memory[b].synced,
                                       commit |-> Reported(b).commit]])
        ELSE Go(s, AfterFailure(r, b))
  BY DEF ReadForDigest
<1>4. b \in 1 .. opened /\ b \in BranchIds
  BY <1>1, RowFacts DEF DigestKnown
<1>5. CASE ~BranchExists(b)
  BY <1>1, <1>2, <1>3, <1>5, AfterFailureStep
<1>6. CASE BranchExists(b)
  <2>. DEFINE commit == IF Detached(b) THEN NoId ELSE Latest(b).commit
              read == [version |-> digest[b].version, sync |-> memory[b].synced, commit |-> commit]
              n == [r EXCEPT !.pc = "publish", !.branch = b, !.read = read]
  <2>1. /\ Latest(b) \in Record /\ memory[b].synced \in DOMAIN records[b]
        /\ Latest(b) = records[b][memory[b].synced]
    BY <1>1, <1>4, <1>6, LatestFacts
  <2>2. read \in Digest /\ read.sync = memory[b].synced /\ read.commit = commit
    BY <1>1, <1>4, <2>1 DEF Digest, RowsOK, Record
  <2>3. Reported(b).commit = commit
    BY DEF Reported
  <2>4. Go(s, n)
    BY <1>3, <1>6, <2>3
  <2>5. "publish" \in Pcs
    BY DEF Pcs
  <2>. HIDE DEF r, read
  <2>6. n \in Request
    <3>1. b \in BranchIds \cup {NoId}
      BY <1>4
    <3>. QED
      BY <1>1, <2>2, <2>5, <3>1, SetPc, SetBranch, SetRead, Zenon
  <2>7. /\ n.op = r.op /\ n.pc = "publish" /\ n.then = r.then /\ n.conv = r.conv /\ n.new = r.new
        /\ n.subject = r.subject /\ n.todo = r.todo /\ n.branch = b /\ n.read = read
        /\ n.seen = r.seen /\ n.marks = r.marks /\ n.prev = r.prev /\ n.target = r.target
        /\ n.commit = r.commit /\ n.package = r.package /\ n.named = r.named
    BY <1>1 DEF Request
  <2>. HIDE DEF n
  <2>8. Stage(n) = Stage(r) /\ Stage(n) = r.then /\ r.then \in {"free", "append", "resolve"}
    BY <1>1, <2>7 DEF Stage, Equipped
  <2>9. Equipped(n) /\ Loads(n)
    BY <1>1, <2>7, <2>8 DEF Equipped, Loads
  <2>10. DigestKnown(n)
    BY <1>1, <1>3, <1>4, <2>1, <2>2, <2>7 DEF DigestKnown, Detached
  <2>11. r.then = "append" => b = r.branch
    BY <1>1, <1>3 DEF DigestKnown
  <2>12. PushKnows(n)
    BY <1>1, <2>7, <2>8, <2>11 DEF PushKnows
  <2>13. BranchKnown(n)
    BY <1>1, <2>7, <2>8, <2>11 DEF BranchKnown
  <2>. QED
    BY <1>2, <2>4, <2>6, <2>7, <2>8, <2>9, <2>10, <2>12, <2>13, GoStep DEF Knows, r
<1>. QED
  BY <1>5, <1>6

LEMMA PushReadStep ==
  ASSUME Consistent, StampsSound, NEW s \in Slots, PushRead(s)
  PROVE  Consistent'
<1>. DEFINE r == req[s]
            first == NewestCommit(r.subject)
            last == NewestPackage(r.subject)
            commit == IF r.commit = NoId THEN first ELSE r.commit
            package == IF r.package = NoId THEN last ELSE r.package
<1>1. /\ r \in Request /\ Equipped(r) /\ Loads(r) /\ PushKnows(r) /\ BranchKnown(r) /\ RowsOK
      /\ RecordsSound /\ VersionsAgree
  BY InvFacts DEF TablesSound
<1>2. /\ first \in CommitIds \cup {NoId} /\ first <= Len(commits) /\ last \in CommitIds \cup {NoId}
      /\ CommitsOf(r.subject) = {} => first = NoId /\ last = NoId
      /\ CommitsOf(r.subject) # {} =>
           /\ first \in CommitsOf(r.subject) /\ last \in CommitsOf(r.subject)
           /\ \A k \in CommitsOf(r.subject) : commits[k].generated <= commits[last].generated
      /\ NoId \notin CommitsOf(r.subject)
  <2>1. Len(commits) \in 0 .. MaxCommits /\ clock \in Nat
    BY <1>1 DEF RowsOK, Consistent, TypeOK
  <2>2. /\ first \in 0 .. Len(commits) /\ last \in 0 .. Len(commits)
        /\ CommitsOf(r.subject) \subseteq 1 .. Len(commits)
        /\ CommitsOf(r.subject) = {} => first = NoId /\ last = NoId
        /\ CommitsOf(r.subject) # {} =>
             /\ first \in CommitsOf(r.subject) /\ last \in CommitsOf(r.subject)
             /\ \A k \in CommitsOf(r.subject) : commits[k].generated <= commits[last].generated
    BY <1>1, <2>1, NewestFacts
  <2>. QED
    BY <2>1, <2>2 DEF CommitIds, NoId
<1>6. \A k, o \in CommitsOf(r.subject) :
        /\ commits[k].generated \in Nat
        /\ k # o => commits[k].generated # commits[o].generated
  BY <1>1, CommitFacts DEF StampsSound, CommitsOf
<1>3. UNCHANGED tables
  BY DEF PushRead
<1>4. CASE /\ Doing(s, "push", "write")
           /\ Go(s, IF conversation[r.subject].repository # r.repo THEN Free
                    ELSE [r EXCEPT !.pc = "package", !.repo = None,
                            !.commit = IF @ = NoId THEN first ELSE @])
  <2>. DEFINE n == [r EXCEPT !.pc = "package", !.repo = None, !.commit = commit]
  <2>1. r.op = "push" /\ r.pc = "write"
    BY <1>4 DEF Doing
  <2>2. Go(s, Free) \/ Go(s, n)
    BY <1>4
  <2>3. "package" \in Pcs
    BY DEF Pcs
  <2>4. commit \in CommitIds \cup {NoId} /\ commit <= Len(commits)
    BY <1>1, <1>2 DEF Request, Loads
  <2>5. ~r.named => commit = first /\ r.package = NoId
    BY <1>1, <2>1 DEF PushKnows, Stage
  <2>. HIDE DEF r, first, last, commit
  <2>6. n \in Request
    BY <1>1, <2>3, <2>4, SetPc, SetRepo, SetCommit, Zenon
  <2>7. /\ n.op = "push" /\ n.pc = "package" /\ n.conv = r.conv /\ n.new = r.new
        /\ n.subject = r.subject /\ n.branch = r.branch
        /\ n.seen = r.seen /\ n.commit = commit /\ n.package = r.package /\ n.named = r.named
    BY <1>1, <2>1 DEF Request
  <2>. HIDE DEF n
  <2>8. Equipped(n) /\ Loads(n) /\ DigestKnown(n)
    BY <1>1, <2>1, <2>4, <2>7 DEF Equipped, Loads, DigestKnown, Stage
  <2>9. BranchKnown(n)
    BY <1>1, <2>1, <2>7 DEF BranchKnown, Stage
  <2>10. PushKnows(n)
    BY <1>1, <1>2, <2>1, <2>5, <2>7 DEF PushKnows, Stage
  <2>. QED
    BY <1>3, <2>2, <2>6, <2>7, <2>8, <2>9, <2>10, GoStep, EndStep DEF Knows, r, End, Stage
<1>5. CASE /\ At(s, "package")
           /\ Go(s, [r EXCEPT !.pc = "append", !.package = IF @ = NoId THEN last ELSE @])
  <2>. DEFINE n == [r EXCEPT !.pc = "append", !.package = package]
  <2>1. r.op = "push" /\ r.pc = "package"
    BY <1>1, <1>5 DEF At, Equipped, Stage
  <2>2. Go(s, n)
    BY <1>5
  <2>3. "append" \in Pcs
    BY DEF Pcs
  <2>4. package \in CommitIds \cup {NoId}
    BY <1>1, <1>2 DEF Request
  <2>5. ~r.named => package = last
    BY <1>1, <2>1 DEF PushKnows, Stage
  <2>. HIDE DEF r, first, last, package
  <2>6. n \in Request
    BY <1>1, <2>3, <2>4, SetPc, SetPackage, Zenon
  <2>7. /\ n.op = "push" /\ n.pc = "append" /\ n.conv = r.conv /\ n.new = r.new
        /\ n.subject = r.subject /\ n.branch = r.branch
        /\ n.seen = r.seen /\ n.commit = r.commit /\ n.package = package /\ n.named = r.named
    BY <1>1, <2>1 DEF Request
  <2>. HIDE DEF n
  <2>8. Equipped(n) /\ Loads(n) /\ DigestKnown(n)
    BY <1>1, <2>1, <2>7 DEF Equipped, Loads, DigestKnown, Stage, PushKnows
  <2>9. BranchKnown(n)
    BY <1>1, <2>1, <2>7 DEF BranchKnown, Stage
  <2>10. PushKnows(n)
    BY <1>1, <1>2, <1>6, <2>1, <2>5, <2>7 DEF PushKnows, Stage
  <2>. QED
    BY <1>3, <2>2, <2>6, <2>7, <2>8, <2>9, <2>10, GoStep DEF Knows, r, Stage
<1>. QED
  BY <1>4, <1>5 DEF PushRead

LEMMA TakeTimeStep ==
  ASSUME Consistent, NEW s \in Slots, TakeTime(s)
  PROVE  Consistent'
<1>. DEFINE r == req[s]
            now == clock + 1
<1>1. /\ r \in Request /\ Equipped(r) /\ Loads(r) /\ TypeOK /\ r.pc \in {"date", "generate"}
      /\ now \in Nat /\ now # 0
  BY InvFacts DEF TakeTime, At, TypeOK
<1>2. r.op = "commit" /\ r.conv # None
  BY <1>1 DEF Equipped, Stage
<1>3. UNCHANGED tables /\ clock' \in Nat /\ issued' \in 0 .. MaxRequests
  BY <1>1 DEF TakeTime, TypeOK
<1>4. PICK n \in Request :
        /\ req' = [req EXCEPT ![s] = n] /\ n.op = r.op /\ n.conv = r.conv /\ n.new = r.new
        /\ n.commit = r.commit /\ n.package = r.package /\ n.named = r.named
        /\ \/ n.pc = "generate" /\ n.created # 0
           \/ n.pc = "write" /\ n.created # 0 /\ n.generated # 0
  <2>1. CASE r.pc = "date"
    <3>. DEFINE n == [r EXCEPT !.pc = "generate", !.created = now]
    <3>1. n \in Request
      <4>1. "generate" \in Pcs
        BY DEF Pcs
      <4>. QED
        BY <1>1, <4>1, SetPc, SetCreated, Zenon
    <3>2. req' = [req EXCEPT ![s] = n]
      BY <2>1 DEF TakeTime, At
    <3>3. /\ n.pc = "generate" /\ n.created = now /\ n.op = r.op /\ n.conv = r.conv
          /\ n.new = r.new
          /\ n.commit = r.commit /\ n.package = r.package /\ n.named = r.named
      BY <1>1 DEF Request
    <3>. QED
      BY <1>1, <3>1, <3>2, <3>3, Zenon
  <2>2. CASE r.pc = "generate"
    <3>. DEFINE n == [r EXCEPT !.pc = "write", !.generated = now]
    <3>1. n \in Request
      <4>1. "write" \in Pcs
        BY DEF Pcs
      <4>. QED
        BY <1>1, <4>1, SetPc, SetGenerated, Zenon
    <3>2. req' = [req EXCEPT ![s] = n]
      BY <2>2 DEF TakeTime, At
    <3>3. /\ n.pc = "write" /\ n.generated = now /\ n.created = r.created /\ n.op = r.op
          /\ n.conv = r.conv /\ n.new = r.new
          /\ n.commit = r.commit /\ n.package = r.package /\ n.named = r.named
      BY <1>1 DEF Request
    <3>4. r.created # 0
      BY <1>1, <2>2 DEF Equipped
    <3>. QED
      BY <1>1, <3>1, <3>2, <3>3, <3>4, Zenon
  <2>. QED
    BY <1>1, <2>1, <2>2
<1>5. Equipped(n) /\ Loads(n)
  BY <1>1, <1>2, <1>4 DEF Equipped, Loads, Stage
<1>6. Knows(n) /\ Fresh(s, n)
  BY <1>2, <1>4, <1>5, WriterKnows DEF Fresh
<1>7. Committing' = Committing
  BY <1>1, <1>2, <1>4 DEF Committing, TypeOK
<1>8. Len(commits) + Cardinality(Committing') <= MaxCommits
  BY <1>7 DEF Consistent, RequestsKnow
<1>. QED
  BY <1>2, <1>3, <1>4, <1>6, <1>8, ReadStep

-----------------------------------------------------------------------------
(* Steps that write *)

\* A step that writes to the tables and leaves the request knowing what it
\* needs.
LEMMA WriteStep ==
  ASSUME Consistent, TablesSound', Evolves, NEW s \in Slots, NEW n \in Request, Go(s, n),
         Knows(n), n.new \in {None, req[s].new}, n.pc \notin {"date", "generate", "write"}, Stage(n) # "write",
         commits' = commits,
         \A c \in Conversations : conversation'[c].exists => conversation[c].exists \/ c = req[s].new
  PROVE  Consistent'
<1>1. req' = [req EXCEPT ![s] = n] /\ issued' \in 0 .. MaxRequests /\ clock' \in Nat
  BY GoFacts DEF Consistent
<1>2. Knows(n)'
  BY KnowsKept DEF Consistent
<1>. QED
  BY <1>1, <1>2, RequestStep DEF Consistent, Fresh

\* A step that writes and ends the request.
LEMMA LastStep ==
  ASSUME Consistent, TablesSound', Evolves, NEW s \in Slots, End(s), commits' = commits,
         \A c \in Conversations : conversation'[c].exists => conversation[c].exists \/ c = req[s].new
  PROVE  Consistent'
<1>1. Knows(Free)
  BY FreeKnows DEF Consistent, TypeOK, TablesOK
<1>. QED
  BY <1>1, FreeFacts, WriteStep DEF End

\* A request that is one transaction.
LEMMA OnceStep ==
  ASSUME Consistent, TablesSound', Evolves, NEW s \in Slots, Once(s), commits' = commits,
         \A c \in Conversations : conversation'[c].exists => conversation[c].exists
  PROVE  Consistent'
<1>1. PICK n \in Request : n = req[s]
  BY InvFacts
<1>2. req' = [req EXCEPT ![s] = n] /\ issued' \in 0 .. MaxRequests /\ clock' \in Nat /\ n.pc = "free"
  BY <1>1 DEF Consistent, TypeOK, Once, At
<1>3. Knows(n)'
  BY <1>1, KnowsKept DEF Consistent, RequestsKnow
<1>. QED
  BY <1>1, <1>2, <1>3, RequestStep DEF Consistent, Fresh, Stage

\* Chains of parents depend on parents only.
LEMMA SameParents ==
  ASSUME \A c \in Conversations : conversation'[c].parent = conversation[c].parent
  PROVE  \A c \in Conversations : Lineage(c)' = Lineage(c) /\ Root(c)' = Root(c)
<1>1. ASSUME NEW c \in Conversations PROVE Lineage(c)' = Lineage(c)
  <2>1. \A C \in SUBSET Conversations :
          (\A d \in C : conversation'[d].parent \in C \cup {None})
            <=> (\A d \in C : conversation[d].parent \in C \cup {None})
    OBVIOUS
  <2>. QED
    BY <2>1 DEF Lineage
<1>2. ASSUME NEW c \in Conversations PROVE Root(c)' = Root(c)
  <2>1. {o \in Lineage(c) : conversation[o].parent = None}'
          = {o \in Lineage(c) : conversation[o].parent = None}
    BY <1>1 DEF Lineage
  <2>. QED
    BY <2>1, Zenon DEF Root
<1>. QED
  BY <1>1, <1>2

\* What the histories of branches say depends on no conversation.
LEMMA HistoriesUnchanged ==
  ASSUME TablesSound, UNCHANGED <<branch, opened, memory, records, commits, digest>>
  PROVE  /\ VersionsAgree' /\ DigestDescribesRecord' /\ Numbered' /\ RecordsSound'
         /\ \A b \in 1 .. opened :
              /\ branch'[b].repository \in {branch[b].repository, None}
              /\ branch'[b].default => branch[b].default
              /\ branch'[b].repository # None => Extended(b)
         /\ opened' \in opened .. MaxBranches
<1>1. VersionsAgree'
  BY DEF TablesSound, VersionsAgree, BranchExists, Latest
<1>2. DigestDescribesRecord'
  BY DEF TablesSound, DigestDescribesRecord
<1>3. Numbered'
  BY DEF TablesSound, Numbered, BranchExists
<1>4. RecordsSound'
  BY DEF TablesSound, RecordsSound, CommitsOf
<1>5. opened' \in opened .. MaxBranches
  BY DEF TablesSound, TablesOK, RowsOK
<1>. QED
  BY <1>1, <1>2, <1>3, <1>4, <1>5 DEF Extended

LEMMA ConversationsStep ==
  ASSUME TablesSound, TablesOK', UNCHANGED <<branch, opened, memory, records, commits, digest>>,
         \A c \in Conversations : /\ conversation'[c].parent = conversation[c].parent
                                  /\ conversation'[c].exists = conversation[c].exists
  PROVE  TablesSound' /\ Evolves
<1>1. Families'
  <2>1. /\ \A c \in Conversations : Lineage(c)' = Lineage(c) /\ Lineage(c) \subseteq Conversations
        /\ \A c \in Conversations : conversation[c].parent \in Conversations \cup {None}
        /\ \A k \in DOMAIN commits : commits[k].conversation \in Conversations
    BY SameParents, RowFacts, CommitFacts DEF TablesSound, TablesOK, Lineage
  <2>2. \A c \in Conversations : \E a \in Lineage(c)' : conversation'[a].parent = None
    BY <2>1 DEF TablesSound, Families
  <2>. QED
    BY <2>1, <2>2 DEF TablesSound, Families
<1>2. Evolves
  BY SameParents, HistoriesUnchanged DEF Evolves
<1>. QED
  BY <1>1, <1>2, HistoriesUnchanged DEF TablesSound

LEMMA WriteAttachStep ==
  ASSUME Consistent, NEW s \in Slots, WriteAttach(s)
  PROVE  Consistent'
<1>. DEFINE r == req[s]
            n == [r EXCEPT !.pc = "refresh", !.prev = r.repo]
<1>1. /\ r \in Request /\ Equipped(r) /\ Loads(r) /\ r.pc = "write" /\ r.op = "attach" /\ RowsOK
      /\ r.conv \in Conversations /\ r.target \in Repositories
  BY InvFacts DEF WriteAttach, Doing, Equipped, Stage, Request
<1>2. CASE ~RepositoryExists(r.target)
  BY <1>2, EndStep DEF WriteAttach
<1>3. CASE RepositoryExists(r.target)
  <2>1. /\ conversation' = IF r.target = r.repo THEN conversation
                           ELSE [conversation EXCEPT ![r.conv].repository = r.target]
        /\ Go(s, n)
        /\ UNCHANGED <<repository, branch, opened, memory, records, commits, digest>>
    BY <1>3 DEF WriteAttach
  <2>2. TablesOK'
    <3>1. RowsOK'
      <4>1. CASE r.target = r.repo
        BY <1>1, <2>1, <4>1 DEF RowsOK
      <4>2. CASE r.target # r.repo
        BY <1>1, <2>1, <4>2, ConversationWritten, ConversationRowsKept
      <4>. QED
        BY <4>1, <4>2
    <3>2. ReferencesOK'
      BY <1>1, <1>3, <2>1 DEF RowsOK, ReferencesOK, RepositoryExists, Consistent, TypeOK, TablesOK
    <3>. QED
      BY <3>1, <3>2 DEF TablesOK
  <2>3. \A c \in Conversations : /\ conversation'[c].parent = conversation[c].parent
                                 /\ conversation'[c].exists = conversation[c].exists
    BY <1>1, <2>1 DEF RowsOK
  <2>4. TablesSound' /\ Evolves
    BY <2>1, <2>2, <2>3, ConversationsStep DEF Consistent
  <2>5. n \in Request
    <3>1. "refresh" \in Pcs
      BY DEF Pcs
    <3>. QED
      BY <1>1, <3>1 DEF Request
  <2>. HIDE DEF r
  <2>6. /\ n.op = "attach" /\ n.pc = "refresh" /\ n.conv = r.conv /\ n.new = r.new
        /\ n.commit = r.commit /\ n.package = r.package /\ n.named = r.named
    BY <1>1 DEF Request
  <2>. HIDE DEF n
  <2>7. Equipped(n) /\ Loads(n) /\ PushKnows(n) /\ BranchKnown(n) /\ DigestKnown(n)
    BY <1>1, <2>6 DEF Equipped, Loads, PushKnows, BranchKnown, DigestKnown, Stage
  <2>. QED
    BY <2>1, <2>3, <2>4, <2>5, <2>6, <2>7, WriteStep DEF Knows, Stage, r
<1>. QED
  BY <1>2, <1>3

LEMMA WriteDetachStep ==
  ASSUME Consistent, NEW s \in Slots, WriteDetach(s)
  PROVE  Consistent'
<1>. DEFINE r == req[s]
            n == [r EXCEPT !.pc = "collect", !.prev = r.repo]
<1>1. /\ r \in Request /\ Equipped(r) /\ Loads(r) /\ r.pc = "write" /\ r.op = "detach" /\ RowsOK
      /\ r.conv \in Conversations /\ r.repo # None
  BY InvFacts DEF WriteDetach, Doing, Equipped, Stage, Request
<1>2. /\ conversation' = [conversation EXCEPT ![r.conv].repository = None]
      /\ Go(s, n)
      /\ UNCHANGED <<repository, branch, opened, memory, records, commits, digest>>
  BY DEF WriteDetach
<1>3. TablesOK'
  <2>1. RowsOK'
    BY <1>1, <1>2, ConversationWritten, ConversationRowsKept
  <2>2. ReferencesOK'
    BY <1>1, <1>2 DEF RowsOK, ReferencesOK, Consistent, TypeOK, TablesOK
  <2>. QED
    BY <2>1, <2>2 DEF TablesOK
<1>4. \A c \in Conversations : /\ conversation'[c].parent = conversation[c].parent
                               /\ conversation'[c].exists = conversation[c].exists
  BY <1>1, <1>2 DEF RowsOK
<1>5. TablesSound' /\ Evolves
  BY <1>2, <1>3, <1>4, ConversationsStep DEF Consistent
<1>6. n \in Request
  <2>1. "collect" \in Pcs
    BY DEF Pcs
  <2>. QED
    BY <1>1, <2>1 DEF Request
<1>. HIDE DEF r
<1>7. /\ n.op = "detach" /\ n.pc = "collect" /\ n.conv = r.conv /\ n.new = r.new /\ n.prev = r.repo
      /\ n.commit = r.commit /\ n.package = r.package /\ n.named = r.named
  BY <1>1 DEF Request
<1>. HIDE DEF n
<1>8. Equipped(n) /\ Loads(n) /\ PushKnows(n) /\ BranchKnown(n) /\ DigestKnown(n)
  BY <1>1, <1>7 DEF Equipped, Loads, PushKnows, BranchKnown, DigestKnown, Stage
<1>. QED
  BY <1>2, <1>4, <1>5, <1>6, <1>7, <1>8, WriteStep DEF Knows, Stage, r

LEMMA WriteDisableStep ==
  ASSUME Consistent, NEW s \in Slots, WriteDisable(s)
  PROVE  Consistent'
<1>. DEFINE r == req[s]
            left == IF r.repo = None THEN conversation[r.conv].repository ELSE None
            row == [conversation[r.conv] EXCEPT !.coding = FALSE, !.repository = left]
<1>1. r \in Request /\ Equipped(r) /\ r.pc = "write" /\ r.op = "disable" /\ RowsOK /\ r.conv \in Conversations
  BY InvFacts DEF WriteDisable, Doing, Equipped, Stage, Request
<1>2. /\ conversation' = [conversation EXCEPT ![r.conv].coding = FALSE,
           ![r.conv].repository = IF r.repo = None THEN @ ELSE None]
      /\ End(s)
      /\ UNCHANGED <<repository, branch, opened, memory, records, commits, digest>>
  BY DEF WriteDisable
<1>3. left \in {conversation[r.conv].repository, None} /\ left \in Repositories \cup {None}
  BY <1>1, RowFacts
<1>4. conversation[r.conv] \in ConversationRow /\ row \in ConversationRow
  BY <1>1, <1>3, ConversationWritten
<1>5. row.parent = conversation[r.conv].parent /\ row.exists = conversation[r.conv].exists
      /\ row.repository = left
  BY <1>4 DEF ConversationRow
<1>6. conversation' = [conversation EXCEPT ![r.conv] = row]
  BY <1>1, <1>2 DEF RowsOK
<1>. HIDE DEF r, row, left
<1>7. \A c \in Conversations : conversation'[c] = IF c = r.conv THEN row ELSE conversation[c]
  BY <1>1, <1>6 DEF RowsOK
<1>8. \A c \in Conversations : /\ conversation'[c].parent = conversation[c].parent
                               /\ conversation'[c].exists = conversation[c].exists
                               /\ conversation'[c].repository \in {conversation[c].repository, None}
  BY <1>3, <1>5, <1>7
<1>9. TablesOK'
  <2>1. RowsOK'
    BY <1>1, <1>2, <1>4, <1>6, ConversationRowsKept
  <2>2. ReferencesOK'
    BY <1>2, <1>8 DEF ReferencesOK, Consistent, TypeOK, TablesOK
  <2>. QED
    BY <2>1, <2>2 DEF TablesOK
<1>10. TablesSound' /\ Evolves
  BY <1>2, <1>8, <1>9, ConversationsStep DEF Consistent
<1>. QED
  BY <1>2, <1>8, <1>10, LastStep

LEMMA EnableCodingStep ==
  ASSUME Consistent, NEW s \in Slots, NEW c \in Conversations, EnableCoding(s, c)
  PROVE  Consistent'
<1>1. /\ conversation' = [conversation EXCEPT ![c].coding = TRUE] /\ RowsOK /\ ReferencesOK /\ Once(s)
      /\ UNCHANGED <<repository, branch, opened, memory, records, commits, digest>>
  BY InvFacts DEF EnableCoding, TypeOK, TablesOK
<1>2. \A d \in Conversations : /\ conversation'[d].parent = conversation[d].parent
                               /\ conversation'[d].exists = conversation[d].exists
  BY <1>1 DEF RowsOK
<1>3. TablesOK'
  <2>1. RowsOK'
    BY <1>1, ConversationWritten, ConversationRowsKept
  <2>2. ReferencesOK'
    BY <1>1 DEF RowsOK, ReferencesOK
  <2>. QED
    BY <2>1, <2>2 DEF TablesOK
<1>4. TablesSound' /\ Evolves
  BY <1>1, <1>2, <1>3, ConversationsStep DEF Consistent
<1>. QED
  BY <1>1, <1>2, <1>4, OnceStep

\* A conversation that is made, on its own or branched off one that is there,
\* leaves the chains of the others as they are.
LEMMA BirthLineage ==
  ASSUME RowsOK, Families, NEW new \in Conversations, ~conversation[new].exists,
         NEW row \in ConversationRow, conversation' = [conversation EXCEPT ![new] = row],
         row.parent = None \/ conversation[row.parent].exists
  PROVE  /\ \A c \in Conversations \ {new} : Lineage(c)' = Lineage(c) /\ new \notin Lineage(c)
         /\ \E a \in Lineage(new)' : conversation'[a].parent = None
<1>. DEFINE Closed(C) == \A d \in C : conversation[d].parent \in C \cup {None}
            ClosedNext(C) == \A d \in C : conversation'[d].parent \in C \cup {None}
<1>1. /\ \A c \in Conversations : conversation'[c] = IF c = new THEN row ELSE conversation[c]
      /\ conversation[new].parent = None
      /\ \A c \in Conversations : conversation[c].parent # new
      /\ row.parent \in Conversations \cup {None} /\ row.parent # new
  BY DEF RowsOK, Families, ConversationRow
<1>2. \A C \in SUBSET Conversations : ClosedNext(C) => Closed(C)
  BY <1>1
<1>3. \A C \in SUBSET Conversations : Closed(C) => Closed(C \ {new}) /\ ClosedNext(C \ {new})
  BY <1>1
<1>4. \A c \in Conversations :
        /\ Lineage(c) = {a \in Conversations :
             \A C \in SUBSET Conversations : (c \in C /\ Closed(C)) => a \in C}
        /\ Lineage(c)' = {a \in Conversations :
             \A C \in SUBSET Conversations : (c \in C /\ ClosedNext(C)) => a \in C}
  BY DEF Lineage
<1>5. Closed(Conversations)
  BY RowFacts
<1>6. \A C \in SUBSET Conversations : ClosedNext(C) /\ new \in C /\ row.parent # None => row.parent \in C
  BY <1>1
<1>. HIDE DEF Closed, ClosedNext
<1>7. ASSUME NEW c \in Conversations \ {new}
      PROVE  Lineage(c)' = Lineage(c) /\ new \notin Lineage(c)
  <2>1. ASSUME NEW a \in Lineage(c) PROVE a \in Lineage(c)'
    BY <1>2, <1>4
  <2>2. ASSUME NEW a \in Lineage(c)' PROVE a \in Lineage(c)
    <3>1. ASSUME NEW C \in SUBSET Conversations, c \in C, Closed(C) PROVE a \in C
      <4>1. C \ {new} \in SUBSET Conversations /\ c \in C \ {new} /\ ClosedNext(C \ {new})
        BY <1>3, <3>1
      <4>2. a \in C \ {new}
        BY <1>4, <2>2, <4>1
      <4>. QED
        BY <4>2
    <3>. QED
      BY <1>4, <2>2, <3>1
  <2>3. new \notin Lineage(c)
    <3>1. Conversations \ {new} \in SUBSET Conversations /\ Closed(Conversations \ {new})
      BY <1>3, <1>5
    <3>. QED
      BY <1>4, <3>1
  <2>4. Lineage(c) \subseteq Conversations /\ Lineage(c)' \subseteq Conversations
    BY <1>4
  <2>. QED
    BY <2>1, <2>2, <2>3
<1>8. \E a \in Lineage(new)' : conversation'[a].parent = None
  <2>1. CASE row.parent = None
    <3>1. new \in Lineage(new)'
      BY <1>4
    <3>. QED
      BY <1>1, <2>1, <3>1
  <2>2. CASE row.parent # None
    <3>1. PICK a \in Lineage(row.parent) : conversation[a].parent = None
      BY <1>1, <2>2 DEF Families
    <3>2. a \in Lineage(new)'
      <4>1. ASSUME NEW C \in SUBSET Conversations, new \in C, ClosedNext(C) PROVE a \in C
        <5>1. row.parent \in C /\ Closed(C)
          BY <1>2, <1>6, <2>2, <4>1
        <5>. QED
          BY <1>1, <1>4, <2>2, <3>1, <5>1
      <4>2. a \in Conversations
        BY <1>1, <1>4, <2>2, <3>1
      <4>. QED
        BY <1>4, <4>1, <4>2
    <3>3. a \in Conversations /\ a # new
      BY <1>1, <1>4, <1>7, <2>2, <3>1
    <3>. QED
      BY <1>1, <3>1, <3>2, <3>3
  <2>. QED
    BY <2>1, <2>2
<1>. QED
  BY <1>7, <1>8

LEMMA BirthStep ==
  ASSUME TablesSound, NEW new \in Conversations, ~conversation[new].exists,
         NEW row \in ConversationRow, conversation' = [conversation EXCEPT ![new] = row],
         row.exists, row.parent = None \/ conversation[row.parent].exists,
         row.repository # None => RepositoryExists(row.repository),
         UNCHANGED <<repository, branch, opened, memory, records, commits, digest>>
  PROVE  /\ TablesSound' /\ Evolves
         /\ \A c \in Conversations : conversation'[c].exists => conversation[c].exists \/ c = new
<1>1. RowsOK /\ ReferencesOK /\ Families
  BY DEF TablesSound, TablesOK
<1>2. \A c \in Conversations : conversation'[c] = IF c = new THEN row ELSE conversation[c]
  BY <1>1 DEF RowsOK
<1>3. RowsOK'
  BY <1>1, ConversationRowsKept
<1>4. ReferencesOK'
  BY <1>1, <1>2 DEF ReferencesOK, RepositoryExists
<1>5. /\ \A c \in Conversations \ {new} : Lineage(c)' = Lineage(c) /\ new \notin Lineage(c)
      /\ \E a \in Lineage(new)' : conversation'[a].parent = None
  BY <1>1, BirthLineage
<1>6. Families'
  <2>1. ASSUME NEW c \in Conversations
        PROVE  \E a \in Lineage(c)' : conversation'[a].parent = None
    <3>1. CASE c = new
      BY <1>5, <3>1
    <3>2. CASE c # new
      <4>1. PICK a \in Lineage(c) : conversation[a].parent = None
        BY <1>1 DEF Families
      <4>2. a \in Lineage(c)' /\ a # new /\ a \in Conversations
        BY <1>5, <3>2, <4>1 DEF Lineage
      <4>. QED
        BY <1>2, <4>1, <4>2
    <3>. QED
      BY <3>1, <3>2
  <2>2. ASSUME NEW c \in Conversations
        PROVE  /\ ~conversation'[c].exists => conversation'[c].parent = None
               /\ conversation'[c].parent # None => conversation'[conversation'[c].parent].exists
    <3>1. /\ conversation[c].parent \in Conversations \cup {None}
          /\ row.parent \in Conversations \cup {None}
      BY <1>1, RowFacts DEF ConversationRow
    <3>. QED
      BY <1>1, <1>2, <3>1 DEF Families
  <2>3. \A k \in DOMAIN commits : conversation'[commits[k].conversation].exists
    <3>1. \A k \in DOMAIN commits : commits[k].conversation \in Conversations
      BY <1>1, CommitFacts
    <3>. QED
      BY <1>1, <1>2, <3>1 DEF Families
  <2>. QED
    BY <2>1, <2>2, <2>3 DEF Families
<1>7. ASSUME NEW c \in Conversations, conversation[c].exists
      PROVE  conversation'[c].exists /\ Root(c)' = Root(c)
  <2>1. c # new /\ conversation'[c].exists
    BY <1>2, <1>7
  <2>2. {o \in Lineage(c) : conversation[o].parent = None}'
          = {o \in Lineage(c) : conversation[o].parent = None}
    <3>1. Lineage(c)' = Lineage(c) /\ \A o \in Lineage(c) : o \in Conversations /\ o # new
      BY <1>5, <2>1 DEF Lineage
    <3>. QED
      BY <1>2, <3>1
  <2>3. Root(c)' = Root(c)
    BY <2>2, Zenon DEF Root
  <2>. QED
    BY <2>1, <2>3
<1>8. Evolves
  BY <1>7, HistoriesUnchanged DEF Evolves
<1>. QED
  BY <1>2, <1>3, <1>4, <1>6, <1>8, HistoriesUnchanged DEF TablesSound, TablesOK

\* A request that has made its conversation goes on to resolve.
LEMMA ResolverKnows ==
  ASSUME NEW r \in Request, Equipped(r), Loads(r), r.pc = "write", r.op \in {"fork", "restore"}
  PROVE  /\ [r EXCEPT !.pc = "resolve"] \in Request /\ Knows([r EXCEPT !.pc = "resolve"])
         /\ [r EXCEPT !.pc = "resolve"].new = r.new
         /\ [r EXCEPT !.pc = "resolve"].pc \notin {"date", "generate", "write"} /\ Stage([r EXCEPT !.pc = "resolve"]) # "write"
<1>. DEFINE n == [r EXCEPT !.pc = "resolve"]
<1>1. n \in Request
  <2>1. "resolve" \in Pcs
    BY DEF Pcs
  <2>. QED
    BY <2>1 DEF Request
<1>2. /\ n.op = r.op /\ n.pc = "resolve" /\ n.conv = r.conv /\ n.new = r.new
      /\ n.commit = r.commit /\ n.package = r.package /\ n.named = r.named
  BY DEF Request
<1>. HIDE DEF n
<1>3. Equipped(n) /\ Loads(n) /\ PushKnows(n) /\ BranchKnown(n) /\ DigestKnown(n) /\ Stage(n) = "resolve"
  BY <1>2 DEF Equipped, Loads, PushKnows, BranchKnown, DigestKnown, Stage
<1>. QED
  BY <1>1, <1>2, <1>3 DEF Knows, n

LEMMA WriteForkStep ==
  ASSUME Consistent, NEW s \in Slots, WriteFork(s)
  PROVE  Consistent'
<1>. DEFINE r == req[s]
            row == [exists |-> TRUE, parent |-> r.conv, coding |-> r.coding, repository |-> r.repo]
            n == [r EXCEPT !.pc = "resolve"]
<1>1. /\ r \in Request /\ Equipped(r) /\ Loads(r) /\ r.pc = "write" /\ r.op = "fork"
      /\ r.new \in Conversations /\ r.conv \in Conversations /\ ~conversation[r.new].exists
      /\ conversation[r.conv].exists
  BY InvFacts DEF WriteFork, Doing, Equipped, Loads, Stage, Request, RequestsKnow
<1>2. CASE End(s) /\ UNCHANGED tables
  BY <1>2, EndStep
<1>3. CASE /\ r.repo \in {None} \cup {o \in Repositories : RepositoryExists(o)}
           /\ conversation' = [conversation EXCEPT ![r.new] = row]
           /\ Go(s, IF r.repo = None THEN Free ELSE n)
           /\ UNCHANGED <<repository, branch, opened, memory, records, commits, digest>>
  <2>1. row \in ConversationRow /\ row.exists /\ row.parent = r.conv /\ row.repository = r.repo
    BY <1>1 DEF ConversationRow, Request
  <2>2. /\ TablesSound' /\ Evolves
        /\ \A c \in Conversations : conversation'[c].exists => conversation[c].exists \/ c = r.new
    BY <1>1, <1>3, <2>1, BirthStep DEF Consistent
  <2>3. CASE r.repo = None
    BY <1>3, <2>2, <2>3, LastStep DEF End
  <2>4. CASE r.repo # None
    <3>1. Go(s, n)
      BY <1>3, <2>4
    <3>. QED
      BY <1>1, <1>3, <2>2, <3>1, ResolverKnows, WriteStep
  <2>. QED
    BY <2>3, <2>4
<1>. QED
  BY <1>2, <1>3 DEF WriteFork

LEMMA WriteRestoreStep ==
  ASSUME Consistent, NEW s \in Slots, WriteRestore(s)
  PROVE  Consistent'
<1>. DEFINE r == req[s]
            n == [r EXCEPT !.pc = "resolve"]
<1>1. /\ r \in Request /\ Equipped(r) /\ Loads(r) /\ r.pc = "write" /\ r.op = "restore"
      /\ r.new \in Conversations /\ ~conversation[r.new].exists
  BY InvFacts DEF WriteRestore, Doing, Equipped, Loads, Stage, Request, RequestsKnow
<1>2. /\ conversation' = [conversation EXCEPT ![r.new] = NewConversation]
      /\ Go(s, n)
      /\ UNCHANGED <<repository, branch, opened, memory, records, commits, digest>>
  BY DEF WriteRestore
<1>3. /\ NewConversation \in ConversationRow /\ NewConversation.exists
      /\ NewConversation.parent = None /\ NewConversation.repository = None
  BY DEF NewConversation, ConversationRow
<1>4. /\ TablesSound' /\ Evolves
      /\ \A c \in Conversations : conversation'[c].exists => conversation[c].exists \/ c = r.new
  BY <1>1, <1>2, <1>3, BirthStep DEF Consistent
<1>. QED
  BY <1>1, <1>2, <1>4, ResolverKnows, WriteStep

-----------------------------------------------------------------------------
(* Commits and repositories *)

LEMMA WriteCommitStep ==
  ASSUME Consistent, NEW s \in Slots, WriteCommit(s)
  PROVE  Consistent'
<1>. DEFINE r == req[s]
            k == Len(commits) + 1
            row == [conversation |-> r.conv, created |-> r.created, generated |-> r.generated]
            m == [r EXCEPT !.pc = "resolve", !.commit = k, !.package = k,
                           !.created = 0, !.generated = 0]
<1>1. /\ r \in Request /\ Equipped(r) /\ Loads(r) /\ r.pc = "write" /\ r.op = "commit"
      /\ r.conv \in Conversations /\ RowsOK /\ ReferencesOK /\ TablesSound /\ conversation[r.conv].exists
  BY InvFacts DEF WriteCommit, Doing, Equipped, Loads, Stage, Request, TypeOK, TablesOK
<1>2. /\ commits' = Append(commits, row) /\ Go(s, m)
      /\ UNCHANGED <<repository, conversation, branch, opened, memory, records, digest>>
  BY DEF WriteCommit
<1>3. Len(commits) \in Nat /\ commits \in Seq(CommitRow) /\ k \in Nat /\ row \in CommitRow
  BY <1>1, RowFacts DEF CommitRow, Request
<1>4. /\ Len(commits) + Cardinality(Committing) <= MaxCommits
      /\ s \in Committing /\ IsFiniteSet(Committing)
      /\ Cardinality(Committing) \in Nat
      /\ Cardinality(Committing \ {s}) = Cardinality(Committing) - 1
  <2>1. s \in Committing /\ IsFiniteSet(Committing)
    BY <1>1, FS_Subset DEF Committing
  <2>. QED
    BY <2>1, FS_RemoveElement, FS_CardinalityType DEF Consistent, RequestsKnow
<1>5. Cardinality(Committing \ {s}) \in Nat /\ k \in CommitIds
  <2>1. IsFiniteSet(Committing \ {s})
    BY <1>4, FS_Subset
  <2>2. Cardinality(Committing \ {s}) \in Nat
    BY <2>1, FS_CardinalityType
  <2>. QED
    BY <1>3, <1>4, <2>2 DEF CommitIds
<1>20. row.conversation = r.conv
  OBVIOUS
<1>. HIDE DEF k, row
<1>6. m \in Request
  <2>1. "resolve" \in Pcs
    BY DEF Pcs
  <2>. QED
    BY <1>1, <1>5, <2>1, SetPc, SetCommit, SetPackage, SetCreated, SetGenerated, Zenon
<1>7. PICK n \in Request : n = m
  BY <1>6
<1>8. /\ n.op = "commit" /\ n.pc = "resolve" /\ n.conv = r.conv /\ n.new = r.new
      /\ n.commit = k /\ n.package = k /\ n.named = r.named
  BY <1>1, <1>7 DEF Request
<1>9. req' = [req EXCEPT ![s] = n] /\ issued' \in 0 .. MaxRequests /\ clock' \in Nat
  BY <1>2, <1>7, GoFacts DEF Consistent
<1>. HIDE DEF m
<1>10. Len(commits') = k /\ DOMAIN commits' = 1 .. k /\ DOMAIN commits = 1 .. Len(commits)
       /\ commits'[k] = row /\ \A i \in 1 .. Len(commits) : commits'[i] = commits[i]
  BY <1>1, <1>2, <1>3 DEF k
<1>11. Len(commits') + Cardinality(Committing') <= MaxCommits
  <2>1. Committing' = Committing \ {s}
    BY <1>1, <1>8, <1>9, InvFacts DEF Committing, TypeOK
  <2>. QED
    BY <1>3, <1>4, <1>5, <1>10, <2>1 DEF k
<1>12. TablesOK'
  <2>1. RowsOK'
    BY <1>1, <1>2, <1>3, <1>5, <1>10 DEF RowsOK, CommitIds
  <2>2. ReferencesOK'
    BY <1>1, <1>2 DEF ReferencesOK
  <2>. QED
    BY <2>1, <2>2 DEF TablesOK
<1>13. \A c \in Conversations : Lineage(c)' = Lineage(c) /\ Root(c)' = Root(c)
  BY <1>2, SameParents
<1>14. Families'
  <2>1. \A i \in DOMAIN commits' : conversation[commits'[i].conversation].exists
    BY <1>1, <1>3, <1>10, <1>20 DEF TablesSound, Families, k
  <2>. QED
    BY <1>1, <1>2, <1>13, <2>1 DEF TablesSound, Families
<1>15. RecordsSound'
  <2>1. \A c : CommitsOf(c) \subseteq CommitsOf(c)' /\ CommitsOf(c)' \subseteq CommitsOf(c) \cup {k}
    BY <1>10, <1>3 DEF CommitsOf, k
  <2>2. \A c : \A i \in CommitsOf(c) : commits'[i] = commits[i]
    BY <1>10 DEF CommitsOf
  <2>3. ASSUME NEW b \in BranchIds, NEW i \in DOMAIN records[b]
        PROVE  records[b][i].commit \in Nat /\ records[b][i].commit <= Len(commits)
    BY <1>1, RecordFacts DEF TablesSound, RecordsSound
  <2>4. ASSUME NEW b \in BranchIds, NEW i \in DOMAIN records[b], NEW e, e = records[b][i],
               e.commit # e.package, ~NamedBy(records[b], i), ~HandedOn(records[b], i)
        PROVE  /\ e.package \in CommitsOf(e.conversation)'
               /\ e.commit \in CommitsOf(e.conversation)' =>
                    commits'[e.commit].generated < commits'[e.package].generated
               /\ \E l \in 1 .. i : Split(records[b][l])
    <3>1. /\ e.package \in CommitsOf(e.conversation)
          /\ e.commit \in CommitsOf(e.conversation) =>
               commits[e.commit].generated < commits[e.package].generated
          /\ \E l \in 1 .. i : Split(records[b][l])
      BY <1>1, <2>4 DEF TablesSound, RecordsSound
    <3>2. e.commit # k
      BY <1>3, <2>3, <2>4 DEF k
    <3>. QED
      BY <2>1, <2>2, <3>1, <3>2
  <2>5. Len(commits) <= Len(commits')
    BY <1>3, <1>10 DEF k
  <2>6. \A b \in BranchIds : \A i \in DOMAIN records[b] : records[b][i].commit <= Len(commits')
    BY <1>3, <1>10, <2>3, <2>5 DEF k
  <2>. QED
    BY <1>2, <2>4, <2>6 DEF RecordsSound
<1>16. VersionsAgree' /\ DigestDescribesRecord' /\ Numbered'
  BY <1>1, <1>2 DEF TablesSound, VersionsAgree, BranchExists, Latest, DigestDescribesRecord, Numbered
<1>17. TablesSound'
  BY <1>12, <1>14, <1>15, <1>16 DEF TablesSound
<1>18. Evolves
  BY <1>1, <1>2, <1>3, <1>13 DEF Evolves, Extended, RowsOK
<1>19. Knows(n)'
  BY <1>1, <1>2, <1>3, <1>8, <1>10 DEF Knows, Equipped, Loads, PushKnows, BranchKnown, DigestKnown, Stage, k
<1>. QED
  BY <1>1, <1>2, <1>7, <1>8, <1>9, <1>11, <1>17, <1>18, <1>19, RequestStep DEF Consistent, Fresh, Stage

\* A repository comes, is archived or is restored.
LEMMA RepositoryStep ==
  ASSUME Consistent, NEW s \in Slots, Once(s), NEW r \in Repositories, NEW status \in {"live", "archived"},
         repository' = [repository EXCEPT ![r] = status],
         UNCHANGED <<conversation, branch, opened, memory, records, commits, digest>>
  PROVE  Consistent'
<1>1. RowsOK /\ ReferencesOK
  BY DEF Consistent, TypeOK, TablesOK
<1>2. TablesOK'
  <2>1. RowsOK'
    BY <1>1 DEF RowsOK
  <2>2. ReferencesOK'
    BY <1>1 DEF RowsOK, ReferencesOK
  <2>. QED
    BY <2>1, <2>2 DEF TablesOK
<1>. QED
  BY <1>2, ConversationsStep, OnceStep DEF Consistent

-----------------------------------------------------------------------------
(* Branches *)

\* A column of a branch changes.
LEMMA BranchRowStep ==
  ASSUME Consistent, NEW s \in Slots, Once(s), NEW b \in BranchIds, NEW row \in BranchRow,
         branch' = [branch EXCEPT ![b] = row],
         row.repository = branch[b].repository, row.default = branch[b].default,
         UNCHANGED <<repository, conversation, opened, memory, records, commits, digest>>
  PROVE  Consistent'
<1>1. RowsOK /\ ReferencesOK /\ TablesSound
  BY DEF Consistent, TypeOK, TablesOK
<1>2. \A o \in BranchIds : /\ branch'[o].repository = branch[o].repository
                           /\ branch'[o].default = branch[o].default
  BY <1>1 DEF RowsOK
<1>3. TablesOK'
  <2>1. RowsOK'
    BY <1>1 DEF RowsOK
  <2>2. ReferencesOK'
    BY <1>1, <1>2 DEF ReferencesOK
  <2>. QED
    BY <2>1, <2>2 DEF TablesOK
<1>4. VersionsAgree' /\ Numbered'
  BY <1>1, <1>2 DEF TablesSound, VersionsAgree, BranchExists, Latest, Numbered
<1>5. DigestDescribesRecord' /\ RecordsSound'
  BY <1>1 DEF TablesSound, DigestDescribesRecord, RecordsSound, CommitsOf
<1>6. \A c \in Conversations : Lineage(c)' = Lineage(c) /\ Root(c)' = Root(c)
  BY SameParents
<1>7. Families'
  BY <1>1, <1>6 DEF TablesSound, Families
<1>8. TablesSound'
  BY <1>3, <1>4, <1>5, <1>7 DEF TablesSound
<1>9. Evolves
  <2>1. \A o \in 1 .. opened : o \in BranchIds
    BY <1>1, RowFacts
  <2>. QED
    BY <1>1, <1>2, <1>6, <2>1 DEF Evolves, Extended, RowsOK
<1>. QED
  BY <1>8, <1>9, OnceStep

LEMMA RenameBranchStep ==
  ASSUME Consistent, NEW s \in Slots, NEW b \in BranchIds, NEW n \in Names, RenameBranch(s, b, n)
  PROVE  Consistent'
<1>. DEFINE row == [branch[b] EXCEPT !.name = n]
<1>1. branch[b] \in BranchRow
  BY InvFacts DEF RowsOK
<1>2. row \in BranchRow /\ row.repository = branch[b].repository /\ row.default = branch[b].default
  BY <1>1 DEF BranchRow
<1>3. branch' = [branch EXCEPT ![b] = row]
  BY DEF RenameBranch
<1>. QED
  BY <1>2, <1>3, BranchRowStep DEF RenameBranch

LEMMA ArchiveBranchStep ==
  ASSUME Consistent, NEW s \in Slots, NEW b \in BranchIds, ArchiveBranch(s, b)
  PROVE  Consistent'
<1>. DEFINE row == [branch[b] EXCEPT !.active = FALSE]
<1>1. branch[b] \in BranchRow
  BY InvFacts DEF RowsOK
<1>2. row \in BranchRow /\ row.repository = branch[b].repository /\ row.default = branch[b].default
  BY <1>1 DEF BranchRow
<1>3. branch' = [branch EXCEPT ![b] = row]
  BY DEF ArchiveBranch
<1>. QED
  BY <1>2, <1>3, BranchRowStep DEF ArchiveBranch

LEMMA RestoreBranchStep ==
  ASSUME Consistent, NEW s \in Slots, NEW b \in BranchIds, RestoreBranch(s, b)
  PROVE  Consistent'
<1>. DEFINE row == [branch[b] EXCEPT !.active = TRUE]
<1>1. branch[b] \in BranchRow
  BY InvFacts DEF RowsOK
<1>2. row \in BranchRow /\ row.repository = branch[b].repository /\ row.default = branch[b].default
  BY <1>1 DEF BranchRow
<1>3. branch' = [branch EXCEPT ![b] = row]
  BY DEF RestoreBranch
<1>. QED
  BY <1>2, <1>3, BranchRowStep DEF RestoreBranch

\* A branch that is opened is a new one.
LEMMA OpenStep ==
  ASSUME TablesSound, NEW r \in Repositories, NEW n \in Names, NEW default \in BOOLEAN, NEW cleared,
         CanOpen(r, n), OpenBranch(r, n, default, cleared),
         UNCHANGED <<repository, conversation, commits, digest>>
  PROVE  /\ TablesSound' /\ Evolves /\ opened' = opened + 1 /\ opened + 1 \in BranchIds
         /\ memory'[opened + 1].version = 1
<1>. DEFINE new == opened + 1
            first == [number |-> 1, kind |-> "attach", conversation |-> None,
                      commit |-> NoId, package |-> NoId, named |-> FALSE]
            row == [repository |-> r, name |-> n, default |-> default, active |-> TRUE]
            counters == [version |-> 1, synced |-> 1, latest |-> 1, ready |-> FALSE]
<1>1. RowsOK /\ ReferencesOK /\ new \in BranchIds /\ opened \in Nat /\ opened' = new
  BY DEF TablesSound, TablesOK, RowsOK, CanOpen, OpenBranch, BranchIds
<1>2. /\ branch' = [o \in BranchIds |->
           IF o = new THEN row
           ELSE IF o \in cleared THEN [branch[o] EXCEPT !.default = FALSE] ELSE branch[o]]
      /\ memory' = [memory EXCEPT ![new] = counters]
      /\ records' = [records EXCEPT ![new] = <<first>>]
  BY DEF OpenBranch
<1>3. row \in BranchRow /\ counters \in MemoryRow /\ first \in Record
  BY DEF BranchRow, MemoryRow, Record, Kinds, NoId
<1>4. row.repository = r /\ counters.version = 1 /\ counters.synced = 1 /\ counters.latest = 1
      /\ ~counters.ready /\ first.number = 1 /\ first.kind = "attach"
      /\ first.commit = NoId /\ first.package = NoId
  OBVIOUS
<1>5. <<first>> \in Seq(Record) /\ Len(<<first>>) = 1 /\ <<first>>[1] = first /\ DOMAIN <<first>> = {1}
  BY <1>3
<1>. HIDE DEF row, counters, first, new
<1>6. \A o \in BranchIds :
        /\ branch'[o] \in BranchRow
        /\ o # new => /\ branch'[o].repository = branch[o].repository
                      /\ branch'[o].default => branch[o].default
  <2>1. ASSUME NEW o \in BranchIds
        PROVE  /\ branch'[o] \in BranchRow
               /\ o # new => /\ branch'[o].repository = branch[o].repository
                             /\ branch'[o].default => branch[o].default
    <3>1. branch[o] \in BranchRow
      BY <1>1 DEF RowsOK
    <3>. QED
      BY <1>2, <1>3, <3>1 DEF BranchRow
  <2>. QED
    BY <2>1
<1>7. \A o \in BranchIds : /\ memory'[o] = IF o = new THEN counters ELSE memory[o]
                           /\ records'[o] = IF o = new THEN <<first>> ELSE records[o]
  BY <1>1, <1>2 DEF RowsOK
<1>8. branch'[new].repository = r /\ r # None
  BY <1>1, <1>2, <1>4
<1>9. RowsOK'
  <2>1. branch' \in [BranchIds -> BranchRow]
    BY <1>2, <1>6
  <2>2. memory' \in [BranchIds -> MemoryRow] /\ records' \in [BranchIds -> Seq(Record)]
    BY <1>1, <1>2, <1>3, <1>5 DEF RowsOK
  <2>3. opened' \in 0 .. MaxBranches
    BY <1>1 DEF BranchIds
  <2>. QED
    BY <1>1, <2>1, <2>2, <2>3 DEF RowsOK
<1>10. ReferencesOK'
  BY <1>1, <1>6, <1>8 DEF ReferencesOK, CanOpen, RepositoryExists
<1>11. ~BranchExists(new)
  BY <1>1 DEF TablesSound, Numbered, new
<1>12. records[new] = <<>> /\ ~(digest[new].version > 0)
  <2>1. ~(Len(records[new]) > 0) /\ records[new] \in Seq(Record) /\ Len(records[new]) \in Nat
    BY <1>1, <1>11, RowFacts DEF TablesSound, VersionsAgree
  <2>. QED
    BY <1>1, <2>1, RowFacts DEF TablesSound, DigestDescribesRecord
<1>13. VersionsAgree'
  <2>1. ASSUME NEW b \in BranchIds, b # new
        PROVE  /\ records'[b] = records[b] /\ memory'[b] = memory[b]
               /\ branch'[b].repository = branch[b].repository
    BY <1>6, <1>7, <2>1
  <2>2. ASSUME NEW b \in BranchIds
        PROVE  /\ \A i \in DOMAIN records'[b] : records'[b][i].number = i
               /\ memory'[b].version = Len(records'[b])
               /\ memory'[b].synced = memory'[b].version
               /\ memory'[b].latest = memory'[b].version
               /\ branch'[b].repository # None <=> Len(records'[b]) > 0
               /\ branch'[b].repository # None =>
                    (memory'[b].ready <=> records'[b][memory'[b].latest].kind = "push")
    <3>1. CASE b = new
      <4>1. records'[b] = <<first>> /\ memory'[b] = counters /\ branch'[b].repository # None
        BY <1>7, <1>8, <3>1
      <4>2. /\ \A i \in DOMAIN <<first>> : <<first>>[i].number = i
            /\ <<first>>[counters.latest].kind # "push"
        BY <1>4, <1>5
      <4>. QED
        BY <1>4, <1>5, <4>1, <4>2
    <3>2. CASE b # new
      BY <2>1, <3>2 DEF TablesSound, VersionsAgree, BranchExists, Latest
    <3>. QED
      BY <3>1, <3>2
  <2>. QED
    BY <2>2 DEF VersionsAgree, BranchExists, Latest
<1>14. DigestDescribesRecord'
  BY <1>7, <1>12 DEF TablesSound, DigestDescribesRecord
<1>15. Numbered'
  BY <1>1, <1>6 DEF TablesSound, Numbered, BranchExists, new, BranchIds
<1>16. \A c \in Conversations : Lineage(c)' = Lineage(c) /\ Root(c)' = Root(c)
  BY SameParents
<1>17. Families'
  BY <1>16 DEF TablesSound, Families
<1>18. RecordsSound'
  <2>1. ASSUME NEW b \in BranchIds, b # new
        PROVE  records'[b] = records[b]
    BY <1>7, <2>1
  <2>2. records'[new] = <<first>> /\ first.commit <= Len(commits) /\ first.commit = first.package
    BY <1>1, <1>4, <1>7, RowFacts DEF NoId
  <2>. QED
    BY <1>5, <2>1, <2>2 DEF TablesSound, RecordsSound, CommitsOf
<1>19. TablesSound'
  BY <1>9, <1>10, <1>13, <1>14, <1>15, <1>17, <1>18 DEF TablesSound, TablesOK
<1>20. Evolves
  <2>1. \A o \in 1 .. opened : o \in BranchIds /\ o # new
    BY <1>1, RowFacts DEF new
  <2>2. opened' \in opened .. MaxBranches
    BY <1>1 DEF new, BranchIds
  <2>. QED
    BY <1>6, <1>7, <1>16, <2>1, <2>2 DEF Evolves, Extended
<1>. QED
  BY <1>1, <1>4, <1>7, <1>19, <1>20 DEF new

\* What a request knows when its branch has just been opened.
LEMMA OpenDefaultStep ==
  ASSUME Consistent, NEW s \in Slots, OpenDefault(s)
  PROVE  Consistent'
<1>. DEFINE r == req[s]
            b == opened + 1
            l == [r EXCEPT !.branch = b, !.seen = 1, !.target = None]
            m == [l EXCEPT !.pc = "rebuild", !.todo = {b}, !.then = "append"]
<1>1. /\ r \in Request /\ Equipped(r) /\ Loads(r) /\ r.pc = "open" /\ RowsOK /\ TablesSound
      /\ r.op \in {"attach", "commit", "fork", "restore"} /\ r.target \in Repositories
      /\ r.subject # None
  BY InvFacts DEF OpenDefault, At, Equipped, Stage, Request
<1>2. CASE End(s) /\ UNCHANGED tables
  BY <1>2, EndStep
<1>3. CASE /\ CanOpen(r.target, DefaultName)
           /\ OpenBranch(r.target, DefaultName, TRUE, {})
           /\ Go(s, Rebuilding(l, {b}, "append"))
           /\ UNCHANGED <<repository, conversation, commits, digest>>
  <2>1. TablesSound' /\ Evolves /\ opened' = b /\ b \in BranchIds /\ memory'[b].version = 1
    BY <1>1, <1>3, OpenStep
  <2>2. "append" \in Pcs /\ {b} \in SUBSET BranchIds
    BY <2>1 DEF Pcs
  <2>. HIDE DEF r, b
  <2>3. l \in Request
    BY <1>1, <2>1 DEF Request
  <2>4. /\ l.op = r.op /\ l.conv = r.conv /\ l.new = r.new /\ l.subject = r.subject
        /\ l.branch = b /\ l.seen = 1
        /\ l.commit = r.commit /\ l.package = r.package /\ l.named = r.named
    BY <1>1 DEF Request
  <2>. HIDE DEF l
  <2>5. Rebuilding(l, {b}, "append") = m /\ m \in Request
    <3>1. {b} # {}
      OBVIOUS
    <3>2. Rebuilding(l, {b}, "append") = m
      BY <3>1, Zenon DEF Rebuilding
    <3>3. m \in Request
      BY <2>2, <2>3, RebuildingType
    <3>. QED
      BY <3>2, <3>3
  <2>6. PICK n \in Request : n = m
    BY <2>5
  <2>7. /\ n.op = r.op /\ n.pc = "rebuild" /\ n.then = "append" /\ n.todo = {b}
        /\ n.conv = r.conv /\ n.new = r.new /\ n.subject = r.subject
        /\ n.branch = b /\ n.seen = 1
        /\ n.commit = r.commit /\ n.package = r.package /\ n.named = r.named
    BY <2>3, <2>4, <2>6 DEF Request
  <2>8. req' = [req EXCEPT ![s] = n] /\ issued' \in 0 .. MaxRequests /\ clock' \in Nat
    BY <1>3, <2>5, <2>6, GoFacts DEF Consistent
  <2>. HIDE DEF m
  <2>9. Equipped(n) /\ Stage(n) = "append"
    BY <1>1, <2>7 DEF Equipped, Stage
  <2>10. Loads(n)'
    BY <1>1, <1>3, <2>7 DEF Loads
  <2>11. PushKnows(n)'
    BY <1>1, <2>7 DEF PushKnows
  <2>12. BranchKnown(n)'
    <3>1. n.branch \in 1 .. opened' /\ memory'[n.branch].version = 1 /\ n.seen = 1
      BY <1>1, <2>1, <2>7, RowFacts DEF b
    <3>2. Seen(n.branch, n.seen)'
      BY <3>1 DEF Seen
    <3>. QED
      BY <1>1, <2>7, <2>9, <3>2 DEF BranchKnown
  <2>13. DigestKnown(n)'
    BY <2>1, <2>7, RowFacts, <1>1 DEF DigestKnown, b
  <2>14. Knows(n)'
    <3>1. Equipped(n)' = Equipped(n)
      OBVIOUS
    <3>. QED
      BY <2>9, <2>10, <2>11, <2>12, <2>13, <3>1 DEF Knows
  <2>. QED
    BY <1>1, <1>3, <2>1, <2>7, <2>8, <2>9, <2>14, RequestStep DEF Consistent, Fresh, r
<1>. QED
  BY <1>2, <1>3 DEF OpenDefault

LEMMA WriteBranchStep ==
  ASSUME Consistent, NEW s \in Slots, WriteBranch(s)
  PROVE  Consistent'
<1>. DEFINE r == req[s]
            b == opened + 1
            l == [Free EXCEPT !.op = "branch"]
            m == Rebuilding(l, {b}, "free")
            cleared == {o[1] : o \in r.marks}
<1>1. /\ r \in Request /\ Equipped(r) /\ r.pc = "write" /\ r.op = "branch" /\ RowsOK /\ TablesSound
      /\ r.target \in Repositories /\ r.name \in Names /\ r.default \in BOOLEAN
  BY InvFacts DEF WriteBranch, Doing, Equipped, Stage, Request
<1>2. CASE End(s) /\ UNCHANGED tables
  BY <1>2, EndStep
<1>3. CASE /\ CanOpen(r.target, r.name)
           /\ OpenBranch(r.target, r.name, r.default, cleared)
           /\ Go(s, m)
           /\ UNCHANGED <<repository, conversation, commits, digest>>
  <2>1. TablesSound' /\ Evolves /\ opened' = b /\ b \in BranchIds
    BY <1>1, <1>3, OpenStep
  <2>2. l \in Request /\ {b} \in SUBSET BranchIds /\ "free" \in Pcs
    <3>1. "branch" \in Ops
      BY DEF Ops
    <3>. QED
      BY <2>1, <3>1, FreeFacts DEF Request, Pcs
  <2>3. m \in Request /\ m = [Free EXCEPT !.pc = "rebuild", !.todo = {b}, !.then = "free"]
    <3>1. {b} # {}
      OBVIOUS
    <3>. HIDE DEF b, l
    <3>. QED
      BY <2>2, <3>1, RebuildingFacts
  <2>4. PICK n \in Request : n = m
    BY <2>3
  <2>5. req' = [req EXCEPT ![s] = n] /\ issued' \in 0 .. MaxRequests /\ clock' \in Nat
    BY <1>3, <2>4, GoFacts DEF Consistent
  <2>. HIDE DEF b, m
  <2>6. /\ n.pc = "rebuild" /\ n.todo = {b} /\ n.then = "free" /\ n.op = "none" /\ n.conv = None
        /\ n.new = None /\ ~n.named /\ n.commit = NoId /\ n.package = NoId
    BY <2>3, <2>4 DEF Free
  <2>7. Equipped(n) /\ Stage(n) = "free"
    BY <2>6 DEF Equipped, Stage
  <2>8. Loads(n)' /\ PushKnows(n)' /\ BranchKnown(n)'
    BY <1>1, <1>3, <2>6, <2>7, RowFacts DEF Loads, PushKnows, BranchKnown, NoId
  <2>9. DigestKnown(n)'
    BY <1>1, <2>1, <2>6, RowFacts DEF DigestKnown, b
  <2>10. Knows(n)'
    <3>1. Equipped(n)' = Equipped(n)
      OBVIOUS
    <3>. QED
      BY <2>7, <2>8, <2>9, <3>1 DEF Knows
  <2>. QED
    BY <1>3, <2>1, <2>5, <2>6, <2>7, <2>10, RequestStep DEF Consistent, Fresh
<1>. QED
  BY <1>2, <1>3 DEF WriteBranch

-----------------------------------------------------------------------------
(* Records *)

\* A record is only accepted right after the version that was read.
LEMMA AcceptedFacts ==
  ASSUME RowsOK, VersionsAgree, NEW b \in BranchIds, NEW seen \in Nat, Seen(b, seen), CanAppend(b, seen)
  PROVE  BranchExists(b) /\ seen = Len(records[b]) /\ Current(b, seen)
<1>1. BranchExists(b) /\ seen <= Len(records[b]) /\ memory[b].version = Len(records[b])
  BY LatestFacts DEF CanAppend, Seen
<1>2. Len(records[b]) \in Nat /\ DOMAIN records[b] = 1 .. Len(records[b])
  BY RowFacts
<1>3. ASSUME seen < Len(records[b]) PROVE FALSE
  <2>1. seen + 1 \in DOMAIN records[b]
    BY <1>2, <1>3
  <2>2. records[b][seen + 1].number = seen + 1
    BY <2>1 DEF VersionsAgree
  <2>. QED
    BY <2>1, <2>2 DEF CanAppend
<1>. QED
  BY <1>1, <1>2, <1>3 DEF Current

\* A record's package is its conversation's, and was generated after its
\* commit's, unless that is another conversation's.
Ordered(e) ==
  /\ e.package \in CommitsOf(e.conversation)
  /\ e.commit \in CommitsOf(e.conversation) =>
       commits[e.commit].generated < commits[e.package].generated

\* What may follow the latest record of a branch.
Suits(b, e) ==
  /\ e.number = Len(records[b]) + 1
  /\ e.commit <= Len(commits)
  /\ \/ e.named
     \/ e.commit = e.package
     \/ e.commit = Latest(b).commit /\ e.package = Latest(b).package
     \/ e.kind = "push" /\ e.commit # e.package /\ Ordered(e)

\* The records of a branch stay sound when one that suits follows.
LEMMA SuitsFacts ==
  ASSUME TablesSound, NEW b \in BranchIds, BranchExists(b), NEW e \in Record, Suits(b, e),
         NEW longer, longer = Append(records[b], e), NEW n \in DOMAIN longer,
         longer[n].commit # longer[n].package, ~NamedBy(longer, n), ~HandedOn(longer, n)
  PROVE  /\ Ordered(longer[n])
         /\ \E i \in 1 .. n : Split(longer[i])
<1>. DEFINE last == Len(records[b])
<1>1. /\ records[b] \in Seq(Record) /\ last \in Nat /\ last > 0 /\ Latest(b) = records[b][last]
      /\ DOMAIN records[b] = 1 .. last
  BY RowFacts, LatestFacts DEF TablesSound, TablesOK
<1>2. /\ DOMAIN longer = 1 .. last + 1 /\ longer[last + 1] = e
      /\ \A i \in 1 .. last : longer[i] = records[b][i]
  BY <1>1
<1>. HIDE DEF last
<1>3. \A i \in 1 .. last : ~NamedBy(longer, i) => ~NamedBy(records[b], i)
  BY <1>1, <1>2 DEF NamedBy
<1>4. ASSUME NEW i \in 1 .. last, HandedOn(records[b], i) PROVE HandedOn(longer, i)
  <2>1. PICK j \in 1 .. i, k \in 1 .. i :
          /\ j < k /\ Split(records[b][j])
          /\ records[b][k].conversation # records[b][j].conversation
    BY <1>4 DEF HandedOn
  <2>2. longer[j] = records[b][j] /\ longer[k] = records[b][k]
    BY <1>1, <1>2
  <2>3. /\ j < k /\ Split(longer[j])
        /\ longer[k].conversation # longer[j].conversation
    BY <2>1, <2>2
  <2>. QED
    BY <2>3 DEF HandedOn
<1>5. ASSUME NEW i \in 1 .. last, records[b][i].commit # records[b][i].package,
             ~NamedBy(records[b], i), ~HandedOn(records[b], i)
      PROVE  /\ Ordered(records[b][i])
             /\ \E j \in 1 .. i : Split(records[b][j])
  BY <1>1, <1>5 DEF TablesSound, RecordsSound, Ordered
<1>6. CASE n \in 1 .. last
  BY <1>1, <1>2, <1>3, <1>4, <1>5, <1>6
<1>7. CASE n = last + 1
  <2>1. ~e.named
    BY <1>1, <1>2, <1>7 DEF NamedBy
  <2>2. CASE e.kind = "push" /\ e.commit # e.package /\ Ordered(e)
    <3>1. Split(longer[n])
      BY <1>2, <1>7, <2>2 DEF Split
    <3>. QED
      BY <1>1, <1>2, <1>7, <2>2, <3>1
  <2>3. CASE e.commit = Latest(b).commit /\ e.package = Latest(b).package
    <3>1. ~NamedBy(records[b], last) /\ ~HandedOn(records[b], last)
      <4>1. ~NamedBy(longer, last) /\ ~HandedOn(longer, last)
        <5>1. 1 .. last \subseteq 1 .. n
          BY <1>1, <1>7
        <5>2. NamedBy(longer, last) => NamedBy(longer, n)
          BY <5>1 DEF NamedBy
        <5>3. HandedOn(longer, last) => HandedOn(longer, n)
          BY <5>1 DEF HandedOn
        <5>. QED
          BY <5>2, <5>3
      <4>2. last \in 1 .. last
        BY <1>1
      <4>. QED
        BY <1>3, <1>4, <4>1, <4>2
    <3>2. /\ Ordered(Latest(b))
          /\ \E j \in 1 .. last : Split(records[b][j])
      BY <1>1, <1>2, <1>5, <1>7, <2>3, <3>1
    <3>3. PICK j \in 1 .. last : Split(records[b][j])
      BY <3>2
    <3>4. Split(longer[j]) /\ j \in 1 .. n
      BY <1>1, <1>2, <1>7, <3>3
    <3>5. e.conversation = longer[j].conversation
      BY <1>1, <1>2, <1>7, <3>4 DEF HandedOn
    <3>6. Latest(b).conversation = longer[j].conversation
      <4>1. CASE j = last
        BY <1>1, <1>2, <4>1
      <4>2. CASE j # last
        <5>1. last \in 1 .. n /\ j < last /\ longer[last] = Latest(b)
          BY <1>1, <1>2, <1>7, <4>2
        <5>2. longer[last].conversation = longer[j].conversation
          BY <3>4, <5>1 DEF HandedOn
        <5>. QED
          BY <5>1, <5>2
      <4>. QED
        BY <4>1, <4>2
    <3>. QED
      BY <1>2, <1>7, <2>3, <3>2, <3>4, <3>5, <3>6 DEF Ordered
  <2>. QED
    BY <1>2, <1>7, <2>1, <2>2, <2>3 DEF Suits
<1>. QED
  BY <1>1, <1>2, <1>6, <1>7

LEMMA AppendedReady ==
  ASSUME NEW b, NEW seen, NEW e
  PROVE  Appended(b, seen, e).ready <=> e.kind = "push"
BY DEF Appended

\* Records that suit are appended to some branches at once.
LEMMA AppendsStep ==
  ASSUME TablesSound, NEW D \in SUBSET BranchIds, NEW next \in [D -> Record],
         \A b \in D : BranchExists(b) /\ Suits(b, next[b]),
         \A b \in BranchIds :
           /\ records'[b] = IF b \in D THEN Append(records[b], next[b]) ELSE records[b]
           /\ memory'[b] = IF b \in D THEN Appended(b, Len(records[b]), next[b]) ELSE memory[b],
         records' = [b \in BranchIds |-> records'[b]], memory' = [b \in BranchIds |-> memory'[b]],
         UNCHANGED <<repository, conversation, branch, opened, commits, digest>>
  PROVE  TablesSound' /\ Evolves
<1>1. RowsOK /\ ReferencesOK /\ VersionsAgree
  BY DEF TablesSound, TablesOK
<1>2. ASSUME NEW b \in BranchIds
      PROVE  /\ records[b] \in Seq(Record) /\ Len(records[b]) \in Nat
             /\ DOMAIN records[b] = 1 .. Len(records[b]) /\ memory[b] \in MemoryRow
  BY <1>1, RowFacts DEF RowsOK
<1>3. ASSUME NEW b \in D
      PROVE  /\ next[b] \in Record
             /\ records'[b] \in Seq(Record) /\ Len(records'[b]) = Len(records[b]) + 1
             /\ DOMAIN records'[b] = 1 .. Len(records[b]) + 1
             /\ records'[b][Len(records[b]) + 1] = next[b]
             /\ \A i \in 1 .. Len(records[b]) : records'[b][i] = records[b][i]
             /\ memory'[b] \in MemoryRow
             /\ memory'[b].version = Len(records[b]) + 1 /\ memory'[b].synced = Len(records[b]) + 1
             /\ memory'[b].latest = Len(records[b]) + 1
             /\ memory'[b].ready <=> next[b].kind = "push"
  <2>1. next[b] \in Record /\ b \in BranchIds
    OBVIOUS
  <2>2. records'[b] = Append(records[b], next[b]) /\ memory'[b] = Appended(b, Len(records[b]), next[b])
    BY <2>1
  <2>3. Appended(b, Len(records[b]), next[b]) \in MemoryRow
    BY <1>2, <2>1 DEF Appended, MemoryRow
  <2>4. /\ records'[b] \in Seq(Record) /\ Len(records'[b]) = Len(records[b]) + 1
        /\ DOMAIN records'[b] = 1 .. Len(records[b]) + 1
        /\ records'[b][Len(records[b]) + 1] = next[b]
        /\ \A i \in 1 .. Len(records[b]) : records'[b][i] = records[b][i]
    BY <1>2, <2>1, <2>2
  <2>5. /\ memory'[b].version = Len(records[b]) + 1 /\ memory'[b].synced = Len(records[b]) + 1
        /\ memory'[b].latest = Len(records[b]) + 1
    BY <2>2 DEF Appended
  <2>6. memory'[b].ready <=> next[b].kind = "push"
    BY <2>2, AppendedReady
  <2>. QED
    BY <2>1, <2>2, <2>3, <2>4, <2>5, <2>6
<1>4. ASSUME NEW b \in BranchIds, b \notin D
      PROVE  records'[b] = records[b] /\ memory'[b] = memory[b]
  BY <1>4
<1>5. RowsOK'
  <2>1. \A b \in BranchIds : records'[b] \in Seq(Record) /\ memory'[b] \in MemoryRow
    BY <1>2, <1>3, <1>4
  <2>2. records' \in [BranchIds -> Seq(Record)] /\ memory' \in [BranchIds -> MemoryRow]
    BY <2>1, Zenon
  <2>. QED
    BY <1>1, <2>2 DEF RowsOK
<1>6. ReferencesOK'
  BY <1>1 DEF ReferencesOK
<1>7. VersionsAgree'
  <2>1. ASSUME NEW b \in BranchIds
        PROVE  /\ \A i \in DOMAIN records'[b] : records'[b][i].number = i
               /\ memory'[b].version = Len(records'[b])
               /\ memory'[b].synced = memory'[b].version
               /\ memory'[b].latest = memory'[b].version
               /\ branch[b].repository # None <=> Len(records'[b]) > 0
               /\ branch[b].repository # None =>
                    (memory'[b].ready <=> records'[b][memory'[b].latest].kind = "push")
    <3>1. CASE b \in D
      <4>1. \A i \in DOMAIN records'[b] : records'[b][i].number = i
        <5>1. ASSUME NEW i \in 1 .. Len(records[b]) PROVE records'[b][i].number = i
          BY <1>1, <1>2, <1>3, <3>1 DEF VersionsAgree
        <5>2. records'[b][Len(records[b]) + 1].number = Len(records[b]) + 1
          BY <1>3, <3>1 DEF Suits
        <5>3. DOMAIN records'[b] = 1 .. Len(records[b]) + 1 /\ Len(records[b]) \in Nat
          BY <1>2, <1>3, <3>1
        <5>4. ASSUME NEW i \in 1 .. Len(records[b]) + 1 PROVE records'[b][i].number = i
          BY <5>1, <5>2, <5>3
        <5>. QED
          BY <5>3, <5>4
      <4>2. branch[b].repository # None
        BY <3>1 DEF BranchExists
      <4>3. /\ Len(records'[b]) = Len(records[b]) + 1
            /\ memory'[b].version = Len(records[b]) + 1 /\ memory'[b].synced = Len(records[b]) + 1
            /\ memory'[b].latest = Len(records[b]) + 1
            /\ records'[b][Len(records[b]) + 1] = next[b]
            /\ memory'[b].ready <=> next[b].kind = "push"
        BY <1>3, <3>1
      <4>4. Len(records'[b]) > 0
        BY <1>2, <4>3
      <4>5. memory'[b].ready <=> records'[b][memory'[b].latest].kind = "push"
        BY <4>3
      <4>. QED
        BY <4>1, <4>2, <4>3, <4>4, <4>5
    <3>2. CASE b \notin D
      BY <1>1, <1>4, <3>2 DEF VersionsAgree, BranchExists, Latest
    <3>. QED
      BY <3>1, <3>2
  <2>. QED
    BY <2>1 DEF VersionsAgree, BranchExists, Latest
<1>8. DigestDescribesRecord'
  <2>1. ASSUME NEW b \in BranchIds
        PROVE  \A i \in DOMAIN records[b] : i \in DOMAIN records'[b] /\ records'[b][i] = records[b][i]
    <3>1. CASE b \in D
      <4>1. Len(records[b]) \in Nat /\ DOMAIN records[b] = 1 .. Len(records[b])
        BY <1>2
      <4>2. /\ DOMAIN records'[b] = 1 .. Len(records[b]) + 1
            /\ \A i \in 1 .. Len(records[b]) : records'[b][i] = records[b][i]
        BY <1>3, <3>1
      <4>. QED
        BY <4>1, <4>2
    <3>2. CASE b \notin D
      BY <1>4, <3>2
    <3>. QED
      BY <3>1, <3>2
  <2>. QED
    BY <2>1 DEF TablesSound, DigestDescribesRecord
<1>9. Numbered'
  BY DEF TablesSound, Numbered, BranchExists
<1>10. \A c \in Conversations : Lineage(c)' = Lineage(c) /\ Root(c)' = Root(c)
  BY SameParents
<1>11. Families'
  BY <1>10 DEF TablesSound, Families
<1>12. RecordsSound'
  <2>1. \A c : CommitsOf(c)' = CommitsOf(c)
    BY DEF CommitsOf
  <2>. DEFINE Sound(history, n) ==
                LET record == history[n] IN
                /\ record.commit <= Len(commits)
                /\ record.commit # record.package /\ ~NamedBy(history, n) /\ ~HandedOn(history, n) =>
                     /\ Ordered(record)
                     /\ \E i \in 1 .. n : Split(history[i])
  <2>2. ASSUME NEW b \in D, NEW n \in DOMAIN records'[b]
        PROVE  Sound(records'[b], n)
    <3>1. records'[b][n].commit <= Len(commits)
      <4>1. CASE n \in 1 .. Len(records[b])
        BY <1>2, <1>3, <4>1 DEF TablesSound, RecordsSound
      <4>2. CASE n = Len(records[b]) + 1
        BY <1>3, <4>2 DEF Suits
      <4>. QED
        BY <1>2, <1>3, <4>1, <4>2
    <3>2. PICK longer : longer = records'[b]
      OBVIOUS
    <3>3. /\ longer = Append(records[b], next[b]) /\ n \in DOMAIN longer
          /\ next[b] \in Record /\ Suits(b, next[b]) /\ BranchExists(b) /\ b \in BranchIds
      BY <3>2
    <3>4. longer[n].commit # longer[n].package /\ ~NamedBy(longer, n) /\ ~HandedOn(longer, n) =>
            /\ Ordered(longer[n])
            /\ \E i \in 1 .. n : Split(longer[i])
      BY <3>3, SuitsFacts
    <3>. QED
      BY <3>1, <3>2, <3>4
  <2>3. ASSUME NEW b \in BranchIds, b \notin D, NEW n \in DOMAIN records'[b]
        PROVE  Sound(records'[b], n)
    <3>1. Sound(records[b], n)
      BY <1>4, <2>3 DEF TablesSound, RecordsSound, Ordered
    <3>2. records'[b] = records[b]
      BY <1>4, <2>3
    <3>. HIDE DEF Sound
    <3>. QED
      BY <3>1, <3>2
  <2>4. \A b \in BranchIds : \A n \in DOMAIN records'[b] : Sound(records'[b], n)
    <3>. HIDE DEF Sound
    <3>. QED
      BY <2>2, <2>3
  <2>. QED
    BY <2>1, <2>4 DEF RecordsSound, Ordered
<1>13. Evolves
  <2>1. \A b \in 1 .. opened : b \in BranchIds
    BY <1>1, RowFacts
  <2>2. ASSUME NEW b \in BranchIds PROVE Extended(b)
    <3>1. CASE b \in D
      BY <1>3, <3>1 DEF Extended
    <3>. QED
      BY <1>4, <3>1 DEF Extended
  <2>. QED
    BY <1>1, <1>10, <2>1, <2>2 DEF Evolves, RowsOK
<1>. QED
  BY <1>5, <1>6, <1>7, <1>8, <1>9, <1>11, <1>12, <1>13 DEF TablesSound, TablesOK

\* The record of a request that is about to append.
Pending(r) == NextRecord(Kind(r.op), Latest(r.branch), r.seen, r.subject, r.commit, r.package, r.named)

LEMMA PendingFacts ==
  ASSUME Consistent, NEW r \in Request, Knows(r), r.pc = "append", CanAppend(r.branch, r.seen)
  PROVE  /\ r.branch \in 1 .. opened /\ r.branch \in BranchIds /\ BranchExists(r.branch)
         /\ r.seen = Len(records[r.branch]) /\ Current(r.branch, r.seen)
         /\ Pending(r) \in Record /\ Suits(r.branch, Pending(r))
         /\ Pending(r).kind = (IF r.op = "attach" THEN "attach" ELSE IF r.op = "restore" THEN "restore"
                               ELSE IF r.op = "push" THEN "push" ELSE "commit")
         /\ Pending(r).conversation = r.subject
         /\ Pending(r).commit = (IF r.commit # NoId THEN r.commit ELSE Latest(r.branch).commit)
         /\ Pending(r).package = (IF r.package # NoId THEN r.package ELSE Latest(r.branch).package)
<1>. DEFINE b == r.branch
            last == Latest(b)
            e == Pending(r)
            kind == IF r.op = "attach" THEN "attach" ELSE IF r.op = "restore" THEN "restore"
                    ELSE IF r.op = "push" THEN "push" ELSE "commit"
<1>1. /\ RowsOK /\ TablesSound /\ VersionsAgree /\ RecordsSound /\ Equipped(r) /\ Loads(r)
      /\ PushKnows(r) /\ BranchKnown(r) /\ Stage(r) = "append"
  BY DEF Consistent, TypeOK, TablesOK, TablesSound, Knows, Stage
<1>2. /\ r.op \in {"attach", "commit", "fork", "restore", "push"} /\ r.subject \in Conversations
      /\ r.seen \in Nat /\ Seen(b, r.seen) /\ r.named \in BOOLEAN
      /\ r.commit \in CommitIds \cup {NoId} /\ r.package \in CommitIds \cup {NoId}
  BY <1>1 DEF Equipped, BranchKnown, Request
<1>3. b \in 1 .. opened /\ b \in BranchIds
  BY <1>1, <1>2, RowFacts DEF Seen
<1>4. BranchExists(b) /\ r.seen = Len(records[b]) /\ Current(b, r.seen)
  BY <1>1, <1>2, <1>3, AcceptedFacts
<1>5. last \in Record /\ last = records[b][Len(records[b])] /\ Len(records[b]) \in DOMAIN records[b]
  BY <1>1, <1>3, <1>4, LatestFacts
<1>6. Kind(r.op) = kind /\ kind \in Kinds /\ kind # "detach"
  BY <1>2 DEF Kind, Kinds
<1>7. /\ e.number = r.seen + 1 /\ e.kind = kind /\ e.conversation = r.subject /\ e.named = r.named
      /\ e.commit = IF r.commit # NoId THEN r.commit ELSE last.commit
      /\ e.package = IF r.package # NoId THEN r.package ELSE last.package
      /\ e = [number |-> e.number, kind |-> e.kind, conversation |-> e.conversation,
              commit |-> e.commit, package |-> e.package, named |-> e.named]
  BY <1>6 DEF Pending, NextRecord
<1>. HIDE DEF e, last, kind
<1>8. last.commit \in CommitIds \cup {NoId} /\ last.package \in CommitIds \cup {NoId}
      /\ last.commit <= Len(commits)
  <2>1. last.commit <= Len(commits)
    BY <1>1, <1>3, <1>5 DEF RecordsSound
  <2>. QED
    BY <1>5, <2>1 DEF Record
<1>9. e \in Record
  BY <1>2, <1>6, <1>7, <1>8 DEF Record
<1>10. e.number = Len(records[b]) + 1 /\ e.commit <= Len(commits)
  BY <1>1, <1>4, <1>7, <1>8 DEF Loads
<1>11. Suits(b, e)
  <2>1. CASE r.op # "push"
    <3>1. r.commit = r.package
      BY <1>1, <2>1 DEF Equipped
    <3>. QED
      BY <1>7, <1>10, <3>1 DEF Suits, last
  <2>2. CASE r.op = "push" /\ r.named
    BY <1>7, <1>10, <2>2 DEF Suits
  <2>3. CASE r.op = "push" /\ ~r.named
    <3>1. /\ r.commit # NoId =>
               /\ r.package \in CommitsOf(r.subject)
               /\ r.commit # r.package => commits[r.commit].generated < commits[r.package].generated
          /\ r.commit = NoId /\ r.package # NoId =>
               r.package \in CommitsOf(r.subject) /\ last.commit \notin CommitsOf(r.subject)
      BY <1>1, <1>4, <2>3 DEF PushKnows, last
    <3>2. r.package \in CommitsOf(r.subject) => r.package # NoId
      BY <1>1, RowFacts DEF CommitsOf, NoId
    <3>3. r.commit \in Nat /\ r.package \in Nat /\ last.commit \in Nat
      BY <1>2, <1>8 DEF CommitIds, NoId
    <3>4. e.kind = "push"
      BY <1>7, <2>3 DEF kind
    <3>. QED
      BY <1>7, <1>10, <3>1, <3>2, <3>3, <3>4 DEF Suits, Ordered, last
  <2>. QED
    BY <1>2, <2>1, <2>2, <2>3
<1>. QED
  BY <1>3, <1>4, <1>7, <1>9, <1>11 DEF e, last, kind

LEMMA AppendRecordStep ==
  ASSUME Consistent, NEW s \in Slots, AppendRecord(s)
  PROVE  Consistent'
<1>. DEFINE r == req[s]
            b == r.branch
            e == Pending(r)
<1>1. r \in Request /\ Knows(r) /\ r.pc = "append" /\ RowsOK /\ TablesSound
  BY InvFacts DEF AppendRecord, At
<1>2. CASE End(s) /\ UNCHANGED tables
  BY <1>2, EndStep
<1>3. CASE /\ CanAppend(b, r.seen)
           /\ records' = [records EXCEPT ![b] = Append(@, e)]
           /\ memory' = [memory EXCEPT ![b] = Appended(b, r.seen, e)]
           /\ Go(s, IF r.op = "push" THEN Free ELSE Rebuilding(r, {b}, "free"))
           /\ UNCHANGED <<repository, conversation, branch, opened, commits, digest>>
  <2>1. /\ b \in 1 .. opened /\ b \in BranchIds /\ BranchExists(b) /\ r.seen = Len(records[b])
        /\ e \in Record /\ Suits(b, e)
    BY <1>1, <1>3, PendingFacts
  <2>. DEFINE next == [o \in {b} |-> e]
  <2>2. /\ {b} \in SUBSET BranchIds /\ next \in [{b} -> Record]
        /\ \A o \in {b} : BranchExists(o) /\ Suits(o, next[o])
    BY <2>1
  <2>3. /\ \A o \in BranchIds :
             /\ records'[o] = IF o \in {b} THEN Append(records[o], next[o]) ELSE records[o]
             /\ memory'[o] = IF o \in {b} THEN Appended(o, Len(records[o]), next[o]) ELSE memory[o]
        /\ records' = [o \in BranchIds |-> records'[o]] /\ memory' = [o \in BranchIds |-> memory'[o]]
    BY <1>1, <1>3, <2>1 DEF RowsOK
  <2>. HIDE DEF next
  <2>4. TablesSound' /\ Evolves
    BY <1>1, <1>3, <2>2, <2>3, AppendsStep
  <2>5. CASE r.op = "push"
    BY <1>3, <2>4, <2>5, LastStep DEF End
  <2>6. CASE r.op # "push"
    <3>1. Go(s, Rebuilding(r, {b}, "free")) /\ {b} \in SUBSET (1 .. opened)
      BY <1>3, <2>1, <2>6
    <3>. QED
      BY <1>1, <1>3, <2>4, <3>1, RebuilderKnows, WriteStep
  <2>. QED
    BY <2>5, <2>6
<1>. QED
  BY <1>2, <1>3 DEF AppendRecord, Pending

\* What a request that detaches branches writes on each of them.
SeenOf(r, b) == (CHOOSE m \in r.marks : m[1] = b)[2]
Detaching(r, b) == NextRecord("detach", Latest(b), SeenOf(r, b), Root(r.conv), NoId, NoId, FALSE)

LEMMA DetachingFacts ==
  ASSUME Consistent, NEW r \in Request, Knows(r), r.pc = "drop",
         \A m \in r.marks : CanAppend(m[1], m[2]), NEW b \in {m[1] : m \in r.marks}
  PROVE  /\ b \in 1 .. opened /\ b \in BranchIds /\ BranchExists(b)
         /\ SeenOf(r, b) = Len(records[b]) /\ Current(b, SeenOf(r, b))
         /\ Latest(b).conversation = Root(r.conv)
         /\ Detaching(r, b) \in Record /\ Suits(b, Detaching(r, b))
         /\ Detaching(r, b).kind = "detach" /\ Detaching(r, b).conversation = Root(r.conv)
         /\ Detaching(r, b).commit = NoId
<1>1. /\ RowsOK /\ TablesSound /\ VersionsAgree /\ Families /\ Equipped(r) /\ Loads(r)
      /\ BranchKnown(r) /\ Stage(r) = "drop"
  BY DEF Consistent, TypeOK, TablesOK, TablesSound, Knows, Stage
<1>2. PICK m \in r.marks : m[1] = b /\ m = CHOOSE o \in r.marks : o[1] = b
  <2>1. \E m \in r.marks : m[1] = b
    OBVIOUS
  <2>. QED
    BY <2>1, Zenon
<1>3. SeenOf(r, b) = m[2] /\ m[2] \in Nat /\ Seen(b, m[2]) /\ CanAppend(b, m[2])
  <2>1. SeenOf(r, b) = m[2]
    BY <1>2, Zenon DEF SeenOf
  <2>2. m[2] \in Nat
    BY <1>2 DEF Request, Marks
  <2>. QED
    BY <1>1, <1>2, <2>1, <2>2 DEF BranchKnown
<1>4. b \in 1 .. opened /\ b \in BranchIds
  BY <1>1, <1>3, RowFacts DEF Seen
<1>5. BranchExists(b) /\ m[2] = Len(records[b]) /\ Current(b, m[2])
  BY <1>1, <1>3, <1>4, AcceptedFacts
<1>6. Latest(b).conversation = Root(r.conv)
  BY <1>1, <1>2, <1>5 DEF BranchKnown
<1>7. Root(r.conv) \in Conversations
  BY <1>1, RootFacts DEF Equipped, Request
<1>. DEFINE e == Detaching(r, b)
<1>8. e = [number |-> m[2] + 1, kind |-> "detach", conversation |-> Root(r.conv),
           commit |-> NoId, package |-> NoId, named |-> FALSE]
  BY <1>3 DEF Detaching, NextRecord
<1>9. e \in Record /\ e.kind = "detach" /\ e.conversation = Root(r.conv)
      /\ e.commit = NoId /\ e.package = NoId /\ e.number = m[2] + 1
  <2>1. m[2] + 1 \in Nat /\ "detach" \in Kinds
    BY <1>3 DEF Kinds
  <2>. HIDE DEF e
  <2>. QED
    BY <1>7, <1>8, <2>1 DEF Record
<1>10. Suits(b, e)
  <2>. HIDE DEF e
  <2>. QED
    BY <1>1, <1>5, <1>9, RowFacts DEF Suits, NoId
<1>. QED
  BY <1>3, <1>4, <1>5, <1>6, <1>9, <1>10

LEMMA DropAllStep ==
  ASSUME Consistent, NEW s \in Slots, DropAll(s)
  PROVE  Consistent'
<1>. DEFINE r == req[s]
            D == {m[1] : m \in r.marks}
            l == [r EXCEPT !.marks = {}]
            pc == IF r.op = "attach" THEN "resolve" ELSE "free"
            n == Rebuilding(l, D, pc)
<1>1. r \in Request /\ Knows(r) /\ r.pc = "drop" /\ RowsOK /\ TablesSound /\ Equipped(r) /\ Loads(r)
  BY InvFacts DEF DropAll, At
<1>2. CASE End(s) /\ UNCHANGED tables
  BY <1>2, EndStep
<1>3. CASE /\ \A m \in r.marks : CanAppend(m[1], m[2])
           /\ records' = [b \in BranchIds |->
                IF b \in D THEN Append(records[b], Detaching(r, b)) ELSE records[b]]
           /\ memory' = [b \in BranchIds |->
                IF b \in D THEN Appended(b, SeenOf(r, b), Detaching(r, b)) ELSE memory[b]]
           /\ Go(s, n)
           /\ UNCHANGED <<repository, conversation, branch, opened, commits, digest>>
  <2>1. \A b \in D : /\ b \in 1 .. opened /\ b \in BranchIds /\ BranchExists(b)
                     /\ SeenOf(r, b) = Len(records[b])
                     /\ Detaching(r, b) \in Record /\ Suits(b, Detaching(r, b))
    BY <1>1, <1>3, DetachingFacts
  <2>. DEFINE next == [b \in D |-> Detaching(r, b)]
  <2>. HIDE DEF r, D
  <2>2. /\ D \in SUBSET BranchIds /\ next \in [D -> Record]
        /\ \A b \in D : BranchExists(b) /\ Suits(b, next[b])
    BY <2>1
  <2>3. /\ \A b \in BranchIds :
             /\ records'[b] = IF b \in D THEN Append(records[b], next[b]) ELSE records[b]
             /\ memory'[b] = IF b \in D THEN Appended(b, Len(records[b]), next[b]) ELSE memory[b]
        /\ records' = [b \in BranchIds |-> records'[b]] /\ memory' = [b \in BranchIds |-> memory'[b]]
    BY <1>3, <2>1
  <2>. HIDE DEF next
  <2>4. TablesSound' /\ Evolves
    BY <1>1, <1>3, <2>2, <2>3, AppendsStep
  <2>5. r.op \in {"attach", "detach"} /\ r.conv # None
    BY <1>1 DEF Equipped, Stage
  <2>6. CASE r.op # "attach"
    <3>1. D \in SUBSET (1 .. opened) /\ l \in Request /\ n = Rebuilding(l, D, "free")
      <4>1. {} \in Marks
        BY DEF Marks
      <4>2. l \in Request
        BY <1>1, <4>1, SetMarks, Zenon
      <4>3. pc = "free"
        BY <2>6
      <4>. HIDE DEF l, pc
      <4>4. n = Rebuilding(l, D, "free")
        BY <4>3
      <4>. QED
        BY <2>1, <4>2, <4>4
    <3>. HIDE DEF l, n
    <3>. QED
      BY <1>1, <1>3, <2>4, <3>1, RebuilderKnows, WriteStep DEF r
  <2>7. CASE r.op = "attach"
    <3>1. l \in Request
      <4>1. {} \in Marks
        BY DEF Marks
      <4>. QED
        BY <1>1, <4>1 DEF Request
    <3>2. /\ l.op = "attach" /\ l.conv = r.conv /\ l.new = r.new
          /\ l.commit = r.commit /\ l.package = r.package /\ l.named = r.named
      BY <1>1, <2>7 DEF Request
    <3>3. "resolve" \in Pcs /\ pc = "resolve" /\ pc # "free"
      BY <2>7 DEF Pcs
    <3>. HIDE DEF l, pc
    <3>4. n \in Request /\ n = (IF D = {} THEN [l EXCEPT !.pc = pc]
                ELSE [l EXCEPT !.pc = "rebuild", !.todo = D, !.then = pc])
      <4>1. n \in Request
        BY <2>2, <3>1, <3>3, RebuildingFacts
      <4>2. CASE D = {}
        BY <3>3, <4>1, <4>2, Zenon DEF Rebuilding
      <4>3. CASE D # {}
        BY <3>3, <4>1, <4>3, Zenon DEF Rebuilding
      <4>. QED
        BY <4>2, <4>3
    <3>5. /\ n.op = "attach" /\ n.conv = r.conv /\ n.new = r.new
          /\ n.commit = r.commit /\ n.package = r.package /\ n.named = r.named
          /\ n.pc \in {"resolve", "rebuild"}
          /\ n.pc = "rebuild" => n.then = "resolve" /\ n.todo = D
      <4>1. CASE D = {}
        <5>1. n = [l EXCEPT !.pc = pc]
          BY <3>4, <4>1
        <5>2. /\ n.pc = pc /\ n.op = l.op /\ n.conv = l.conv /\ n.new = l.new
              /\ n.commit = l.commit /\ n.package = l.package /\ n.named = l.named
          BY <3>1, <5>1 DEF Request
        <5>. HIDE DEF n
        <5>. QED
          BY <3>2, <3>3, <5>2
      <4>2. CASE D # {}
        <5>1. n = [l EXCEPT !.pc = "rebuild", !.todo = D, !.then = pc]
          BY <3>4, <4>2
        <5>2. /\ n.pc = "rebuild" /\ n.todo = D /\ n.then = pc
              /\ n.op = l.op /\ n.conv = l.conv /\ n.new = l.new
              /\ n.commit = l.commit /\ n.package = l.package /\ n.named = l.named
          BY <3>1, <5>1 DEF Request
        <5>. HIDE DEF n
        <5>. QED
          BY <3>2, <3>3, <5>2
      <4>. QED
        BY <4>1, <4>2
    <3>. HIDE DEF n
    <3>6. Stage(n) = "resolve"
      BY <3>5 DEF Stage
    <3>7. Equipped(n) /\ Loads(n)
      <4>1. r.commit = NoId /\ r.commit = r.package /\ ~r.named
        BY <1>1, <2>7 DEF Equipped
      <4>2. Equipped(n)
        BY <2>5, <3>5, <3>6, <4>1 DEF Equipped
      <4>3. Loads(n)
        BY <1>1, <3>5 DEF Loads
      <4>. QED
        BY <4>2, <4>3
    <3>8. PushKnows(n) /\ BranchKnown(n)
      BY <3>5, <3>6 DEF PushKnows, BranchKnown
    <3>9. DigestKnown(n)
      BY <2>1, <3>5 DEF DigestKnown
    <3>. QED
      BY <1>3, <2>4, <3>4, <3>5, <3>6, <3>7, <3>8, <3>9, WriteStep DEF Knows, r
  <2>. QED
    BY <2>6, <2>7
<1>. QED
  BY <1>2, <1>3 DEF DropAll, Detaching, SeenOf
-----------------------------------------------------------------------------
(* Digests *)

\* The digest of a branch is written.
LEMMA DigestRowStep ==
  ASSUME TablesSound, NEW b \in BranchIds, NEW row \in Digest, digest' = [digest EXCEPT ![b] = row],
         UNCHANGED <<repository, conversation, branch, opened, memory, records, commits>>,
         row.sync \in DOMAIN records[b],
         row.commit = IF records[b][row.sync].kind = "detach" THEN NoId
                      ELSE records[b][row.sync].commit
  PROVE  TablesSound' /\ Evolves
<1>1. RowsOK /\ ReferencesOK
  BY DEF TablesSound, TablesOK
<1>2. TablesOK'
  BY <1>1 DEF TablesOK, RowsOK, ReferencesOK
<1>3. VersionsAgree' /\ Numbered'
  BY DEF TablesSound, VersionsAgree, BranchExists, Latest, Numbered
<1>4. \A o \in BranchIds : digest'[o] = IF o = b THEN row ELSE digest[o]
  BY <1>1 DEF RowsOK
<1>5. DigestDescribesRecord'
  BY <1>4 DEF TablesSound, DigestDescribesRecord
<1>6. \A c \in Conversations : Lineage(c)' = Lineage(c) /\ Root(c)' = Root(c)
  BY SameParents
<1>7. Families' /\ RecordsSound'
  BY <1>6 DEF TablesSound, Families, RecordsSound, CommitsOf
<1>8. Evolves
  BY <1>1, <1>6 DEF Evolves, Extended, RowsOK
<1>. QED
  BY <1>2, <1>3, <1>5, <1>7, <1>8 DEF TablesSound

\* The request goes on with the other digests, or with what it was about.
LEMMA PublisherKnows ==
  ASSUME Consistent, NEW r \in Request, Knows(r), r.pc = "publish"
  PROVE  LET n == Rebuilding([r EXCEPT !.todo = {}, !.read = NoDigest], r.todo \ {r.branch}, r.then)
         IN  n \in Request /\ Knows(n) /\ n.new \in {None, r.new} /\ n.pc \notin {"date", "generate", "write"} /\ Stage(n) # "write"
<1>. DEFINE l == [r EXCEPT !.todo = {}, !.read = NoDigest]
            rest == r.todo \ {r.branch}
            then == r.then
            n == Rebuilding(l, rest, then)
<1>1. /\ RowsOK /\ Equipped(r) /\ Loads(r) /\ PushKnows(r) /\ BranchKnown(r) /\ DigestKnown(r)
      /\ Stage(r) = then
  BY DEF Consistent, TypeOK, TablesOK, Knows, Stage
<1>2. then \in {"free", "append", "resolve"} /\ r.op # "push"
  BY <1>1 DEF Equipped
<1>3. rest \in SUBSET (1 .. opened) /\ rest \in SUBSET BranchIds
  BY <1>1, RowFacts DEF DigestKnown
<1>4. l \in Request
  <2>1. {} \in SUBSET BranchIds /\ NoDigest \in Digest
    BY DEF NoDigest, Digest, NoId
  <2>. QED
    BY <2>1, SetTodo, SetRead, Zenon
<1>5. /\ l.op = r.op /\ l.then = r.then /\ l.conv = r.conv /\ l.new = r.new /\ l.subject = r.subject
      /\ l.branch = r.branch /\ l.seen = r.seen /\ l.marks = r.marks /\ l.prev = r.prev
      /\ l.target = r.target /\ l.repo = r.repo
      /\ l.commit = r.commit /\ l.package = r.package /\ l.named = r.named
  BY DEF Request
<1>6. CASE then = "free"
  <2>1. n = Rebuilding(l, rest, "free")
    BY <1>6
  <2>. HIDE DEF l, rest, n
  <2>2. n \in Request /\ Knows(n) /\ n.new = None /\ n.pc \notin {"date", "generate", "write"} /\ Stage(n) = "free"
    BY <1>1, <1>3, <1>4, <2>1, RebuilderKnows
  <2>. QED
    BY <2>2 DEF n, l, rest
<1>7. CASE then # "free"
  <2>1. then \in Pcs
    BY <1>2 DEF Pcs
  <2>. HIDE DEF l, rest, then
  <2>2. n \in Request
    BY <1>3, <1>4, <2>1, RebuildingFacts
  <2>3. n = IF rest = {} THEN [l EXCEPT !.pc = then]
            ELSE [l EXCEPT !.pc = "rebuild", !.todo = rest, !.then = then]
    <3>1. CASE rest = {}
      BY <1>7, <3>1, Zenon DEF Rebuilding
    <3>2. CASE rest # {}
      BY <1>7, <3>2, Zenon DEF Rebuilding
    <3>. QED
      BY <3>1, <3>2
  <2>4. /\ n.op = r.op /\ n.conv = r.conv /\ n.new = r.new /\ n.subject = r.subject
        /\ n.branch = r.branch /\ n.seen = r.seen /\ n.marks = r.marks /\ n.prev = r.prev
        /\ n.target = r.target /\ n.repo = r.repo
        /\ n.commit = r.commit /\ n.package = r.package /\ n.named = r.named
        /\ n.pc = IF rest = {} THEN then ELSE "rebuild"
        /\ rest # {} => n.todo = rest /\ n.then = then
    BY <1>4, <1>5, <2>3 DEF Request
  <2>. HIDE DEF n
  <2>5. Stage(n) = then /\ Stage(n) \in {"append", "resolve"} /\ n.pc \in {"append", "resolve", "rebuild"}
    BY <1>2, <1>7, <2>4 DEF Stage
  <2>6. n.pc = "rebuild" => n.todo = rest /\ n.then = then
    BY <1>2, <2>4
  <2>7. Equipped(n)
    BY <1>1, <1>2, <2>4, <2>5, <2>6 DEF Equipped
  <2>8. Loads(n)
    BY <1>1, <2>4 DEF Loads
  <2>9. PushKnows(n)
    BY <1>2, <2>4 DEF PushKnows
  <2>10. BranchKnown(n)
    BY <1>1, <1>2, <2>4, <2>5 DEF BranchKnown
  <2>11. DigestKnown(n)
    <3>1. then = "append" => rest = {}
      BY <1>1 DEF DigestKnown, rest, then
    <3>. QED
      BY <1>3, <2>4, <2>5, <2>6, <3>1 DEF DigestKnown
  <2>. QED
    BY <2>2, <2>4, <2>5, <2>7, <2>8, <2>9, <2>10, <2>11 DEF Knows, n, l, rest, then
<1>. QED
  BY <1>6, <1>7

LEMMA PublishStep ==
  ASSUME Consistent, NEW s \in Slots, Publish(s)
  PROVE  Consistent'
<1>. DEFINE b == req[s].branch
            n == Rebuilding([req[s] EXCEPT !.todo = {}, !.read = NoDigest],
                            req[s].todo \ {req[s].branch}, req[s].then)
<1>1. /\ req[s] \in Request /\ Knows(req[s]) /\ DigestKnown(req[s]) /\ req[s].pc = "publish"
      /\ RowsOK /\ TablesSound
  BY InvFacts DEF Publish, At
<1>2. CASE Go(s, AfterFailure(req[s], b)) /\ UNCHANGED tables
  BY <1>1, <1>2, AfterFailureStep
<1>3. CASE /\ BranchExists(b)
           /\ digest' = [digest EXCEPT ![b] = [req[s].read EXCEPT !.version = @ + 1]]
           /\ Go(s, n)
           /\ UNCHANGED <<repository, conversation, branch, opened, memory, records, commits>>
  <2>. DEFINE read == req[s].read
              row == [read EXCEPT !.version = @ + 1]
  <2>1. b \in BranchIds
    BY <1>1, RowFacts DEF DigestKnown
  <2>2. read \in Digest
    BY <1>1 DEF Request
  <2>3. row \in Digest /\ row.sync = read.sync /\ row.commit = read.commit
    <3>. HIDE DEF read
    <3>. QED
      BY <2>2 DEF Digest
  <2>4. /\ read.sync \in DOMAIN records[b]
        /\ read.commit = IF records[b][read.sync].kind = "detach" THEN NoId
                         ELSE records[b][read.sync].commit
    BY <1>1, <1>3 DEF DigestKnown
  <2>5. digest' = [digest EXCEPT ![b] = row]
    BY <1>3
  <2>. HIDE DEF row, read
  <2>6. TablesSound' /\ Evolves
    <3>1. UNCHANGED <<repository, conversation, branch, opened, memory, records, commits>>
      BY <1>3
    <3>2. /\ row.sync \in DOMAIN records[b]
          /\ row.commit = IF records[b][row.sync].kind = "detach" THEN NoId
                          ELSE records[b][row.sync].commit
      BY <2>3, <2>4
    <3>3. row \in Digest
      BY <2>3
    <3>. HIDE DEF b
    <3>. QED
      BY <1>1, <2>1, <2>5, <3>1, <3>2, <3>3, DigestRowStep
  <2>7. n \in Request /\ Knows(n) /\ n.new \in {None, req[s].new} /\ n.pc \notin {"date", "generate", "write"} /\ Stage(n) # "write"
    BY <1>1, PublisherKnows
  <2>. HIDE DEF n
  <2>. QED
    BY <1>3, <2>6, <2>7, WriteStep
<1>. QED
  BY <1>2, <1>3 DEF Publish

-----------------------------------------------------------------------------
(* Branches and repositories that go *)

\* Rows of a branch go with it.
LEMMA RemovedStep ==
  ASSUME TablesSound, TablesOK', NEW gone \in SUBSET BranchIds, Removed(gone),
         \A c \in Conversations : /\ conversation'[c].parent = conversation[c].parent
                                  /\ conversation'[c].exists = conversation[c].exists
  PROVE  TablesSound' /\ Evolves
<1>1. RowsOK /\ UNCHANGED <<opened, commits>>
  BY DEF TablesSound, TablesOK, Removed
<1>2. \A b \in BranchIds :
        /\ b \in gone => /\ branch'[b] = NoBranch /\ memory'[b] = NoMemory
                          /\ records'[b] = <<>> /\ digest'[b] = NoDigest
        /\ b \notin gone => /\ branch'[b] = branch[b] /\ memory'[b] = memory[b]
                             /\ records'[b] = records[b] /\ digest'[b] = digest[b]
  BY DEF Removed
<1>3. /\ NoBranch.repository = None /\ ~NoBranch.default /\ NoMemory.version = 0
      /\ NoMemory.synced = 0 /\ NoMemory.latest = 0 /\ NoDigest.version = 0
  BY DEF NoBranch, NoMemory, NoDigest
<1>4. VersionsAgree'
  <2>1. ASSUME NEW b \in BranchIds
        PROVE  /\ \A i \in DOMAIN records'[b] : records'[b][i].number = i
               /\ memory'[b].version = Len(records'[b])
               /\ memory'[b].synced = memory'[b].version
               /\ memory'[b].latest = memory'[b].version
               /\ branch'[b].repository # None <=> Len(records'[b]) > 0
               /\ branch'[b].repository # None =>
                    (memory'[b].ready <=> records'[b][memory'[b].latest].kind = "push")
    <3>1. CASE b \in gone
      <4>1. Len(<<>>) = 0 /\ DOMAIN <<>> = {}
        OBVIOUS
      <4>. QED
        BY <1>2, <1>3, <3>1, <4>1
    <3>2. CASE b \notin gone
      BY <1>2, <3>2 DEF TablesSound, VersionsAgree, BranchExists, Latest
    <3>. QED
      BY <3>1, <3>2
  <2>. QED
    BY <2>1 DEF VersionsAgree, BranchExists, Latest
<1>5. DigestDescribesRecord'
  BY <1>2, <1>3 DEF TablesSound, DigestDescribesRecord
<1>6. Numbered'
  BY <1>1, <1>2, <1>3 DEF TablesSound, Numbered, BranchExists
<1>7. \A c \in Conversations : Lineage(c)' = Lineage(c) /\ Root(c)' = Root(c)
  BY SameParents
<1>8. Families'
  <2>1. /\ \A c \in Conversations : Lineage(c) \subseteq Conversations
        /\ \A c \in Conversations : conversation[c].parent \in Conversations \cup {None}
        /\ \A k \in DOMAIN commits : commits[k].conversation \in Conversations
    BY <1>1, RowFacts, CommitFacts DEF Lineage
  <2>2. \A c \in Conversations : \E a \in Lineage(c)' : conversation'[a].parent = None
    BY <1>7, <2>1 DEF TablesSound, Families
  <2>. QED
    BY <1>1, <2>1, <2>2 DEF TablesSound, Families
<1>9. RecordsSound'
  <2>1. ASSUME NEW b \in BranchIds
        PROVE  records'[b] = records[b] \/ DOMAIN records'[b] = {}
    BY <1>2
  <2>. QED
    BY <1>1, <2>1 DEF TablesSound, RecordsSound, CommitsOf
<1>10. Evolves
  <2>1. \A b \in 1 .. opened : b \in BranchIds
    BY <1>1, RowFacts
  <2>2. ASSUME NEW b \in BranchIds
        PROVE  /\ branch'[b].repository \in {branch[b].repository, None}
               /\ branch'[b].default => branch[b].default
               /\ branch'[b].repository # None => Extended(b)
    BY <1>2, <1>3 DEF Extended
  <2>3. opened' \in opened .. MaxBranches
    BY <1>1 DEF RowsOK
  <2>. QED
    BY <1>1, <1>7, <2>1, <2>2, <2>3 DEF Evolves
<1>. QED
  BY <1>4, <1>5, <1>6, <1>8, <1>9, <1>10 DEF TablesSound

\* The types of rows that are not there.
LEMMA RemovedType ==
  ASSUME RowsOK, NEW gone \in SUBSET BranchIds, Removed(gone),
         repository' \in [Repositories -> {"absent", "live", "archived", "deleted"}],
         conversation' \in [Conversations -> ConversationRow]
  PROVE  RowsOK'
<1>1. /\ NoBranch \in BranchRow /\ NoMemory \in MemoryRow /\ NoDigest \in Digest
      /\ <<>> \in Seq(Record)
  BY DEF NoBranch, BranchRow, NoMemory, MemoryRow, NoDigest, Digest, NoId
<1>. QED
  BY <1>1 DEF RowsOK, Removed

LEMMA WritePruneStep ==
  ASSUME Consistent, NEW s \in Slots, WritePrune(s)
  PROVE  Consistent'
<1>1. PICK b : b = req[s].branch
  OBVIOUS
<1>2. /\ RowsOK /\ ReferencesOK /\ TablesSound /\ b \in BranchIds
  BY <1>1, InvFacts, RowFacts DEF WritePrune, Doing, BranchKnown, TablesSound, TablesOK
<1>3. Removed({b}) /\ End(s) /\ UNCHANGED <<repository, conversation>>
  BY <1>1 DEF WritePrune
<1>4. RowsOK'
  BY <1>2, <1>3, RemovedType DEF RowsOK
<1>5. ReferencesOK'
  BY <1>2, <1>3 DEF ReferencesOK, Removed, NoBranch
<1>6. TablesSound' /\ Evolves
  BY <1>2, <1>3, <1>4, <1>5, RemovedStep DEF TablesOK
<1>. QED
  BY <1>3, <1>6, LastStep DEF Removed

LEMMA WriteDeleteStep ==
  ASSUME Consistent, NEW s \in Slots, WriteDelete(s)
  PROVE  Consistent'
<1>1. PICK r : r = req[s].target
  OBVIOUS
<1>2. /\ RowsOK /\ ReferencesOK /\ TablesSound /\ r \in Repositories
  BY <1>1, InvFacts DEF WriteDelete, Doing, Equipped, Stage, Request, TablesSound, TablesOK
<1>3. /\ Removed(BranchesOf(r)) /\ End(s) /\ repository' = [repository EXCEPT ![r] = "deleted"]
      /\ conversation' = [c \in Conversations |->
           IF conversation[c].repository = r THEN [conversation[c] EXCEPT !.repository = None]
           ELSE conversation[c]]
  BY <1>1 DEF WriteDelete
<1>4. BranchesOf(r) \in SUBSET BranchIds
  BY DEF BranchesOf
<1>5. \A c \in Conversations :
        /\ conversation'[c] \in ConversationRow
        /\ conversation'[c].repository = IF conversation[c].repository = r THEN None
                                         ELSE conversation[c].repository
        /\ conversation'[c].parent = conversation[c].parent
        /\ conversation'[c].exists = conversation[c].exists
  <2>1. ASSUME NEW c \in Conversations, NEW row \in ConversationRow, row = conversation[c]
        PROVE  /\ conversation'[c] \in ConversationRow
               /\ conversation'[c].repository = IF row.repository = r THEN None ELSE row.repository
               /\ conversation'[c].parent = row.parent
               /\ conversation'[c].exists = row.exists
    BY <1>3, <2>1 DEF ConversationRow
  <2>. QED
    BY <1>2, <2>1 DEF RowsOK
<1>6. RowsOK'
  <2>1. conversation' \in [Conversations -> ConversationRow]
    BY <1>3, <1>5
  <2>2. repository' \in [Repositories -> {"absent", "live", "archived", "deleted"}]
    BY <1>2, <1>3 DEF RowsOK
  <2>. QED
    BY <1>2, <1>3, <1>4, <2>1, <2>2, RemovedType
<1>7. ReferencesOK'
  <2>1. \A o \in Repositories : o # r => repository'[o] = repository[o]
    BY <1>2, <1>3 DEF RowsOK
  <2>2. \A b \in BranchIds : branch'[b].repository # None =>
          branch'[b].repository = branch[b].repository /\ branch[b].repository # r
    BY <1>3 DEF Removed, BranchesOf, NoBranch
  <2>3. \A b \in BranchIds : branch[b].repository \in Repositories \cup {None}
    BY <1>2, RowFacts
  <2>4. \A c \in Conversations : conversation[c].repository \in Repositories \cup {None}
    BY <1>2, RowFacts
  <2>. QED
    BY <1>2, <1>5, <2>1, <2>2, <2>3, <2>4 DEF ReferencesOK
<1>8. TablesSound' /\ Evolves
  BY <1>2, <1>3, <1>4, <1>5, <1>6, <1>7, RemovedStep DEF TablesOK
<1>. QED
  BY <1>3, <1>5, <1>8, LastStep DEF Removed
-----------------------------------------------------------------------------
(* The inductive invariant *)

LEMMA CreateRepositoryStep ==
  ASSUME Consistent, NEW s \in Slots, NEW r \in Repositories, CreateRepository(s, r)
  PROVE  Consistent'
BY RepositoryStep DEF CreateRepository

LEMMA ArchiveRepositoryStep ==
  ASSUME Consistent, NEW s \in Slots, NEW r \in Repositories, ArchiveRepository(s, r)
  PROVE  Consistent'
BY RepositoryStep DEF ArchiveRepository

LEMMA RestoreRepositoryStep ==
  ASSUME Consistent, NEW s \in Slots, NEW r \in Repositories, RestoreRepository(s, r)
  PROVE  Consistent'
BY RepositoryStep DEF RestoreRepository

\* There is nothing yet: no branch, no commit, no chain of parents.
LEMMA MemoryInit == Init => Consistent
<1>. SUFFICES ASSUME Init
              PROVE  Consistent
  OBVIOUS
<1>1. /\ \A c \in Conversations : /\ conversation[c] \in ConversationRow
                                  /\ conversation[c].parent = None /\ conversation[c].repository = None
      /\ conversation = [c \in Conversations |-> conversation[c]]
  <2>1. ASSUME NEW f \in BOOLEAN, NEW row, row = [NewConversation EXCEPT !.exists = f, !.coding = f]
        PROVE  row \in ConversationRow /\ row.parent = None /\ row.repository = None
    BY <2>1 DEF NewConversation, ConversationRow
  <2>2. ASSUME NEW c \in Conversations
        PROVE  /\ conversation[c] \in ConversationRow
               /\ conversation[c].parent = None /\ conversation[c].repository = None
    <3>1. (c \in Founders) \in BOOLEAN
      OBVIOUS
    <3>2. conversation[c] = [NewConversation EXCEPT !.exists = c \in Founders, !.coding = c \in Founders]
      BY Zenon DEF Init
    <3>. QED
      BY <2>1, <3>1, <3>2, Zenon
  <2>3. conversation = [c \in Conversations |-> conversation[c]]
    BY Zenon DEF Init
  <2>. QED
    BY <2>2, <2>3
<1>2. /\ NoBranch \in BranchRow /\ NoMemory \in MemoryRow /\ NoDigest \in Digest
      /\ <<>> \in Seq(Record) /\ <<>> \in Seq(CommitRow) /\ Len(<<>>) = 0 /\ DOMAIN <<>> = {}
  BY DEF NoBranch, BranchRow, NoMemory, MemoryRow, NoDigest, Digest, NoId
<1>0. MaxBranches \in Nat /\ MaxCommits \in Nat /\ MaxRequests \in Nat
  OBVIOUS
<1>3. RowsOK
  <2>1. conversation \in [Conversations -> ConversationRow]
    BY <1>1
  <2>2. repository \in [Repositories -> {"absent", "live", "archived", "deleted"}]
    BY DEF Init
  <2>3. /\ branch \in [BranchIds -> BranchRow] /\ memory \in [BranchIds -> MemoryRow]
        /\ records \in [BranchIds -> Seq(Record)] /\ digest \in [BranchIds -> Digest]
    BY <1>2 DEF Init
  <2>4. opened \in 0 .. MaxBranches /\ commits \in Seq(CommitRow) /\ Len(commits) <= MaxCommits
    <3>1. opened = 0 /\ commits = <<>>
      BY DEF Init
    <3>. QED
      BY <1>0, <1>2, <3>1
  <2>. QED
    BY <2>1, <2>2, <2>3, <2>4 DEF RowsOK
<1>4. \A b \in BranchIds : /\ branch[b].repository = None /\ records[b] = <<>> /\ memory[b] = NoMemory
                           /\ digest[b].version = 0
  BY DEF Init, NoBranch, NoDigest
<1>5. ReferencesOK
  BY <1>1, <1>4 DEF ReferencesOK
<1>6. VersionsAgree /\ DigestDescribesRecord /\ Numbered
  BY <1>2, <1>4 DEF VersionsAgree, DigestDescribesRecord, Numbered, BranchExists, NoMemory
<1>7. Families
  <2>1. \A c \in Conversations : c \in Lineage(c)
    BY DEF Lineage
  <2>2. DOMAIN commits = {}
    BY <1>2 DEF Init
  <2>. QED
    BY <1>1, <2>1, <2>2 DEF Families
<1>8. RecordsSound
  BY <1>2, <1>4 DEF RecordsSound
<1>9. TablesSound
  BY <1>3, <1>5, <1>6, <1>7, <1>8 DEF TablesSound, TablesOK
<1>10. TypeOK
  <2>1. req \in [Slots -> Request]
    BY FreeFacts DEF Init
  <2>2. issued \in 0 .. MaxRequests
    <3>1. issued = 0
      BY DEF Init
    <3>. QED
      BY <1>0, <3>1
  <2>3. clock \in Nat
    BY DEF Init
  <2>. QED
    BY <1>3, <1>5, <2>1, <2>2, <2>3 DEF TypeOK, TablesOK
<1>11. RequestsKnow
  <2>1. \A s \in Slots : req[s] = Free
    BY DEF Init
  <2>2. Knows(Free)
    BY <1>3, FreeKnows
  <2>3. Committing = {}
    BY <2>1, FreeFacts DEF Committing
  <2>4. Len(commits) + Cardinality(Committing) <= MaxCommits
    <3>1. Cardinality({}) = 0
      BY FS_EmptySet
    <3>2. commits = <<>>
      BY DEF Init
    <3>. QED
      BY <1>0, <1>2, <2>3, <3>1, <3>2
  <2>. QED
    BY <2>1, <2>2, <2>4, FreeFacts DEF RequestsKnow
<1>. QED
  BY <1>9, <1>10, <1>11 DEF Consistent

\* Whatever a request begins with leaves the invariant true.
LEMMA BeginStep ==
  ASSUME Consistent, NEW s \in Slots, Begin(s)
  PROVE  Consistent'
<1>1. ASSUME NEW c \in Conversations, NEW r \in Repositories, Attach(s, c, r) PROVE Consistent'
  BY <1>1, AttachStep
<1>2. ASSUME NEW c \in Conversations, Detach(s, c) PROVE Consistent'
  BY <1>2, DetachStep
<1>3. ASSUME NEW c \in Conversations, EnableCoding(s, c) PROVE Consistent'
  BY <1>3, EnableCodingStep
<1>4. ASSUME NEW c \in Conversations, DisableCoding(s, c) PROVE Consistent'
  BY <1>4, DisableCodingStep
<1>5. ASSUME NEW c \in Conversations, CreateCommit(s, c) PROVE Consistent'
  BY <1>5, CreateCommitStep
<1>6. ASSUME NEW c \in Conversations, NEW new \in Conversations, Fork(s, c, new) PROVE Consistent'
  BY <1>6, ForkStep
<1>7. ASSUME NEW k \in DOMAIN commits, NEW new \in Conversations, Restore(s, k, new) PROVE Consistent'
  BY <1>7, RestoreStep
<1>8. ASSUME NEW b \in BranchIds, NEW k \in {NoId} \cup DOMAIN commits,
             NEW p \in {NoId} \cup DOMAIN commits, Push(s, b, k, p)
      PROVE  Consistent'
  BY <1>8, PushStep
<1>9. ASSUME NEW b \in BranchIds, ReadDigest(s, b) PROVE Consistent'
  BY <1>9, ReadDigestStep
<1>10. ASSUME NEW r \in Repositories, NEW n \in Names, NEW d \in BOOLEAN, CreateBranch(s, r, n, d)
       PROVE  Consistent'
  BY <1>10, CreateBranchStep
<1>11. ASSUME NEW b \in BranchIds, NEW n \in Names, RenameBranch(s, b, n) PROVE Consistent'
  BY <1>11, RenameBranchStep
<1>12. ASSUME NEW b \in BranchIds, ArchiveBranch(s, b) PROVE Consistent'
  BY <1>12, ArchiveBranchStep
<1>13. ASSUME NEW b \in BranchIds, RestoreBranch(s, b) PROVE Consistent'
  BY <1>13, RestoreBranchStep
<1>14. ASSUME NEW b \in BranchIds, DeleteBranch(s, b) PROVE Consistent'
  BY <1>14, DeleteBranchStep
<1>15. ASSUME NEW r \in Repositories, CreateRepository(s, r) PROVE Consistent'
  BY <1>15, CreateRepositoryStep
<1>16. ASSUME NEW r \in Repositories, ArchiveRepository(s, r) PROVE Consistent'
  BY <1>16, ArchiveRepositoryStep
<1>17. ASSUME NEW r \in Repositories, RestoreRepository(s, r) PROVE Consistent'
  BY <1>17, RestoreRepositoryStep
<1>18. ASSUME NEW r \in Repositories, DeleteRepository(s, r) PROVE Consistent'
  BY <1>18, DeleteRepositoryStep
<1>. QED
  BY <1>1, <1>2, <1>3, <1>4, <1>5, <1>6, <1>7, <1>8, <1>9, <1>10, <1>11, <1>12, <1>13, <1>14,
     <1>15, <1>16, <1>17, <1>18 DEF Begin

\* So does whatever it goes on with, however long it has waited.
LEMMA ContinueStep ==
  ASSUME Consistent, StampsSound, NEW s \in Slots, Continue(s)
  PROVE  Consistent'
BY WriteAttachStep, RefreshStep, WriteDetachStep, CollectStep, DropAllStep, WriteDisableStep,
   TakeTimeStep, WriteCommitStep, WriteForkStep, WriteRestoreStep, ResolveStep, OpenDefaultStep,
   AppendRecordStep, ReadForDigestStep, PublishStep, PushReadStep, WriteBranchStep,
   WritePruneStep, WriteDeleteStep, StopStep DEF Continue

LEMMA StutterStep ==
  ASSUME Consistent, UNCHANGED vars
  PROVE  Consistent'
<1>1. UNCHANGED tables /\ req' = req /\ issued' = issued /\ clock' = clock
  BY DEF vars, tables
<1>2. TablesSound' /\ Evolves
  BY <1>1, TablesUnchanged DEF Consistent
<1>3. TypeOK'
  BY <1>1, <1>2 DEF Consistent, TypeOK, TablesSound
<1>4. \A r \in {req[s] : s \in Slots}' : Knows(r)'
  <2>1. ASSUME NEW r \in {req[s] : s \in Slots} PROVE Knows(r)'
    <3>1. r \in Request /\ Knows(r)
      BY DEF Consistent, TypeOK, RequestsKnow
    <3>. QED
      BY <1>2, <3>1, KnowsKept DEF Consistent
  <2>. QED
    BY <1>1, <2>1
<1>5. Committing' = Committing
  BY <1>1 DEF Committing
<1>. QED
  BY <1>1, <1>2, <1>3, <1>4, <1>5 DEF Consistent, RequestsKnow, tables

-----------------------------------------------------------------------------
(* Timestamps *)

\* What a request has taken for its commit is kept, or given up.
Keeps(n, r) == n.created \in {0, r.created} /\ n.generated \in {0, r.generated}

\* A row or a request has the two columns.
Stamped(r) == "created" \in DOMAIN r /\ "generated" \in DOMAIN r

LEMMA StampedRequests ==
  /\ \A r \in Request : Stamped(r)
  /\ Stamped(Free) /\ Free.created = 0 /\ Free.generated = 0
<1>1. ASSUME NEW r \in Request PROVE Stamped(r)
  BY DEF Request, Stamped
<1>. QED
  BY <1>1, FreeFacts

LEMMA KeptStamps ==
  ASSUME TypeOK, StampsSound, NEW s \in Slots, NEW n, req' = [req EXCEPT ![s] = n],
         Keeps(n, req[s]), UNCHANGED <<commits, clock>>
  PROVE  StampsSound'
<1>1. \A t \in Slots : req'[t] = IF t = s THEN n ELSE req[t]
  BY DEF TypeOK
<1>2. /\ clock \in Nat
      /\ \A t \in Slots : req'[t].created \in {0, req[t].created}
                          /\ req'[t].generated \in {0, req[t].generated}
  BY <1>1 DEF Keeps, TypeOK
<1>. QED
  BY <1>2 DEF StampsSound

LEMMA SameStamps ==
  ASSUME StampsSound, req' = req, UNCHANGED <<commits, clock>>
  PROVE  StampsSound'
BY DEF StampsSound

LEMMA RebuildingStamps ==
  ASSUME NEW r, Stamped(r), NEW bs, NEW pc
  PROVE  Keeps(Rebuilding(r, bs, pc), r)
<1>1. Keeps(Free, r) /\ Keeps([r EXCEPT !.pc = pc], r)
  BY StampedRequests DEF Keeps, Stamped
<1>2. /\ Keeps([r EXCEPT !.pc = "rebuild", !.todo = bs, !.then = pc], r)
      /\ Keeps([Free EXCEPT !.pc = "rebuild", !.todo = bs, !.then = pc], r)
  BY StampedRequests DEF Keeps, Stamped
<1>. QED
  BY <1>1, <1>2, Zenon DEF Rebuilding

LEMMA LoadedStamps ==
  ASSUME NEW op, NEW c
  PROVE  Stamped(Loaded(op, c)) /\ Loaded(op, c).created = 0 /\ Loaded(op, c).generated = 0
BY StampedRequests DEF Loaded, Stamped

LEMMA BeginStamps ==
  ASSUME Consistent, StampsSound, NEW s \in Slots, Begin(s)
  PROVE  StampsSound'
<1>. DEFINE Zero(n) == n.created = 0 /\ n.generated = 0
            Goal == \/ req' = req /\ UNCHANGED <<commits, clock>>
                    \/ \E n : Zero(n) /\ Start(s, n)
<1>1. ASSUME NEW c \in Conversations, NEW r \in Repositories, Attach(s, c, r) PROVE Goal
  <2>1. Zero([Loaded("attach", c) EXCEPT !.target = r])
    BY LoadedStamps DEF Stamped
  <2>. QED
    BY <1>1, <2>1, Zenon DEF Attach
<1>2. ASSUME NEW c \in Conversations, Detach(s, c) \/ DisableCoding(s, c) PROVE Goal
  BY <1>2, LoadedStamps DEF Detach, DisableCoding
<1>3. ASSUME NEW c \in Conversations, CreateCommit(s, c) PROVE Goal
  <2>1. Zero([Loaded("commit", c) EXCEPT !.pc = "date"])
    BY LoadedStamps DEF Stamped
  <2>. QED
    BY <1>3, <2>1, Zenon DEF CreateCommit
<1>4. ASSUME NEW c \in Conversations, NEW new \in Conversations, Fork(s, c, new) PROVE Goal
  <2>1. Zero([Loaded("fork", c) EXCEPT !.new = new])
    BY LoadedStamps DEF Stamped
  <2>. QED
    BY <1>4, <2>1, Zenon DEF Fork
<1>5. ASSUME NEW k \in DOMAIN commits, NEW new \in Conversations, Restore(s, k, new) PROVE Goal
  <2>1. Zero([Loaded("restore", commits[k].conversation) EXCEPT
                !.new = new, !.commit = k, !.package = k])
    BY LoadedStamps DEF Stamped
  <2>. QED
    BY <1>5, <2>1, Zenon DEF Restore
<1>6. ASSUME NEW b \in BranchIds, NEW k \in {NoId} \cup DOMAIN commits,
             NEW p \in {NoId} \cup DOMAIN commits, Push(s, b, k, p)
      PROVE  Goal
  <2>1. Zero([Free EXCEPT !.op = "push", !.pc = "write", !.branch = b,
                          !.subject = Latest(b).conversation, !.seen = memory[b].version,
                          !.repo = branch[b].repository, !.commit = k,
                          !.package = p, !.named = k # NoId \/ p # NoId])
    BY StampedRequests DEF Stamped
  <2>. QED
    BY <1>6, <2>1, Zenon DEF Push
<1>7. ASSUME NEW b \in BranchIds, ReadDigest(s, b) PROVE Goal
  <2>1. Zero(Rebuilding(Free, {b}, "free"))
    BY StampedRequests, RebuildingStamps DEF Keeps
  <2>. QED
    BY <1>7, <2>1, Zenon DEF ReadDigest
<1>8. ASSUME NEW r \in Repositories, NEW name \in Names, NEW default \in BOOLEAN,
             CreateBranch(s, r, name, default)
      PROVE  Goal
  <2>. DEFINE marks == IF ~default THEN {}
                       ELSE {<<b, 0>> : b \in {o \in BranchesOf(r) : branch[o].default}}
              n == [Free EXCEPT !.op = "branch", !.pc = "write", !.target = r, !.name = name,
                                !.default = default, !.marks = marks]
  <2>1. Start(s, n)
    BY <1>8, Zenon DEF CreateBranch
  <2>2. Zero(n)
    <3>. HIDE DEF marks
    <3>. QED
      BY StampedRequests DEF Stamped
  <2>. QED
    BY <2>1, <2>2, Zenon
<1>9. ASSUME NEW b \in BranchIds, DeleteBranch(s, b) PROVE Goal
  <2>1. Zero([Free EXCEPT !.op = "prune", !.pc = "write", !.branch = b])
    BY StampedRequests DEF Stamped
  <2>. QED
    BY <1>9, <2>1, Zenon DEF DeleteBranch
<1>10. ASSUME NEW r \in Repositories, DeleteRepository(s, r) PROVE Goal
  <2>1. Zero([Free EXCEPT !.op = "delete", !.pc = "write", !.target = r])
    BY StampedRequests DEF Stamped
  <2>. QED
    BY <1>10, <2>1, Zenon DEF DeleteRepository
<1>11. \/ Goal
       \/ \E c \in Conversations : EnableCoding(s, c)
       \/ \E b \in BranchIds, n \in Names : RenameBranch(s, b, n)
       \/ \E b \in BranchIds : ArchiveBranch(s, b) \/ RestoreBranch(s, b)
       \/ \E r \in Repositories : \/ CreateRepository(s, r) \/ ArchiveRepository(s, r)
                                  \/ RestoreRepository(s, r)
  <2>. HIDE DEF Goal
  <2>. QED
    BY <1>1, <1>2, <1>3, <1>4, <1>5, <1>6, <1>7, <1>8, <1>9, <1>10 DEF Begin
<1>12. Goal
  <2>1. Once(s) /\ commits' = commits => Goal
    BY DEF Once
  <2>. HIDE DEF Goal
  <2>. QED
    BY <1>11, <2>1 DEF EnableCoding, RenameBranch, ArchiveBranch, RestoreBranch, CreateRepository,
       ArchiveRepository, RestoreRepository
<1>13. ASSUME NEW n, Zero(n), Start(s, n) PROVE StampsSound'
  <2>1. req' = [req EXCEPT ![s] = n] /\ UNCHANGED <<commits, clock>> /\ Keeps(n, req[s])
    BY <1>13 DEF Start, tables, Keeps
  <2>. QED
    BY <2>1, KeptStamps DEF Consistent
<1>. QED
  BY <1>12, <1>13, SameStamps

\* A timestamp is taken after all others.
LEMMA TakeTimeStamps ==
  ASSUME Consistent, StampsSound, NEW s \in Slots, TakeTime(s)
  PROVE  StampsSound'
<1>1. /\ req[s] \in Request /\ clock \in Nat /\ clock' = clock + 1 /\ commits' = commits
      /\ req \in [Slots -> Request]
  BY InvFacts DEF TakeTime, tables, TypeOK
<1>2. \A t \in Slots : t # s => req'[t] = req[t]
  BY <1>1 DEF TakeTime
<1>3. \/ req'[s].created = clock + 1 /\ req'[s].generated = req[s].generated
      \/ req'[s].created = req[s].created /\ req'[s].generated = clock + 1
  <2>1. CASE At(s, "date")
    <3>1. req'[s] = [req[s] EXCEPT !.pc = "generate", !.created = clock + 1]
      BY <1>1, <2>1 DEF TakeTime, At
    <3>. QED
      BY <1>1, <3>1 DEF Request
  <2>2. CASE At(s, "generate")
    <3>1. req'[s] = [req[s] EXCEPT !.pc = "write", !.generated = clock + 1]
      BY <1>1, <2>2 DEF TakeTime, At
    <3>. QED
      BY <1>1, <3>1 DEF Request
  <2>. QED
    BY <2>1, <2>2 DEF TakeTime
<1>4. \A t \in Slots : /\ req[t].created \in 0 .. clock /\ req[t].generated \in 0 .. clock
  BY <1>1 DEF StampsSound, Request
<1>5. \A t \in Slots : /\ req'[t].created \in Nat /\ req'[t].created <= clock + 1
                       /\ req'[t].generated \in Nat /\ req'[t].generated <= clock + 1
  BY <1>1, <1>2, <1>3, <1>4
<1>6. \A k \in DOMAIN commits, t \in Slots :
        commits[k].created # req'[t].created /\ commits[k].generated # req'[t].generated
  <2>1. \A k \in DOMAIN commits : commits[k].created \in 1 .. clock /\ commits[k].generated \in 1 .. clock
    BY DEF StampsSound
  <2>. QED
    BY <1>1, <1>2, <1>3, <2>1 DEF StampsSound
<1>7. \A t, u \in Slots : t # u =>
        /\ req'[t].created # 0 => req'[t].created # req'[u].created
        /\ req'[t].generated # 0 => req'[t].generated # req'[u].generated
  <2>1. \A t \in Slots \ {s} :
          /\ req'[t].created # 0 => req'[t].created # req'[s].created
          /\ req'[t].generated # 0 => req'[t].generated # req'[s].generated
          /\ req'[s].created # 0 => req'[s].created # req'[t].created
          /\ req'[s].generated # 0 => req'[s].generated # req'[t].generated
    BY <1>1, <1>2, <1>3, <1>4 DEF StampsSound
  <2>2. \A t, u \in Slots \ {s} : t # u =>
          /\ req'[t].created # 0 => req'[t].created # req'[u].created
          /\ req'[t].generated # 0 => req'[t].generated # req'[u].generated
    BY <1>2 DEF StampsSound
  <2>. QED
    BY <2>1, <2>2
<1>8. \A k \in DOMAIN commits : commits[k].created \in 1 .. clock' /\ commits[k].generated \in 1 .. clock'
  BY <1>1 DEF StampsSound
<1>. QED
  BY <1>1, <1>5, <1>6, <1>7, <1>8 DEF StampsSound

\* The row of a commit has the timestamps that its request had taken.
LEMMA WriteCommitStamps ==
  ASSUME Consistent, StampsSound, NEW s \in Slots, WriteCommit(s)
  PROVE  StampsSound'
<1>. DEFINE r == req[s]
            k == Len(commits) + 1
            row == [conversation |-> r.conv, created |-> r.created, generated |-> r.generated]
<1>1. /\ r \in Request /\ r.created # 0 /\ r.generated # 0 /\ clock \in Nat
      /\ req \in [Slots -> Request] /\ commits \in Seq(CommitRow) /\ Len(commits) \in Nat
  BY InvFacts, RowFacts DEF WriteCommit, Doing, Equipped, TypeOK
<1>2. /\ commits' = Append(commits, row) /\ clock' = clock
      /\ req' = [req EXCEPT ![s] = [r EXCEPT !.pc = "resolve", !.commit = k, !.package = k,
                                           !.created = 0, !.generated = 0]]
  BY DEF WriteCommit, Go
<1>3. /\ \A t \in Slots : t # s => req'[t] = req[t]
      /\ req'[s].created = 0 /\ req'[s].generated = 0
  <2>1. req'[s] = [r EXCEPT !.pc = "resolve", !.commit = k, !.package = k,
                           !.created = 0, !.generated = 0]
    BY <1>1, <1>2
  <2>2. req'[s].created = 0 /\ req'[s].generated = 0
    <3>. HIDE DEF r, k
    <3>. QED
      BY <1>1, <2>1 DEF Request
  <2>. QED
    BY <1>1, <1>2, <2>2
<1>4. row.created = r.created /\ row.generated = r.generated
  OBVIOUS
<1>5. /\ DOMAIN commits = 1 .. Len(commits) /\ DOMAIN commits' = 1 .. k /\ commits'[k] = row
      /\ \A i \in 1 .. Len(commits) : commits'[i] = commits[i]
  <2>1. row \in CommitRow
    BY <1>1, InvFacts DEF CommitRow, Request, WriteCommit, Doing, Equipped, Stage
  <2>. HIDE DEF row
  <2>. QED
    BY <1>1, <1>2, <2>1
<1>6. r.created \in 1 .. clock /\ r.generated \in 1 .. clock
  BY <1>1 DEF StampsSound, Request
<1>7. \A i \in DOMAIN commits' :
        \/ i = k /\ commits'[i] = row
        \/ i \in DOMAIN commits /\ i # k /\ commits'[i] = commits[i]
  BY <1>1, <1>5
<1>. HIDE DEF r, k, row
<1>8. \A i \in DOMAIN commits' :
        commits'[i].created \in 1 .. clock /\ commits'[i].generated \in 1 .. clock
  BY <1>4, <1>6, <1>7 DEF StampsSound
<1>9. \A i, o \in DOMAIN commits' : i # o =>
        commits'[i].created # commits'[o].created /\ commits'[i].generated # commits'[o].generated
  BY <1>4, <1>7 DEF StampsSound, r
<1>10. \A i \in DOMAIN commits', t \in Slots :
        commits'[i].created # req'[t].created /\ commits'[i].generated # req'[t].generated
  BY <1>1, <1>3, <1>4, <1>6, <1>7, <1>8 DEF StampsSound, r
<1>11. \A t, u \in Slots : t # u =>
        /\ req'[t].created # 0 => req'[t].created # req'[u].created
        /\ req'[t].generated # 0 => req'[t].generated # req'[u].generated
  BY <1>3 DEF StampsSound
<1>12. \A t \in Slots : req'[t].created <= clock /\ req'[t].generated <= clock
  BY <1>1, <1>3 DEF StampsSound
<1>. QED
  BY <1>2, <1>8, <1>9, <1>10, <1>11, <1>12 DEF StampsSound

LEMMA ContinueStamps ==
  ASSUME Consistent, StampsSound, NEW s \in Slots, Continue(s)
  PROVE  StampsSound'
<1>. DEFINE r == req[s]
            Goal == commits' = commits /\ \E n : Keeps(n, r) /\ Go(s, n)
<1>1. Stamped(r) /\ Keeps(Free, r)
  BY InvFacts, StampedRequests DEF Keeps
<1>2. End(s) /\ commits' = commits => Goal
  BY <1>1, Zenon DEF End
<1>3. ASSUME WriteAttach(s) PROVE Goal
  <2>1. Keeps([r EXCEPT !.pc = "refresh", !.prev = r.repo], r)
    BY <1>1 DEF Keeps, Stamped
  <2>. QED
    BY <1>2, <1>3, <2>1, Zenon DEF WriteAttach, tables
<1>4. ASSUME Refresh(s) PROVE Goal
  <2>1. \A repo, pc : Keeps([r EXCEPT !.repo = repo, !.target = None, !.pc = pc], r)
    BY <1>1 DEF Keeps, Stamped
  <2>. QED
    BY <1>4, <2>1, Zenon DEF Refresh, tables
<1>5. ASSUME WriteDetach(s) PROVE Goal
  <2>1. Keeps([r EXCEPT !.pc = "collect", !.prev = r.repo], r)
    BY <1>1 DEF Keeps, Stamped
  <2>. QED
    BY <1>5, <2>1, Zenon DEF WriteDetach
<1>6. ASSUME Collect(s) PROVE Goal
  <2>1. /\ \A marks : Keeps([r EXCEPT !.pc = "drop", !.marks = marks, !.prev = None], r)
        /\ Keeps([r EXCEPT !.pc = "resolve", !.prev = None], r)
    BY <1>1 DEF Keeps, Stamped
  <2>2. commits' = commits
    BY <1>6 DEF Collect, tables
  <2>3. PICK n : Go(s, n) /\ \/ n = Free \/ n = [r EXCEPT !.pc = "resolve", !.prev = None]
                             \/ \E marks : n = [r EXCEPT !.pc = "drop", !.marks = marks, !.prev = None]
    BY <1>6, Zenon DEF Collect
  <2>. QED
    BY <1>1, <2>1, <2>2, <2>3, Zenon
<1>7. ASSUME DropAll(s) PROVE Goal
  <2>1. Stamped([r EXCEPT !.marks = {}]) /\ Keeps([r EXCEPT !.marks = {}], r)
    BY <1>1 DEF Keeps, Stamped
  <2>2. \A bs, pc : Keeps(Rebuilding([r EXCEPT !.marks = {}], bs, pc), r)
    BY <2>1, RebuildingStamps DEF Keeps
  <2>. QED
    BY <1>2, <1>7, <2>2, Zenon DEF DropAll, tables
<1>8. ASSUME WriteDisable(s) \/ WritePrune(s) \/ WriteDelete(s) \/ Stop(s) PROVE Goal
  BY <1>2, <1>8, Zenon DEF WriteDisable, WritePrune, WriteDelete, Removed, Stop, tables
<1>9. ASSUME WriteFork(s) \/ WriteRestore(s) PROVE Goal
  <2>1. Keeps([r EXCEPT !.pc = "resolve"], r)
    BY <1>1 DEF Keeps, Stamped
  <2>. QED
    BY <1>1, <1>2, <1>9, <2>1 DEF WriteFork, WriteRestore, tables
<1>10. ASSUME Resolve(s) PROVE Goal
  <2>. DEFINE told == [Free EXCEPT !.op = r.op, !.commit = r.commit, !.package = r.package,
                         !.subject = IF r.op = "restore" THEN r.new ELSE Root(r.conv)]
  <2>1. Stamped(told) /\ told.created = 0 /\ told.generated = 0
    BY StampedRequests DEF Stamped
  <2>2. PICK n : Go(s, n) /\ \/ n = Free
                             \/ \E b, v : n = [told EXCEPT !.pc = "append", !.branch = b, !.seen = v]
                             \/ \E t : n = [told EXCEPT !.pc = "open", !.target = t]
    <3>1. \/ End(s)
          \/ Go(s, [told EXCEPT !.pc = "append", !.branch = Primary(Known(r)),
                                !.seen = memory[Primary(Known(r))].version])
          \/ Go(s, [told EXCEPT !.pc = "open", !.target = Known(r)])
      BY <1>10 DEF Resolve
    <3>. HIDE DEF told
    <3>. QED
      BY <3>1, Zenon DEF End
  <2>3. commits' = commits
    BY <1>10 DEF Resolve, tables
  <2>. HIDE DEF told
  <2>4. Keeps(n, r)
    BY <1>1, <2>1, <2>2 DEF Keeps, Stamped
  <2>. QED
    BY <2>2, <2>3, <2>4, Zenon
<1>11. ASSUME OpenDefault(s) PROVE Goal
  <2>. DEFINE m == [r EXCEPT !.branch = opened + 1, !.seen = 1, !.target = None]
  <2>1. Stamped(m) /\ Keeps(m, r)
    BY <1>1 DEF Keeps, Stamped
  <2>2. \A bs, pc : Keeps(Rebuilding(m, bs, pc), r)
    <3>. HIDE DEF m
    <3>. QED
      BY <2>1, RebuildingStamps DEF Keeps
  <2>. QED
    BY <1>2, <1>11, <2>2, Zenon DEF OpenDefault, tables
<1>12. ASSUME AppendRecord(s) PROVE Goal
  <2>1. \A bs, pc : Keeps(Rebuilding(r, bs, pc), r)
    BY <1>1, RebuildingStamps
  <2>. QED
    BY <1>1, <1>2, <1>12, <2>1, Zenon DEF AppendRecord, tables
<1>13. \A b : Keeps(AfterFailure(r, b), r)
  BY <1>1, RebuildingStamps DEF AfterFailure
<1>14. ASSUME ReadForDigest(s) PROVE Goal
  <2>1. \A b, read : Keeps([r EXCEPT !.pc = "publish", !.branch = b, !.read = read], r)
    BY <1>1 DEF Keeps, Stamped
  <2>. QED
    BY <1>13, <1>14, <2>1, Zenon DEF ReadForDigest, tables
<1>15. ASSUME Publish(s) PROVE Goal
  <2>1. Stamped([r EXCEPT !.todo = {}, !.read = NoDigest])
        /\ Keeps([r EXCEPT !.todo = {}, !.read = NoDigest], r)
    BY <1>1 DEF Keeps, Stamped
  <2>2. \A bs, pc : Keeps(Rebuilding([r EXCEPT !.todo = {}, !.read = NoDigest], bs, pc), r)
    BY <2>1, RebuildingStamps DEF Keeps
  <2>. QED
    BY <1>13, <1>15, <2>2, Zenon DEF Publish, tables
<1>16. ASSUME PushRead(s) PROVE Goal
  <2>1. /\ \A k : Keeps([r EXCEPT !.pc = "package", !.repo = None, !.commit = k], r)
        /\ \A k : Keeps([r EXCEPT !.pc = "append", !.package = k], r)
    BY <1>1 DEF Keeps, Stamped
  <2>2. PICK n : Go(s, n) /\ \/ n = Free
                             \/ \E k : n = [r EXCEPT !.pc = "package", !.repo = None, !.commit = k]
                             \/ \E k : n = [r EXCEPT !.pc = "append", !.package = k]
    BY <1>16, Zenon DEF PushRead
  <2>3. commits' = commits
    BY <1>16 DEF PushRead, tables
  <2>. QED
    BY <1>1, <2>1, <2>2, <2>3, Zenon
<1>17. ASSUME WriteBranch(s) PROVE Goal
  <2>. DEFINE m == [Free EXCEPT !.op = "branch"]
  <2>1. \A bs : Keeps(Rebuilding(m, bs, "free"), r)
    <3>1. Stamped(m) /\ m.created = 0 /\ m.generated = 0
      BY StampedRequests DEF Stamped
    <3>. HIDE DEF m
    <3>. QED
      BY <3>1, RebuildingStamps DEF Keeps
  <2>. QED
    BY <1>2, <1>17, <2>1, Zenon DEF WriteBranch, tables
<1>18. Goal => StampsSound'
  <2>. SUFFICES ASSUME commits' = commits, NEW n, Keeps(n, r), Go(s, n) PROVE StampsSound'
    OBVIOUS
  <2>1. req' = [req EXCEPT ![s] = n] /\ clock' = clock
    BY DEF Go
  <2>. QED
    BY <2>1, KeptStamps DEF Consistent
<1>. HIDE DEF Goal
<1>. QED
  BY <1>3, <1>4, <1>5, <1>6, <1>7, <1>8, <1>9, <1>10, <1>11, <1>12, <1>14, <1>15, <1>16, <1>17,
     <1>18, TakeTimeStamps, WriteCommitStamps DEF Continue

\* The tables agree with each other, and nothing a request has read can mislead
\* it when it writes: for any number of requests under way, of repositories,
\* branches and conversations, at any interleaving of their transactions, and in
\* whatever order overlapping commits are dated, packed and committed.
THEOREM MemoryHolds == Spec => []MemoryInv
<1>1. Init => MemoryInv
  <2>. SUFFICES ASSUME Init PROVE MemoryInv
    OBVIOUS
  <2>1. DOMAIN commits = {}
    <3>1. commits = <<>>
      BY DEF Init
    <3>2. DOMAIN <<>> = {}
      OBVIOUS
    <3>. QED
      BY <3>1, <3>2
  <2>2. StampsSound
    <3>1. clock = 0 /\ \A s \in Slots : req[s].created = 0 /\ req[s].generated = 0
      BY FreeFacts DEF Init
    <3>. QED
      BY <2>1, <3>1 DEF StampsSound
  <2>. QED
    BY <2>2, MemoryInit DEF MemoryInv
<1>2. ASSUME MemoryInv, [Next]_vars
      PROVE  MemoryInv'
  <2>1. Consistent /\ StampsSound
    BY <1>2 DEF MemoryInv
  <2>2. Consistent'
    BY <1>2, <2>1, BeginStep, ContinueStep, StutterStep DEF Next
  <2>3. StampsSound'
    <3>1. UNCHANGED vars => req' = req /\ UNCHANGED <<commits, clock>>
      BY DEF vars
    <3>. QED
      BY <1>2, <2>1, <3>1, BeginStamps, ContinueStamps, SameStamps DEF Next
  <2>. QED
    BY <2>2, <2>3 DEF MemoryInv
<1>. QED
  BY <1>1, <1>2, PTL DEF Spec

\* No record of a branch is lost and none shares its number: the counters that
\* _append_sync_record keeps with a version read long before agree with them.
THEOREM VersionsHold == Spec => []VersionsAgree
<1>1. MemoryInv => VersionsAgree
  BY DEF MemoryInv, Consistent, TablesSound
<1>. QED
  BY MemoryHolds, <1>1, PTL

\* A stored digest describes one record of its branch: build_repository_memory
\* never mixes two, whatever is appended while it builds.
THEOREM DigestsHold == Spec => []DigestDescribesRecord
<1>1. MemoryInv => DigestDescribesRecord
  BY DEF MemoryInv, Consistent, TablesSound
<1>. QED
  BY MemoryHolds, <1>1, PTL

\* A branch whose latest record differs from what is newest has a cause.
LEMMA CauseFacts ==
  ASSUME MemoryInv, NEW b \in BranchIds, BranchExists(b), SyncState(b) = "conflict",
         ~NamedBy(records[b], Len(records[b])), ~HandedOn(records[b], Len(records[b]))
  PROVE  Crossed(Latest(b).conversation)
<1>. DEFINE last == Latest(b)
            c == last.conversation
            first == NewestCommit(c)
            newest == NewestPackage(c)
<1>1. RowsOK /\ VersionsAgree /\ RecordsSound /\ StampsSound /\ clock \in Nat
  BY DEF MemoryInv, Consistent, TypeOK, TablesSound, TablesOK
<1>2. last \in Record /\ last = records[b][Len(records[b])] /\ Len(records[b]) \in DOMAIN records[b]
  BY <1>1, LatestFacts
<1>3. last.commit = first /\ last.package # newest
  BY Zenon DEF SyncState
<1>4. /\ CommitsOf(c) = {} => first = NoId /\ newest = NoId
      /\ CommitsOf(c) # {} =>
           /\ first \in CommitsOf(c) /\ newest \in CommitsOf(c)
           /\ \A k \in CommitsOf(c) : /\ commits[k].created <= commits[first].created
                                      /\ commits[k].generated <= commits[newest].generated
  BY <1>1, NewestFacts
<1>5. \A k, o \in CommitsOf(c) :
        /\ commits[k].created \in Nat /\ commits[k].generated \in Nat
        /\ k # o => /\ commits[k].created # commits[o].created
                    /\ commits[k].generated # commits[o].generated
  BY <1>1, CommitFacts DEF StampsSound, CommitsOf
<1>6. last.commit # last.package =>
        /\ last.package \in CommitsOf(c)
        /\ last.commit \in CommitsOf(c) =>
             commits[last.commit].generated < commits[last.package].generated
  BY <1>1, <1>2 DEF RecordsSound
<1>. HIDE DEF last, c, first, newest
<1>7. CommitsOf(c) # {} /\ first # newest
  BY <1>3, <1>4, <1>5, <1>6
<1>8. /\ first \in CommitsOf(c) /\ newest \in CommitsOf(c)
      /\ commits[newest].created < commits[first].created
      /\ commits[first].generated < commits[newest].generated
  BY <1>4, <1>5, <1>7
<1>9. Crossed(c)
  BY <1>8 DEF Crossed
<1>. QED
  BY <1>9 DEF c, last

\* A branch is reported in conflict only when a client named a commit or
\* package itself, or a push that a commit came between was handed on to
\* another conversation, or two commits of its conversation overlapped and were
\* dated in one order and packed in the other: a commit between the two queries
\* of register_push alone never does it.
THEOREM ConflictsHaveCause == Spec => []ConflictHasCause
<1>1. MemoryInv => ConflictHasCause
  BY CauseFacts DEF ConflictHasCause
<1>. QED
  BY MemoryHolds, <1>1, PTL
-----------------------------------------------------------------------------
(* The default branch *)

\* A repository's active default branch is told from its row.
LEMMA DefaultFacts ==
  ASSUME NEW r
  PROVE  /\ HasDefault(r) <=> \E b \in BranchIds : branch[b].repository = r /\ branch[b].default /\ branch[b].active
         /\ HasDefault(r)' <=> \E b \in BranchIds : branch'[b].repository = r /\ branch'[b].default /\ branch'[b].active
BY DEF HasDefault, BranchesOf

\* A new default branch takes the place of those of its repository that it
\* clears.
LEMMA OpenKeepsDefault ==
  ASSUME TablesSound, NEW r \in Repositories, NEW n \in Names, NEW default \in BOOLEAN, NEW cleared,
         CanOpen(r, n), OpenBranch(r, n, default, cleared),
         \A b \in cleared : default /\ branch[b].repository \in {r, None},
         NEW o \in Repositories, HasDefault(o)
  PROVE  HasDefault(o)'
<1>1. PICK b \in BranchIds : branch[b].repository = o /\ branch[b].default /\ branch[b].active
  BY DefaultFacts
<1>2. /\ opened + 1 \in BranchIds /\ RowsOK
      /\ branch' = [x \in BranchIds |->
           IF x = opened + 1
           THEN [repository |-> r, name |-> n, default |-> default, active |-> TRUE]
           ELSE IF x \in cleared THEN [branch[x] EXCEPT !.default = FALSE] ELSE branch[x]]
  BY DEF TablesSound, TablesOK, RowsOK, CanOpen, OpenBranch, BranchIds
<1>3. b # opened + 1
  <2>1. o # None /\ BranchExists(b)
    BY <1>1 DEF BranchExists
  <2>. QED
    BY <1>2, <2>1, RowFacts DEF TablesSound, Numbered, BranchIds
<1>4. CASE b \in cleared
  <2>1. o = r /\ default
    BY <1>1, <1>4
  <2>2. branch'[opened + 1] = [repository |-> r, name |-> n, default |-> default, active |-> TRUE]
    BY <1>2
  <2>3. branch'[opened + 1].repository = o /\ branch'[opened + 1].default /\ branch'[opened + 1].active
    BY <2>1, <2>2
  <2>. QED
    BY <1>2, <2>3, DefaultFacts
<1>5. CASE b \notin cleared
  <2>1. branch'[b] = branch[b]
    BY <1>2, <1>3, <1>5
  <2>. QED
    BY <1>1, <2>1, DefaultFacts
<1>. QED
  BY <1>4, <1>5

\* Rows that are kept, or only renamed or made active, keep it.
LEMMA RowKeepsDefault ==
  ASSUME NEW r, HasDefault(r), NEW b \in BranchIds, RowsOK,
         \A o \in BranchIds : o # b => branch'[o] = branch[o],
         \/ ~branch[b].default
         \/ /\ branch'[b].repository = branch[b].repository /\ branch'[b].default = branch[b].default
            /\ branch[b].active => branch'[b].active
  PROVE  HasDefault(r)'
<1>1. PICK o \in BranchIds : branch[o].repository = r /\ branch[o].default /\ branch[o].active
  BY DefaultFacts
<1>2. branch'[o].repository = r /\ branch'[o].default /\ branch'[o].active
  BY <1>1
<1>. QED
  BY <1>2, DefaultFacts

LEMMA RequestKeepsDefault ==
  ASSUME Consistent, NEW s \in Slots, Begin(s), NEW r \in Repositories, HasDefault(r)
  PROVE  HasDefault(r)'
<1>1. RowsOK /\ TablesSound
  BY InvFacts
<1>2. CASE branch' = branch
  BY <1>2, DefaultFacts
<1>3. ASSUME NEW b \in BranchIds, NEW n \in Names, RenameBranch(s, b, n) PROVE HasDefault(r)'
  <2>1. branch[b] \in BranchRow /\ branch' = [branch EXCEPT ![b].name = n]
    BY <1>1, <1>3 DEF RowsOK, RenameBranch
  <2>2. /\ \A o \in BranchIds : o # b => branch'[o] = branch[o]
        /\ branch'[b].repository = branch[b].repository /\ branch'[b].default = branch[b].default
        /\ branch'[b].active = branch[b].active
    BY <1>1, <2>1 DEF RowsOK, BranchRow
  <2>. QED
    BY <1>1, <2>2, RowKeepsDefault
<1>4. ASSUME NEW b \in BranchIds, ArchiveBranch(s, b) PROVE HasDefault(r)'
  <2>1. ~branch[b].default /\ \A o \in BranchIds : o # b => branch'[o] = branch[o]
    BY <1>1, <1>4 DEF RowsOK, ArchiveBranch
  <2>. QED
    BY <1>1, <2>1, RowKeepsDefault
<1>5. ASSUME NEW b \in BranchIds, RestoreBranch(s, b) PROVE HasDefault(r)'
  <2>1. branch[b] \in BranchRow /\ branch' = [branch EXCEPT ![b].active = TRUE]
    BY <1>1, <1>5 DEF RowsOK, RestoreBranch
  <2>2. /\ \A o \in BranchIds : o # b => branch'[o] = branch[o]
        /\ branch'[b].repository = branch[b].repository /\ branch'[b].default = branch[b].default
        /\ branch'[b].active
    BY <1>1, <2>1 DEF RowsOK, BranchRow
  <2>. QED
    BY <1>1, <2>2, RowKeepsDefault
<1>. QED
  BY <1>2, <1>3, <1>4, <1>5 DEF Begin, Attach, Detach, EnableCoding, DisableCoding, CreateCommit,
     Fork, Restore, Push, ReadDigest, CreateBranch, DeleteBranch, CreateRepository,
     ArchiveRepository, RestoreRepository, DeleteRepository, Start, tables

LEMMA WriteKeepsDefault ==
  ASSUME Consistent, NEW s \in Slots, Continue(s), NEW r \in Repositories, HasDefault(r)
  PROVE  HasDefault(r)' \/ repository'[r] = "deleted"
<1>1. RowsOK /\ TablesSound /\ req[s] \in Request /\ Equipped(req[s]) /\ BranchKnown(req[s])
  BY InvFacts
<1>2. CASE branch' = branch
  BY <1>2, DefaultFacts
<1>3. ASSUME OpenDefault(s) PROVE branch' = branch \/ HasDefault(r)'
  <2>1. req[s].target \in Repositories
    BY <1>1, <1>3 DEF OpenDefault, At, Equipped, Stage, Request
  <2>2. CASE CanOpen(req[s].target, DefaultName) /\ OpenBranch(req[s].target, DefaultName, TRUE, {})
    <3>1. PICK target \in Repositories : target = req[s].target
      BY <2>1
    <3>2. PICK name \in Names, default \in BOOLEAN : name = DefaultName /\ default = TRUE
      OBVIOUS
    <3>3. CanOpen(target, name) /\ OpenBranch(target, name, default, {})
      BY <2>2, <3>1, <3>2
    <3>. QED
      BY <1>1, <3>3, OpenKeepsDefault
  <2>. QED
    BY <1>3, <2>2 DEF OpenDefault, tables
<1>4. ASSUME WriteBranch(s) PROVE branch' = branch \/ HasDefault(r)'
  <2>. DEFINE target == req[s].target
              cleared == {m[1] : m \in req[s].marks}
  <2>1. target \in Repositories /\ req[s].name \in Names /\ req[s].default \in BOOLEAN
    BY <1>1, <1>4 DEF WriteBranch, Doing, Equipped, Stage, Request
  <2>2. \A b \in cleared : req[s].default /\ branch[b].repository \in {target, None}
    BY <1>1, <1>4 DEF WriteBranch, Doing, BranchKnown
  <2>3. CASE CanOpen(target, req[s].name) /\ OpenBranch(target, req[s].name, req[s].default, cleared)
    <3>. HIDE DEF target, cleared
    <3>. QED
      BY <1>1, <2>1, <2>2, <2>3, OpenKeepsDefault
  <2>. QED
    BY <1>4, <2>3 DEF WriteBranch, tables
<1>5. ASSUME WritePrune(s) PROVE HasDefault(r)'
  <2>1. PICK b : b = req[s].branch
    OBVIOUS
  <2>2. b \in BranchIds /\ ~branch[b].default
    BY <1>1, <1>5, <2>1, RowFacts DEF WritePrune, Doing, BranchKnown
  <2>3. \A o \in BranchIds : o # b => branch'[o] = branch[o]
    BY <1>5, <2>1 DEF WritePrune, Removed
  <2>. QED
    BY <1>1, <2>2, <2>3, RowKeepsDefault
<1>6. ASSUME WriteDelete(s) PROVE HasDefault(r)' \/ repository'[r] = "deleted"
  <2>1. PICK t : t = req[s].target
    OBVIOUS
  <2>2. CASE t = r
    BY <1>1, <1>6, <2>1, <2>2 DEF WriteDelete, RowsOK
  <2>3. CASE t # r
    <3>1. PICK b \in BranchIds : branch[b].repository = r /\ branch[b].default /\ branch[b].active
      BY DefaultFacts
    <3>2. branch'[b] = branch[b]
      BY <1>6, <2>1, <2>3, <3>1 DEF WriteDelete, Removed, BranchesOf
    <3>. QED
      BY <3>1, <3>2, DefaultFacts
  <2>. QED
    BY <2>2, <2>3
<1>7. \/ branch' = branch \/ OpenDefault(s) \/ WriteBranch(s) \/ WritePrune(s) \/ WriteDelete(s)
  BY DEF Continue, WriteAttach, Refresh, WriteDetach, Collect, DropAll, WriteDisable, TakeTime, WriteCommit,
     WriteFork, WriteRestore, Resolve, AppendRecord, ReadForDigest, Publish, PushRead, Stop, tables
<1>. QED
  BY <1>2, <1>3, <1>4, <1>5, <1>6, <1>7

\* Creating, archiving, restoring and deleting branches at the same time never
\* take a repository's last active default branch away: it has one until it is
\* deleted.
THEOREM DefaultsKept == Spec => KeepsDefault
<1>1. ASSUME MemoryInv, [Next]_vars
      PROVE  [\A r \in Repositories :
                HasDefault(r) => HasDefault(r)' \/ repository'[r] = "deleted"]_vars
  BY <1>1, RequestKeepsDefault, WriteKeepsDefault DEF Next, MemoryInv
<1>. QED
  BY MemoryHolds, <1>1, PTL DEF Spec, KeepsDefault
-----------------------------------------------------------------------------
(* The histories *)

Log(b) == [i \in DOMAIN records[b] |-> EntryOf(records[b][i])]

\* A record may be the next one of a branch.
Suiting(b, e) ==
  IF records[b] = <<>> THEN e.kind = "attach" /\ e.conversation = None /\ e.commit = NoId
  ELSE LET last == records[b][Len(records[b])] IN
       /\ e.kind = "push" => last.kind # "detach" /\ e.conversation = last.conversation
       /\ e.kind = "attach" => e.commit = last.commit /\ e.package = last.package
       /\ e.kind = "detach" => e.conversation = last.conversation /\ e.commit = NoId

\* What a step does to the records of a branch.
Continues(b) ==
  \/ records'[b] = records[b]
  \/ records'[b] = <<>>
  \/ \E e \in Record : records'[b] = Append(records[b], e) /\ Suiting(b, e)

\* An entry of the history says what its record says.
LEMMA EntryFacts ==
  ASSUME NEW e \in Record
  PROVE  /\ EntryOf(e) \in Entries
         /\ EntryOf(e).kind = e.kind /\ EntryOf(e).conversation = e.conversation
         /\ EntryOf(e).commit = e.commit /\ EntryOf(e).package = e.package
BY DEF EntryOf, Entries, Record

LEMMA LogFacts ==
  ASSUME NEW l \in Seq(Record)
  PROVE  LET logged == [i \in DOMAIN l |-> EntryOf(l[i])] IN
         /\ logged \in Seq(Entries) /\ Len(logged) = Len(l)
         /\ logged = <<>> <=> l = <<>>
         /\ \A i \in 1 .. Len(l) : logged[i] = EntryOf(l[i])
<1>. DEFINE logged == [i \in DOMAIN l |-> EntryOf(l[i])]
<1>1. \A i \in 1 .. Len(l) : EntryOf(l[i]) \in Entries
  BY EntryFacts
<1>2. DOMAIN l = 1 .. Len(l) /\ Len(l) \in Nat
  OBVIOUS
<1>3. logged \in [1 .. Len(l) -> Entries]
  BY <1>1, <1>2
<1>4. logged \in Seq(Entries) /\ Len(logged) = Len(l)
  BY <1>2, <1>3
<1>. QED
  BY <1>2, <1>3, <1>4

LEMMA AppendedLog ==
  ASSUME NEW l \in Seq(Record), NEW e \in Record, NEW longer, longer = Append(l, e)
  PROVE  [i \in DOMAIN longer |-> EntryOf(longer[i])]
           = Append([i \in DOMAIN l |-> EntryOf(l[i])], EntryOf(e))
<1>. DEFINE logged == [i \in DOMAIN l |-> EntryOf(l[i])]
            after == [i \in DOMAIN longer |-> EntryOf(longer[i])]
<1>1. /\ longer \in Seq(Record) /\ Len(longer) = Len(l) + 1 /\ Len(l) \in Nat
      /\ DOMAIN longer = 1 .. Len(l) + 1 /\ longer[Len(l) + 1] = e
      /\ \A i \in 1 .. Len(l) : longer[i] = l[i]
  OBVIOUS
<1>2. /\ logged \in Seq(Entries) /\ Len(logged) = Len(l)
      /\ \A i \in 1 .. Len(l) : logged[i] = EntryOf(l[i])
  BY LogFacts
<1>3. EntryOf(e) \in Entries
  BY EntryFacts
<1>. HIDE DEF logged
<1>4. /\ Append(logged, EntryOf(e)) \in Seq(Entries)
      /\ DOMAIN Append(logged, EntryOf(e)) = 1 .. Len(l) + 1
      /\ Append(logged, EntryOf(e))[Len(l) + 1] = EntryOf(e)
      /\ \A i \in 1 .. Len(l) : Append(logged, EntryOf(e))[i] = logged[i]
  BY <1>1, <1>2, <1>3
<1>5. \A i \in 1 .. Len(l) + 1 : after[i] = Append(logged, EntryOf(e))[i]
  <2>1. ASSUME NEW i \in 1 .. Len(l) + 1 PROVE after[i] = Append(logged, EntryOf(e))[i]
    <3>1. after[i] = EntryOf(longer[i])
      BY <1>1
    <3>2. CASE i = Len(l) + 1
      BY <1>1, <1>4, <3>1, <3>2
    <3>3. CASE i # Len(l) + 1
      <4>1. i \in 1 .. Len(l)
        BY <1>1, <3>3
      <4>. QED
        BY <1>1, <1>2, <1>4, <3>1, <4>1
    <3>. QED
      BY <3>2, <3>3
  <2>. QED
    BY <2>1
<1>6. DOMAIN after = 1 .. Len(l) + 1
  BY <1>1
<1>7. \A i \in 1 .. Len(l) + 1 : after[i] \in Entries
  BY <1>4, <1>5, <1>6, ElementOfSeq, LenProperties
<1>8. after \in Seq(Entries) /\ Len(after) = Len(l) + 1
  <2>1. after = [i \in 1 .. Len(l) + 1 |-> after[i]]
    BY <1>1
  <2>. HIDE DEF after
  <2>2. after \in [1 .. Len(l) + 1 -> Entries]
    BY <1>7, <2>1
  <2>. QED
    BY <1>1, <2>2
<1>9. Len(Append(logged, EntryOf(e))) = Len(l) + 1
  BY <1>2
<1>. HIDE DEF after
<1>10. after = Append(logged, EntryOf(e))
  BY <1>4, <1>5, <1>8, <1>9, SeqEqual
<1>. QED
  BY <1>10 DEF after, logged

LEMMA ContinuesImplements ==
  ASSUME RowsOK, NEW b \in BranchIds, Continues(b)
  PROVE  Histories!Step(b)
<1>. DEFINE h == [o \in BranchIds |-> [i \in DOMAIN records[o] |-> EntryOf(records[o][i])]]
<1>1. h[b] = Log(b) /\ h'[b] = Log(b)'
  BY DEF Log
<1>2. records[b] \in Seq(Record) /\ Len(records[b]) \in Nat
  BY RowFacts
<1>3. CASE records'[b] = records[b]
  <2>1. Log(b)' = Log(b)
    BY <1>3 DEF Log
  <2>. QED
    BY <1>1, <2>1 DEF Histories!Step, h
<1>4. CASE records'[b] = <<>>
  <2>1. <<>> \in Seq(Record) /\ DOMAIN <<>> = {}
    OBVIOUS
  <2>2. PICK l \in Seq(Record) : l = records'[b] /\ l = <<>>
    BY <1>4, <2>1
  <2>3. Log(b)' = <<>>
    BY <2>2, LogFacts DEF Log
  <2>. QED
    BY <1>1, <2>3 DEF Histories!Step
<1>5. ASSUME NEW e \in Record, records'[b] = Append(records[b], e), Suiting(b, e)
      PROVE  Histories!Step(b)
  <2>1. PICK l \in Seq(Record) : l = records[b]
    BY <1>2
  <2>2. Log(b)' = Append(Log(b), EntryOf(e))
    BY <1>5, <2>1, AppendedLog DEF Log
  <2>. DEFINE E == EntryOf(e)
              old == Log(b)
  <2>3. /\ E \in Entries /\ E.kind = e.kind /\ E.conversation = e.conversation
        /\ E.commit = e.commit /\ E.package = e.package
    BY EntryFacts
  <2>4. /\ old \in Seq(Entries) /\ Len(old) = Len(l) /\ (old = <<>> <=> l = <<>>)
        /\ \A i \in 1 .. Len(l) : old[i] = EntryOf(l[i])
    BY <2>1, LogFacts DEF Log
  <2>. HIDE DEF E, old
  <2>5. PICK new : new = Append(old, E)
    OBVIOUS
  <2>6. Histories!Last(new) = E
    BY <2>3, <2>4, <2>5 DEF Histories!Last
  <2>7. IF old = <<>> THEN Histories!Opening(E) ELSE Histories!Follows(Histories!Last(old), E)
    <3>1. CASE l = <<>>
      BY <1>5, <2>1, <2>3, <2>4, <3>1 DEF Suiting, Histories!Opening, NoId
    <3>2. CASE l # <<>>
      <4>1. Len(l) \in 1 .. Len(l) /\ l[Len(l)] \in Record
        BY <3>2
      <4>2. PICK last \in Record : last = l[Len(l)]
        BY <4>1
      <4>3. Histories!Last(old) = EntryOf(last)
        BY <2>4, <4>1, <4>2 DEF Histories!Last
      <4>4. /\ EntryOf(last).kind = last.kind /\ EntryOf(last).conversation = last.conversation
            /\ EntryOf(last).commit = last.commit /\ EntryOf(last).package = last.package
        BY EntryFacts
      <4>5. /\ e.kind = "push" => last.kind # "detach" /\ e.conversation = last.conversation
            /\ e.kind = "attach" => e.commit = last.commit /\ e.package = last.package
            /\ e.kind = "detach" => e.conversation = last.conversation /\ e.commit = 0
        BY <1>5, <2>1, <3>2, <4>2 DEF Suiting, NoId
      <4>. QED
        BY <2>3, <2>4, <3>2, <4>3, <4>4, <4>5 DEF Histories!Follows
    <3>. QED
      BY <3>1, <3>2
  <2>8. h[b] = old /\ h'[b] = new
    BY <1>1, <2>2, <2>5 DEF old, E
  <2>. QED
    BY <2>3, <2>5, <2>6, <2>7, <2>8 DEF Histories!Step, h
<1>. QED
  BY <1>3, <1>4, <1>5 DEF Continues

\* The history of a new branch begins with the record that opens it.
LEMMA OpenContinues ==
  ASSUME TablesSound, NEW r, NEW n, NEW default, NEW cleared,
         CanOpen(r, n), OpenBranch(r, n, default, cleared), NEW b \in BranchIds
  PROVE  Continues(b)
<1>. DEFINE first == [number |-> 1, kind |-> "attach", conversation |-> None,
                      commit |-> NoId, package |-> NoId, named |-> FALSE]
<1>1. /\ opened + 1 \in BranchIds /\ RowsOK /\ VersionsAgree /\ Numbered /\ opened \in Nat
      /\ records' = [records EXCEPT ![opened + 1] = <<first>>]
  BY DEF TablesSound, TablesOK, RowsOK, CanOpen, OpenBranch, BranchIds
<1>2. CASE b # opened + 1
  BY <1>1, <1>2 DEF Continues, RowsOK
<1>3. CASE b = opened + 1
  <2>1. /\ first \in Record /\ first.kind = "attach" /\ first.conversation = None /\ first.commit = NoId
    BY DEF Record, Kinds, NoId
  <2>. HIDE DEF first
  <2>2. ~BranchExists(b)
    BY <1>1, <1>3 DEF Numbered
  <2>3. records[b] = <<>>
    BY <1>1, <2>2, RowFacts DEF VersionsAgree
  <2>4. records'[b] = Append(records[b], first)
    <3>1. records'[b] = <<first>>
      BY <1>1, <1>3 DEF RowsOK
    <3>. QED
      BY <2>3, <3>1
  <2>5. Suiting(b, first)
    BY <2>1, <2>3 DEF Suiting
  <2>. QED
    BY <2>1, <2>4, <2>5 DEF Continues
<1>. QED
  BY <1>2, <1>3

\* A push continues the conversation that is attached, and whatever attaches
\* keeps what was synchronised.
LEMMA AppendContinues ==
  ASSUME Consistent, NEW s \in Slots, AppendRecord(s), NEW b \in BranchIds
  PROVE  Continues(b)
<1>. DEFINE r == req[s]
            e == Pending(r)
            last == records[r.branch][Len(records[r.branch])]
<1>1. /\ r \in Request /\ Knows(r) /\ r.pc = "append" /\ RowsOK /\ VersionsAgree
      /\ Equipped(r) /\ PushKnows(r) /\ Stage(r) = "append"
  BY InvFacts DEF AppendRecord, At, TablesSound, Stage
<1>2. CASE UNCHANGED tables
  BY <1>2 DEF tables, Continues
<1>3. CASE CanAppend(r.branch, r.seen) /\ records' = [records EXCEPT ![r.branch] = Append(@, e)]
  <2>1. CASE b # r.branch
    BY <1>1, <1>3, <2>1 DEF Continues, RowsOK
  <2>2. CASE b = r.branch
    <3>1. /\ b \in 1 .. opened /\ BranchExists(b) /\ Current(b, r.seen) /\ e \in Record
          /\ e.kind = (IF r.op = "attach" THEN "attach" ELSE IF r.op = "restore" THEN "restore"
                       ELSE IF r.op = "push" THEN "push" ELSE "commit")
          /\ e.conversation = r.subject
          /\ e.commit = (IF r.commit # NoId THEN r.commit ELSE Latest(b).commit)
          /\ e.package = (IF r.package # NoId THEN r.package ELSE Latest(b).package)
      BY <1>1, <1>3, <2>2, PendingFacts
    <3>2. Latest(b) = last /\ Len(records[b]) > 0 /\ records[b] # <<>>
      BY <1>1, <2>2, <3>1, LatestFacts, RowFacts
    <3>3. records'[b] = Append(records[b], e)
      BY <1>1, <1>3, <2>2 DEF RowsOK
    <3>. HIDE DEF e
    <3>4. e.kind = "push" => last.kind # "detach" /\ e.conversation = last.conversation
      BY <1>1, <2>2, <3>1, <3>2 DEF PushKnows, Detached
    <3>5. e.kind = "attach" => e.commit = last.commit /\ e.package = last.package
      BY <1>1, <3>1, <3>2 DEF Equipped
    <3>6. e.kind # "detach"
      BY <3>1
    <3>. HIDE DEF last
    <3>7. Suiting(b, e)
      BY <2>2, <3>2, <3>4, <3>5, <3>6 DEF Suiting, last
    <3>. QED
      BY <3>1, <3>3, <3>7 DEF Continues
  <2>. QED
    BY <2>1, <2>2
<1>. QED
  BY <1>2, <1>3 DEF AppendRecord, Pending

\* A branch is detached only from the conversation recorded on it last.
LEMMA DropContinues ==
  ASSUME Consistent, NEW s \in Slots, DropAll(s), NEW b \in BranchIds
  PROVE  Continues(b)
<1>. DEFINE r == req[s]
            D == {m[1] : m \in r.marks}
            e == Detaching(r, b)
            last == records[b][Len(records[b])]
<1>1. /\ r \in Request /\ Knows(r) /\ r.pc = "drop" /\ RowsOK /\ VersionsAgree
  BY InvFacts DEF DropAll, At, TablesSound
<1>2. CASE UNCHANGED tables
  BY <1>2 DEF tables, Continues
<1>3. CASE /\ \A m \in r.marks : CanAppend(m[1], m[2])
           /\ records' = [o \in BranchIds |->
                IF o \in D THEN Append(records[o], Detaching(r, o)) ELSE records[o]]
  <2>1. CASE b \notin D
    BY <1>3, <2>1 DEF Continues
  <2>2. CASE b \in D
    <3>1. /\ BranchExists(b) /\ e \in Record /\ e.kind = "detach" /\ e.commit = NoId
          /\ e.conversation = Latest(b).conversation
      BY <1>1, <1>3, <2>2, DetachingFacts
    <3>2. Latest(b) = last /\ Len(records[b]) > 0 /\ records[b] # <<>>
      BY <1>1, <3>1, LatestFacts, RowFacts
    <3>3. records'[b] = Append(records[b], e)
      BY <1>3, <2>2
    <3>. HIDE DEF e, last
    <3>4. Suiting(b, e)
      BY <3>1, <3>2 DEF Suiting, last
    <3>. QED
      BY <3>1, <3>3, <3>4 DEF Continues
  <2>. QED
    BY <2>1, <2>2
<1>. QED
  BY <1>2, <1>3 DEF DropAll, Detaching, SeenOf

LEMMA StepContinues ==
  ASSUME Consistent, [Next]_vars, NEW b \in BranchIds
  PROVE  Continues(b)
<1>1. CASE records' = records
  BY <1>1 DEF Continues
<1>2. ASSUME NEW s \in Slots, Begin(s) PROVE records' = records
  BY <1>2 DEF Begin, Attach, Detach, EnableCoding, DisableCoding, CreateCommit, Fork, Restore, Push,
     ReadDigest, CreateBranch, RenameBranch, ArchiveBranch, RestoreBranch, DeleteBranch,
     CreateRepository, ArchiveRepository, RestoreRepository, DeleteRepository, Start, tables
<1>3. ASSUME NEW s \in Slots, Continue(s)
      PROVE  \/ records' = records \/ OpenDefault(s) \/ WriteBranch(s) \/ AppendRecord(s) \/ DropAll(s)
             \/ WritePrune(s) \/ WriteDelete(s)
  BY <1>3 DEF Continue, WriteAttach, Refresh, WriteDetach, Collect, WriteDisable, TakeTime, WriteCommit,
     WriteFork, WriteRestore, Resolve, ReadForDigest, Publish, PushRead, Stop, tables
<1>4. TablesSound
  BY DEF Consistent
<1>5. ASSUME NEW s \in Slots, OpenDefault(s) PROVE Continues(b)
  <2>1. CASE UNCHANGED tables
    BY <1>1, <2>1 DEF tables
  <2>2. CASE CanOpen(req[s].target, DefaultName) /\ OpenBranch(req[s].target, DefaultName, TRUE, {})
    BY <1>4, <2>2, OpenContinues
  <2>. QED
    BY <1>5, <2>1, <2>2 DEF OpenDefault
<1>6. ASSUME NEW s \in Slots, WriteBranch(s) PROVE Continues(b)
  <2>. DEFINE cleared == {m[1] : m \in req[s].marks}
  <2>1. CASE UNCHANGED tables
    BY <1>1, <2>1 DEF tables
  <2>2. CASE /\ CanOpen(req[s].target, req[s].name)
             /\ OpenBranch(req[s].target, req[s].name, req[s].default, cleared)
    <3>. HIDE DEF cleared
    <3>. QED
      BY <1>4, <2>2, OpenContinues
  <2>. QED
    BY <1>6, <2>1, <2>2 DEF WriteBranch
<1>7. ASSUME NEW gone, Removed(gone) PROVE Continues(b)
  BY <1>7 DEF Removed, Continues
<1>8. ASSUME NEW s \in Slots, WritePrune(s) \/ WriteDelete(s) PROVE Continues(b)
  BY <1>7, <1>8 DEF WritePrune, WriteDelete
<1>. QED
  BY <1>1, <1>2, <1>3, <1>5, <1>6, <1>8, AppendContinues, DropContinues DEF Next, vars

\* The histories of branches are those SyncHistory promises: logs that are
\* opened once and only grow, whose pushes, attachments and detachments
\* continue what was recorded before them.
THEOREM HistoriesImplemented == Spec => ImplementsHistory
<1>1. Init => Histories!HistoryInit
  <2>. SUFFICES ASSUME Init PROVE Histories!HistoryInit
    OBVIOUS
  <2>1. \A b \in BranchIds : [i \in DOMAIN records[b] |-> EntryOf(records[b][i])] = <<>>
    <3>1. ASSUME NEW b \in BranchIds, NEW l \in Seq(Record), l = records[b], l = <<>>
          PROVE  [i \in DOMAIN records[b] |-> EntryOf(records[b][i])] = <<>>
      BY <3>1, LogFacts
    <3>2. \A b \in BranchIds : records[b] = <<>>
      BY DEF Init
    <3>. QED
      BY <3>1, <3>2, EmptySeq
  <2>. QED
    BY <2>1 DEF Histories!HistoryInit
<1>2. ASSUME Consistent, [Next]_vars
      PROVE  \A b \in BranchIds : Histories!Step(b)
  BY <1>2, StepContinues, ContinuesImplements DEF Consistent, TypeOK, TablesOK
<1>3. MemoryInv /\ [Next]_vars =>
        [\A b \in BranchIds : Histories!Step(b)]_([b \in BranchIds |->
           [i \in DOMAIN records[b] |-> EntryOf(records[b][i])]])
  BY <1>2 DEF MemoryInv
<1>. QED
  BY MemoryHolds, <1>1, <1>3, PTL DEF Spec, ImplementsHistory, Histories!HistorySpec
====
