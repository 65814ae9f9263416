------------------------ MODULE Conversations_proofs ------------------------
(***************************************************************************)
(* Proofs about Conversations and the views in Insights, for any users,    *)
(* requests, conversations, messages and commits.                          *)
(***************************************************************************)
EXTENDS Insights, TLAPS, WellFoundedInduction, FiniteSetTheorems, SequenceTheorems

\* A request that has been started, or goes on.
LEMMA RequestTypes ==
  /\ Free \in Request /\ ~Storing(Free) /\ Free.pc = "free"
  /\ \A c, t \in Nat, chat \in BOOLEAN :
       [Free EXCEPT !.pc = "store", !.conversation = c, !.time = t, !.chat = chat] \in Request
  /\ \A c \in Nat, row \in Commit :
       [Free EXCEPT !.pc = "date", !.conversation = c, !.row = <<row>>] \in Request
  /\ \A r \in Request, t \in Nat : [r EXCEPT !.pc = "answer", !.time = t] \in Request
  /\ \A r \in Request, row \in Commit :
       /\ [r EXCEPT !.pc = "package", !.row = <<row>>] \in Request
       /\ [r EXCEPT !.pc = "commit", !.row = <<row>>] \in Request
<1>1. /\ "free" \in Pcs /\ "store" \in Pcs /\ "answer" \in Pcs
      /\ "date" \in Pcs /\ "package" \in Pcs /\ "commit" \in Pcs
  BY DEF Pcs
<1>2. Free \in Request /\ Free.pc = "free"
  BY <1>1 DEF Free, Request, None
<1>3. ~Storing(Free)
  BY <1>2 DEF Storing
<1>4. \A c, t \in Nat, chat \in BOOLEAN :
        [Free EXCEPT !.pc = "store", !.conversation = c, !.time = t, !.chat = chat] \in Request
  BY <1>1, <1>2 DEF Request
<1>5. \A r \in Request, row \in Commit, pc \in Pcs :
        [r EXCEPT !.pc = pc, !.row = <<row>>] \in Request
  <2>1. \A row \in Commit : <<row>> \in Seq(Commit)
    OBVIOUS
  <2>. QED
    BY <2>1 DEF Request
<1>6. \A c \in Nat, row \in Commit :
        [Free EXCEPT !.pc = "date", !.conversation = c, !.row = <<row>>] \in Request
  <2>1. \A row \in Commit : <<row>> \in Seq(Commit)
    OBVIOUS
  <2>. QED
    BY <1>1, <1>2, <2>1 DEF Request
<1>7. \A r \in Request, t \in Nat : [r EXCEPT !.pc = "answer", !.time = t] \in Request
  BY <1>1 DEF Request
<1>. QED
  BY <1>1, <1>2, <1>3, <1>4, <1>5, <1>6, <1>7

USE ConversationsAssumption

-----------------------------------------------------------------------------
(* Numbers *)

\* A set of natural numbers has a least one.
LEMMA LeastNumber ==
  ASSUME NEW S \in SUBSET Nat, S # {}
  PROVE  \E n \in S : \A m \in S : n <= m
<1>. DEFINE Below == {p \in Nat \X Nat : p[1] < p[2]}
<1>1. IsWellFoundedOn(Below, Nat)
  <2>1. Below = OpToRel(<, Nat)
    BY Zenon DEF OpToRel
  <2>. QED
    BY <2>1, NatLessThanWellFounded, Zenon
<1>2. PICK n \in S : \A m \in S : <<m, n>> \notin Below
  <2>. HIDE DEF Below
  <2>. QED
    BY <1>1, WFMin, Zenon
<1>3. \A m \in S : ~ (m < n)
  BY <1>2
<1>. QED
  BY <1>3

\* A set of natural numbers with a bound has a greatest one.
LEMMA GreatestNumber ==
  ASSUME NEW S \in SUBSET Nat, S # {}, NEW max \in Nat, \A n \in S : n <= max
  PROVE  \E n \in S : \A m \in S : m <= n
<1>. DEFINE Bounds == {n \in Nat : \A m \in S : m <= n}
<1>1. PICK n \in Bounds : \A m \in Bounds : n <= m
  <2>1. Bounds \in SUBSET Nat /\ max \in Bounds
    OBVIOUS
  <2>. HIDE DEF Bounds
  <2>. QED
    BY <2>1, LeastNumber
<1>2. ASSUME n \notin S PROVE FALSE
  <2>1. \A m \in S : m < n
    BY <1>2
  <2>2. PICK m \in S : TRUE
    OBVIOUS
  <2>3. n > 0 /\ n - 1 \in Bounds
    BY <2>1, <2>2
  <2>. QED
    BY <1>1, <2>3
<1>. QED
  BY <1>1, <1>2

-----------------------------------------------------------------------------
(* What the tables hold *)

TablesOK ==
  /\ conversation \in Seq(Conversation) /\ message \in Seq(Message) /\ commit \in Seq(Commit)
  /\ clock \in Nat /\ begun \in Nat

LEMMA RowFacts ==
  ASSUME TablesOK
  PROVE  /\ Len(conversation) \in Nat /\ DOMAIN conversation = 1 .. Len(conversation)
         /\ Len(message) \in Nat /\ DOMAIN message = 1 .. Len(message)
         /\ Len(commit) \in Nat /\ DOMAIN commit = 1 .. Len(commit)
         /\ \A c \in DOMAIN conversation :
              /\ conversation[c] \in Conversation
              /\ conversation[c].parent \in Nat /\ conversation[c].point \in Nat
              /\ conversation[c].upto \in Nat /\ conversation[c].owner \in Users
         /\ \A m \in DOMAIN message :
              /\ message[m] \in Message /\ message[m].time \in Nat
              /\ message[m].conversation \in Nat /\ message[m].copy \in BOOLEAN
              /\ message[m].origin \in Nat
         /\ \A k \in DOMAIN commit :
              /\ commit[k] \in Commit /\ commit[k].conversation \in Nat
              /\ commit[k].message \in Nat /\ commit[k].parent \in Nat
              /\ commit[k].created \in Nat /\ commit[k].upto \in Nat
              /\ commit[k].introduced \in SUBSET Nat
<1>1. /\ Len(conversation) \in Nat /\ DOMAIN conversation = 1 .. Len(conversation)
      /\ \A c \in DOMAIN conversation : conversation[c] \in Conversation
  BY DEF TablesOK
<1>2. /\ Len(message) \in Nat /\ DOMAIN message = 1 .. Len(message)
      /\ \A m \in DOMAIN message : message[m] \in Message
  BY DEF TablesOK
<1>3. /\ Len(commit) \in Nat /\ DOMAIN commit = 1 .. Len(commit)
      /\ \A k \in DOMAIN commit : commit[k] \in Commit
  BY DEF TablesOK
<1>4. \A c \in DOMAIN conversation :
        /\ conversation[c].parent \in Nat /\ conversation[c].point \in Nat
        /\ conversation[c].upto \in Nat /\ conversation[c].owner \in Users
  BY <1>1 DEF Conversation
<1>5. \A m \in DOMAIN message :
        /\ message[m].time \in Nat /\ message[m].conversation \in Nat
        /\ message[m].copy \in BOOLEAN /\ message[m].origin \in Nat
  BY <1>2 DEF Message
<1>6. \A k \in DOMAIN commit :
        /\ commit[k].conversation \in Nat /\ commit[k].message \in Nat
        /\ commit[k].parent \in Nat /\ commit[k].created \in Nat /\ commit[k].upto \in Nat
        /\ commit[k].introduced \in SUBSET Nat
  BY <1>3 DEF Commit
<1>. QED
  BY <1>1, <1>2, <1>3, <1>4, <1>5, <1>6

LEMMA TablesTyped == (TypeOK => TablesOK) /\ (TypeOK' => TablesOK')
BY DEF TypeOK, TablesOK

\* A row appended comes last, and the others stay.
LEMMA Appended ==
  ASSUME NEW S, NEW q \in Seq(S), NEW e \in S, NEW p, p = Append(q, e)
  PROVE  /\ p \in Seq(S) /\ Len(p) = Len(q) + 1 /\ DOMAIN p = 1 .. Len(q) + 1
         /\ \A i \in 1 .. Len(q) : p[i] = q[i]
         /\ p[Len(q) + 1] = e
BY AppendProperties, LenProperties

Joins(p, q, e) == p = q \o e

\* So do rows in sequence.
LEMMA Joined ==
  ASSUME NEW S, NEW q \in Seq(S), NEW e \in Seq(S), NEW p, Joins(p, q, e)
  PROVE  /\ p \in Seq(S) /\ Len(p) = Len(q) + Len(e) /\ DOMAIN p = 1 .. Len(q) + Len(e)
         /\ \A i \in 1 .. Len(q) : p[i] = q[i]
         /\ \A i \in 1 .. Len(e) : p[Len(q) + i] = e[i]
         /\ \A n \in DOMAIN p : n \notin 1 .. Len(q) => n - Len(q) \in 1 .. Len(e) /\ p[n] = e[n - Len(q)]
<1>1. /\ p \in Seq(S) /\ Len(p) = Len(q) + Len(e)
      /\ \A i \in 1 .. Len(q) + Len(e) : p[i] = IF i <= Len(q) THEN q[i] ELSE e[i - Len(q)]
  BY ConcatProperties DEF Joins
<1>2. Len(q) \in Nat /\ Len(e) \in Nat /\ DOMAIN p = 1 .. Len(q) + Len(e)
  BY <1>1, LenProperties
<1>3. ASSUME NEW i \in 1 .. Len(e) PROVE p[Len(q) + i] = e[i]
  <2>1. Len(q) + i \in 1 .. Len(q) + Len(e) /\ ~(Len(q) + i <= Len(q)) /\ Len(q) + i - Len(q) = i
    BY <1>2
  <2>. QED
    BY <1>1, <2>1
<1>4. ASSUME NEW n \in DOMAIN p, n \notin 1 .. Len(q)
      PROVE  n - Len(q) \in 1 .. Len(e) /\ p[n] = e[n - Len(q)]
  BY <1>1, <1>2, <1>4
<1>. QED
  BY <1>1, <1>2, <1>3, <1>4

\* The commit a query finds is the newest there is.
LEMMA NewestFacts ==
  ASSUME TablesOK, CommitsSound, NEW c
  PROVE  /\ CommitsOf(c) = {} => Newest(c) = None
         /\ CommitsOf(c) # {} => Newest(c) \in CommitsOf(c)
         /\ Newest(c) \in Nat
<1>1. CommitsOf(c) \subseteq DOMAIN commit
  BY DEF CommitsOf
<1>2. CASE CommitsOf(c) = {}
  BY <1>2 DEF Newest, None
<1>3. CASE CommitsOf(c) # {}
  <2>. DEFINE times == {commit[k].created : k \in CommitsOf(c)}
  <2>1. times \in SUBSET Nat /\ times # {} /\ \A n \in times : n <= begun
    BY <1>1, <1>3, RowFacts DEF CommitsSound, RowSound
  <2>2. begun \in Nat
    BY DEF TablesOK
  <2>3. \E n \in times : \A m \in times : m <= n
    <3>. HIDE DEF times
    <3>. QED
      BY <2>1, <2>2, GreatestNumber
  <2>4. \E k \in CommitsOf(c) : \A o \in CommitsOf(c) : commit[o].created <= commit[k].created
    BY <2>3
  <2>5. Newest(c) \in CommitsOf(c)
    BY <1>3, <2>4, Zenon DEF Newest
  <2>. QED
    BY <1>1, <1>3, <2>5, RowFacts
<1>. QED
  BY <1>2, <1>3

-----------------------------------------------------------------------------
(* Messages in order *)

\* Messages that can be ordered by time.
Ordered(ms) ==
  /\ ms \subseteq DOMAIN message
  /\ \A m, n \in ms : m # n => message[m].time # message[n].time

LEMMA OrderedFinite ==
  ASSUME TablesOK, NEW ms, Ordered(ms)
  PROVE  IsFiniteSet(ms)
<1>1. Len(message) \in Nat /\ ms \in SUBSET (1 .. Len(message))
  BY RowFacts DEF Ordered
<1>2. IsFiniteSet(1 .. Len(message))
  BY <1>1, FS_Interval
<1>. QED
  BY <1>1, <1>2, FS_Subset

\* What is not later than a message is what is earlier, and itself.
LEMMA RankGrows ==
  ASSUME TablesOK, NEW ms, Ordered(ms), NEW m \in ms, NEW n \in ms
  PROVE  /\ IsFiniteSet(ms) /\ Cardinality(ms) \in Nat
         /\ Rank(ms, m) \in 1 .. Cardinality(ms)
         /\ message[m].time < message[n].time <=> Rank(ms, m) < Rank(ms, n)
         /\ Rank(ms, m) = Rank(ms, n) => m = n
<1>. DEFINE upto(x) == {y \in ms : message[y].time <= message[x].time}
<1>1. IsFiniteSet(ms)
  BY OrderedFinite
<1>2. \A x \in ms : IsFiniteSet(upto(x)) /\ upto(x) \in SUBSET ms
  BY <1>1, FS_Subset
<1>3. Cardinality(ms) \in Nat /\ \A x \in ms : Cardinality(upto(x)) \in Nat
  BY <1>1, <1>2, FS_CardinalityType
<1>4. ASSUME NEW x \in ms
      PROVE  Cardinality(upto(x)) \in 1 .. Cardinality(ms)
  <2>1. x \in upto(x)
    BY RowFacts DEF Ordered
  <2>2. Cardinality(upto(x)) # 0
    BY <1>2, <2>1, FS_EmptySet
  <2>3. Cardinality(upto(x)) <= Cardinality(ms)
    BY <1>1, <1>2, FS_Subset
  <2>. QED
    BY <1>3, <2>2, <2>3
<1>5. ASSUME NEW x \in ms, NEW y \in ms, message[x].time < message[y].time
      PROVE  Cardinality(upto(x)) < Cardinality(upto(y))
  <2>1. message[x].time \in Nat /\ message[y].time \in Nat /\ \A z \in ms : message[z].time \in Nat
    BY RowFacts DEF Ordered
  <2>2. upto(x) \in SUBSET upto(y) /\ y \in upto(y) /\ y \notin upto(x)
    BY <1>5, <2>1
  <2>3. upto(x) # upto(y)
    BY <2>2
  <2>4. /\ Cardinality(upto(x)) <= Cardinality(upto(y))
        /\ Cardinality(upto(y)) = Cardinality(upto(x)) => upto(y) = upto(x)
    <3>. HIDE DEF upto
    <3>. QED
      BY <1>2, <2>2, FS_Subset
  <2>. QED
    BY <1>3, <2>3, <2>4
<1>6. message[m].time \in Nat /\ message[n].time \in Nat
  BY RowFacts DEF Ordered
<1>7. m # n => message[m].time < message[n].time \/ message[n].time < message[m].time
  BY <1>6 DEF Ordered
<1>8. Rank(ms, m) = Cardinality(upto(m)) /\ Rank(ms, n) = Cardinality(upto(n))
  BY DEF Rank
<1>. HIDE DEF upto
<1>9. Cardinality(upto(m)) \in Nat /\ Cardinality(upto(n)) \in Nat
  BY <1>3
<1>10. message[m].time < message[n].time => Cardinality(upto(m)) < Cardinality(upto(n))
  BY <1>5
<1>11. message[n].time < message[m].time => Cardinality(upto(n)) < Cardinality(upto(m))
  BY <1>5
<1>12. m = n => message[m].time = message[n].time /\ upto(m) = upto(n)
  OBVIOUS
<1>. QED
  BY <1>1, <1>3, <1>4, <1>6, <1>7, <1>8, <1>9, <1>10, <1>11, <1>12

\* The messages in order are each of them once, in the order of their times.
LEMMA InOrderFacts ==
  ASSUME TablesOK, NEW ms, Ordered(ms)
  PROVE  /\ IsFiniteSet(ms) /\ Cardinality(ms) \in Nat
         /\ InOrder(ms) \in Seq(ms) /\ Len(InOrder(ms)) = Cardinality(ms)
         /\ DOMAIN InOrder(ms) = 1 .. Cardinality(ms)
         /\ \A i \in 1 .. Cardinality(ms) : InOrder(ms)[i] \in ms /\ Rank(ms, InOrder(ms)[i]) = i
         /\ \A m \in ms : Rank(ms, m) \in 1 .. Cardinality(ms) /\ InOrder(ms)[Rank(ms, m)] = m
<1>. DEFINE N == Cardinality(ms)
            rank == [m \in ms |-> Rank(ms, m)]
<1>1. IsFiniteSet(ms) /\ N \in Nat
  <2>1. IsFiniteSet(ms)
    BY OrderedFinite
  <2>. QED
    BY <2>1, FS_CardinalityType
<1>2. \A m \in ms : Rank(ms, m) \in 1 .. N
  BY RankGrows
<1>3. \A m, n \in ms : Rank(ms, m) = Rank(ms, n) => m = n
  BY RankGrows
<1>4. rank \in Injection(ms, 1 .. N)
  BY <1>2, <1>3 DEF Injection, IsInjective
<1>5. IsFiniteSet(1 .. N) /\ Cardinality(1 .. N) = N
  BY <1>1, FS_Interval
<1>6. rank \in Surjection(ms, 1 .. N)
  <2>. HIDE DEF rank
  <2>. QED
    BY <1>4, <1>5, FS_Injection
<1>7. \A i \in 1 .. N : \E m \in ms : Rank(ms, m) = i
  BY <1>6 DEF Surjection
<1>8. \A i \in 1 .. N : InOrder(ms)[i] = CHOOSE m \in ms : Rank(ms, m) = i
  BY DEF InOrder
<1>9. \A i \in 1 .. N : InOrder(ms)[i] \in ms /\ Rank(ms, InOrder(ms)[i]) = i
  BY <1>7, <1>8, Zenon
<1>10. DOMAIN InOrder(ms) = 1 .. N
  BY DEF InOrder
<1>11. InOrder(ms) \in Seq(ms) /\ Len(InOrder(ms)) = N
  BY <1>1, <1>9, <1>10 DEF InOrder
<1>12. \A m \in ms : InOrder(ms)[Rank(ms, m)] = m
  BY <1>2, <1>3, <1>9
<1>. QED
  BY <1>1, <1>2, <1>9, <1>10, <1>11, <1>12

-----------------------------------------------------------------------------
(* What happens to the tables while a request waits *)

\* Rows only come; of those that are there only live, and who takes part,
\* changes.
Grows ==
  /\ \A c \in DOMAIN conversation :
       /\ c \in DOMAIN conversation'
       /\ conversation'[c].parent = conversation[c].parent
       /\ conversation'[c].point = conversation[c].point
       /\ conversation'[c].upto = conversation[c].upto
  /\ \A m \in DOMAIN message : m \in DOMAIN message' /\ message'[m] = message[m]
  /\ \A k \in DOMAIN commit : k \in DOMAIN commit' /\ commit'[k] = commit[k]
  /\ clock <= clock' /\ begun <= begun'

\* Messages that come are not copies, unless their conversation comes with them.
CopiesOnlyNew ==
  \A n \in DOMAIN message' : n \notin DOMAIN message /\ message'[n].copy =>
    message'[n].conversation \notin DOMAIN conversation

LEMMA MessagesGrow ==
  ASSUME TablesOK, TablesOK', Grows
  PROVE  /\ Len(message) <= Len(message') /\ DOMAIN message' = 1 .. Len(message')
         /\ Len(message') \in Nat
         /\ \A n \in DOMAIN message' : n \notin DOMAIN message => n > Len(message)
         /\ \A c : In(c) \subseteq In(c)' /\ (In(c)' \cap DOMAIN message) \subseteq In(c)
<1>1. /\ Len(message) \in Nat /\ DOMAIN message = 1 .. Len(message)
      /\ Len(message') \in Nat /\ DOMAIN message' = 1 .. Len(message')
  BY RowFacts
<1>2. Len(message) <= Len(message')
  <2>1. CASE Len(message) = 0
    BY <1>1, <2>1
  <2>2. CASE Len(message) # 0
    <3>1. Len(message) \in DOMAIN message
      BY <1>1, <2>2
    <3>2. Len(message) \in DOMAIN message'
      BY <3>1 DEF Grows
    <3>. QED
      BY <1>1, <3>2
  <2>. QED
    BY <2>1, <2>2
<1>3. ASSUME NEW c
      PROVE  In(c) \subseteq In(c)' /\ (In(c)' \cap DOMAIN message) \subseteq In(c)
  BY DEF Grows, In
<1>. QED
  BY <1>1, <1>2, <1>3

\* What is known of a commit stays known.
LEMMA RowKept ==
  ASSUME TablesOK, TablesOK', Grows, CommitsSound, NEW row \in Commit, RowSound(row)
  PROVE  /\ RowSound(row)'
         /\ Since(row)' = Since(row)
         /\ message'[row.message] = message[row.message]
         /\ PackageSound(row) => PackageSound(row)'
<1>1. /\ row.message \in DOMAIN message /\ row.message \in In(row.conversation)
      /\ row.message \in In(row.conversation)'
      /\ message'[row.message] = message[row.message]
  BY MessagesGrow DEF RowSound, In, Grows
<1>2. row.parent # None =>
        /\ row.parent \in DOMAIN commit /\ commit'[row.parent] = commit[row.parent]
        /\ row.parent \in CommitsOf(row.conversation)'
  BY DEF RowSound, CommitsOf, Grows
<1>3. row.created <= begun'
  <2>1. row.created \in Nat /\ begun \in Nat /\ begun' \in Nat
    BY DEF Commit, TablesOK
  <2>. QED
    BY <2>1 DEF RowSound, Grows
<1>4. RowSound(row)'
  BY <1>1, <1>2, <1>3 DEF RowSound
<1>5. Since(row)' = Since(row)
  <2>1. CASE row.parent = None
    BY <2>1 DEF Since, Parent
  <2>2. CASE row.parent # None
    <3>1. commit[row.parent].message \in DOMAIN message
      BY <1>2, <2>2 DEF CommitsSound, RowSound, In
    <3>2. message'[commit'[row.parent].message] = message[commit[row.parent].message]
      BY <1>2, <2>2, <3>1 DEF Grows
    <3>. QED
      BY <3>2, <2>2 DEF Since, Parent
  <2>. QED
    BY <2>1, <2>2
<1>6. ASSUME PackageSound(row) PROVE PackageSound(row)'
  <2>1. row.upto \in Nat /\ row.upto <= Len(message) /\ Len(message) \in Nat
    BY <1>6, RowFacts DEF PackageSound, Commit
  <2>2. row.upto <= Len(message')
    BY <2>1, MessagesGrow, RowFacts
  <2>3. row.introduced \subseteq In(row.conversation)'
    BY <1>6, MessagesGrow DEF PackageSound
  <2>4. ASSUME NEW m \in UpTo(row.conversation, message[row.message].time)', m <= row.upto,
               message'[m].time > Since(row)
        PROVE  m \in row.introduced
    <3>1. m \in In(row.conversation)' /\ m \in DOMAIN message'
      BY <2>4 DEF UpTo, In
    <3>2. m \in DOMAIN message
      BY <2>1, <2>4, <3>1, RowFacts, MessagesGrow
    <3>3. m \in In(row.conversation) /\ message'[m] = message[m]
      BY <3>1, <3>2, MessagesGrow DEF Grows
    <3>4. message'[m].time <= message'[row.message].time
      BY <2>4 DEF UpTo
    <3>5. m \in UpTo(row.conversation, message[row.message].time)
      BY <1>1, <3>3, <3>4 DEF UpTo
    <3>. QED
      BY <1>6, <2>4, <3>3, <3>5 DEF PackageSound
  <2>. QED
    BY <1>5, <2>2, <2>3, <2>4 DEF PackageSound
<1>. QED
  BY <1>1, <1>4, <1>5, <1>6

\* A commit that was there is as sound as before.
LEMMA CommitKept ==
  ASSUME TablesOK, TablesOK', Grows, CommitsSound, NEW k \in DOMAIN commit
  PROVE  /\ \A row : row = commit'[k] => RowSound(row)' /\ PackageSound(row)'
         /\ commit'[k] = commit[k] /\ commit'[k].parent < k
<1>1. PICK r \in Commit : r = commit[k]
  BY RowFacts
<1>2. RowSound(r) /\ PackageSound(r) /\ r.parent < k
  BY <1>1 DEF CommitsSound
<1>3. RowSound(r)' /\ PackageSound(r)'
  BY <1>2, RowKept
<1>4. commit'[k] = r /\ commit'[k] = commit[k]
  BY <1>1 DEF Grows
<1>. QED
  BY <1>2, <1>3, <1>4

LEMMA CommitsKept ==
  ASSUME TablesOK, TablesOK', Grows, CommitsSound, DOMAIN commit' = DOMAIN commit
  PROVE  CommitsSound'
<1>1. ASSUME NEW row \in {commit[k] : k \in DOMAIN commit}'
      PROVE  RowSound(row)' /\ PackageSound(row)'
  BY <1>1, CommitKept
<1>2. \A k \in DOMAIN commit' : commit'[k].parent < k
  BY CommitKept
<1>. QED
  BY <1>1, <1>2 DEF CommitsSound

\* A branch that was there has the copies it had, of what they were made of.
BranchSound(c) ==
  LET row == conversation[c]
      copied == {m \in UpTo(row.parent, message[row.point].time) : m <= row.upto}
      copies == {n \in In(c) : message[n].copy}
  IN  /\ \A m \in copied : \E n \in copies : Twins(m, n)
      /\ \A n \in copies : \E m \in copied : Twins(m, n)

LEMMA BranchesAreSound ==
  /\ BranchesSound <=> \A c \in DOMAIN conversation : conversation[c].parent # None => BranchSound(c)
  /\ BranchesSound' <=>
       \A c \in DOMAIN conversation' : conversation'[c].parent # None => BranchSound(c)'
BY DEF BranchesSound, BranchSound

LEMMA BranchKept ==
  ASSUME TablesOK, TablesOK', Grows, CopiesOnlyNew, ConversationsSound,
         NEW c \in DOMAIN conversation, conversation[c].parent # None, BranchSound(c)
  PROVE  BranchSound(c)'
<1>1. PICK parent \in Nat, point \in Nat, upto \in Nat :
        /\ parent = conversation[c].parent /\ point = conversation[c].point
        /\ upto = conversation[c].upto
  BY RowFacts
<1>2. /\ parent = conversation'[c].parent /\ point = conversation'[c].point
      /\ upto = conversation'[c].upto
  BY <1>1 DEF Grows
<1>3. point \in DOMAIN message /\ upto <= Len(message)
  BY <1>1 DEF ConversationsSound, In
<1>4. PICK t : t = message[point].time /\ t = message'[point].time
  BY <1>3 DEF Grows
<1>. DEFINE copied == {m \in UpTo(parent, t) : m <= upto}
            copies == {n \in In(c) : message[n].copy}
<1>5. ASSUME NEW m
      PROVE  m \in UpTo(parent, t)' /\ m <= upto <=> m \in copied
  <2>1. m \in DOMAIN message' /\ m <= upto => m \in DOMAIN message
    BY <1>3, RowFacts, MessagesGrow
  <2>2. m \in DOMAIN message => m \in DOMAIN message' /\ message'[m] = message[m]
    BY DEF Grows
  <2>3. m \in UpTo(parent, t) => m \in DOMAIN message
    BY DEF UpTo, In
  <2>4. m \in UpTo(parent, t)' => m \in DOMAIN message'
    BY DEF UpTo, In
  <2>5. m \in DOMAIN message => (m \in UpTo(parent, t)' <=> m \in UpTo(parent, t))
    BY <2>2 DEF UpTo, In
  <2>. QED
    BY <2>1, <2>2, <2>3, <2>4, <2>5
<1>6. ASSUME NEW n
      PROVE  n \in In(c)' /\ message'[n].copy <=> n \in copies
  BY DEF In, Grows, CopiesOnlyNew
<1>7. ASSUME NEW m \in DOMAIN message, NEW n \in DOMAIN message
      PROVE  Twins(m, n)' <=> Twins(m, n)
  BY DEF Twins, Grows
<1>8. copied \subseteq DOMAIN message /\ copies \subseteq DOMAIN message
  BY DEF UpTo, In
<1>9. /\ \A m \in copied : \E n \in copies : Twins(m, n)
      /\ \A n \in copies : \E m \in copied : Twins(m, n)
  BY <1>1, <1>4 DEF BranchSound
<1>. HIDE DEF copied, copies
<1>10. ASSUME NEW m \in UpTo(parent, t)', m <= upto
       PROVE  \E n \in {x \in In(c)' : message'[x].copy} : Twins(m, n)'
  <2>1. m \in copied
    BY <1>5, <1>10
  <2>2. PICK n \in copies : Twins(m, n)
    BY <1>9, <2>1
  <2>. QED
    BY <1>6, <1>7, <1>8, <2>1, <2>2
<1>11. ASSUME NEW n \in In(c)', message'[n].copy
       PROVE  \E m \in {x \in UpTo(parent, t)' : x <= upto} : Twins(m, n)'
  <2>1. n \in copies
    BY <1>6, <1>11
  <2>2. PICK m \in copied : Twins(m, n)
    BY <1>9, <2>1
  <2>. QED
    BY <1>5, <1>7, <1>8, <2>1, <2>2
<1>. QED
  BY <1>2, <1>4, <1>10, <1>11 DEF BranchSound

LEMMA BranchesKept ==
  ASSUME TablesOK, TablesOK', Grows, CopiesOnlyNew, ConversationsSound, BranchesSound,
         DOMAIN conversation' = DOMAIN conversation
  PROVE  BranchesSound'
<1>1. ASSUME NEW c \in DOMAIN conversation, conversation'[c].parent # None
      PROVE  BranchSound(c)'
  <2>1. conversation[c].parent # None
    BY <1>1 DEF Grows
  <2>2. BranchSound(c)
    BY <2>1, BranchesAreSound
  <2>. QED
    BY <2>1, <2>2, BranchKept
<1>. QED
  BY <1>1, BranchesAreSound

LEMMA ConversationKept ==
  ASSUME TablesOK, TablesOK', Grows, ConversationsSound, NEW c \in DOMAIN conversation,
         NEW row, row = conversation'[c]
  PROVE  /\ row.parent # None => row.point \in In(row.parent)'
         /\ row.upto <= Len(message')
         /\ row.parent < c
<1>1. PICK parent, point, upto \in Nat :
        /\ parent = conversation[c].parent /\ point = conversation[c].point
        /\ upto = conversation[c].upto
  BY RowFacts
<1>2. parent = row.parent /\ point = row.point /\ upto = row.upto
  BY <1>1 DEF Grows
<1>3. parent < c /\ (parent # None => point \in In(parent)) /\ upto <= Len(message)
  BY <1>1 DEF ConversationsSound
<1>4. parent # None => point \in In(parent)'
  BY <1>3, MessagesGrow
<1>5. upto <= Len(message')
  BY <1>3, MessagesGrow, RowFacts
<1>. QED
  BY <1>2, <1>3, <1>4, <1>5

LEMMA ConversationsKept ==
  ASSUME TablesOK, TablesOK', Grows, ConversationsSound,
         DOMAIN conversation' = DOMAIN conversation, Len(participant') = Len(conversation')
  PROVE  ConversationsSound'
<1>1. ASSUME NEW row \in {conversation[c] : c \in DOMAIN conversation}'
      PROVE  /\ row.parent # None => row.point \in In(row.parent)'
             /\ row.upto <= Len(message')
  BY <1>1, ConversationKept
<1>2. \A c \in DOMAIN conversation' : conversation'[c].parent < c
  BY ConversationKept
<1>. QED
  BY <1>1, <1>2 DEF ConversationsSound

-----------------------------------------------------------------------------
(* What the requests know *)

\* A message that comes is none of what a request is about to store.
FarFrom(t) ==
  \A n \in DOMAIN message' : n \notin DOMAIN message =>
    \/ message'[n].conversation \notin DOMAIN conversation
    \/ ~message'[n].copy /\ message'[n].time # t

LEMMA KnowledgeKept ==
  ASSUME TablesOK, TablesOK', Grows, CommitsSound, NEW r \in Request, RequestKnows(r),
         Storing(r) => FarFrom(r.time)
  PROVE  RequestKnows(r)'
<1>1. ASSUME Storing(r)
      PROVE  /\ r.conversation \in DOMAIN conversation'
             /\ r.time \in 1 .. clock'
             /\ \A m \in In(r.conversation)' :
                  message'[m].time # r.time /\ (message'[m].copy => message'[m].time < r.time)
  <2>1. /\ r.conversation \in DOMAIN conversation /\ r.time \in 1 .. clock
        /\ \A m \in In(r.conversation) :
             message[m].time # r.time /\ (message[m].copy => message[m].time < r.time)
    BY <1>1 DEF RequestKnows, Committing
  <2>2. r.conversation \in DOMAIN conversation' /\ r.time \in 1 .. clock'
    <3>1. clock \in Nat /\ clock' \in Nat /\ clock <= clock'
      BY DEF TablesOK, Grows
    <3>. QED
      BY <2>1, <3>1 DEF Grows
  <2>3. ASSUME NEW m \in In(r.conversation)'
        PROVE  message'[m].time # r.time /\ (message'[m].copy => message'[m].time < r.time)
    <3>1. CASE m \in DOMAIN message
      BY <2>1, <2>3, <3>1 DEF In, Grows
    <3>2. CASE m \notin DOMAIN message
      BY <1>1, <2>1, <2>3, <3>2 DEF In, FarFrom
    <3>. QED
      BY <3>1, <3>2
  <2>. QED
    BY <2>2, <2>3
<1>2. ASSUME Committing(r)
      PROVE  /\ Len(r.row) = 1 /\ RowSound(r.row[1])'
             /\ r.pc = "commit" => PackageSound(r.row[1])'
  <2>1. Len(r.row) = 1 /\ RowSound(r.row[1]) /\ (r.pc = "commit" => PackageSound(r.row[1]))
    BY <1>2 DEF RequestKnows, Committing
  <2>2. r.row \in Seq(Commit)
    BY DEF Request
  <2>3. PICK row \in Commit : row = r.row[1]
    BY <2>1, <2>2
  <2>4. RowSound(row) /\ (r.pc = "commit" => PackageSound(row))
    BY <2>1, <2>3
  <2>5. RowSound(row)' /\ (r.pc = "commit" => PackageSound(row)')
    BY <2>4, RowKept
  <2>. QED
    BY <2>1, <2>3, <2>5
<1>3. /\ Storing(r)' <=> Storing(r)
      /\ Committing(r)' <=> Committing(r)
      /\ r.pc = "commit" => Committing(r)
  BY DEF Storing, Committing
<1>. QED
  BY <1>1, <1>2, <1>3 DEF RequestKnows

\* A request goes on while the others wait.
LEMMA RequestsKept ==
  ASSUME TypeOK, TablesOK', Grows, CommitsSound, RequestsKnow,
         NEW s \in Slots, NEW r \in Request, req' = [req EXCEPT ![s] = r],
         RequestKnows(r)',
         Storing(r) => \A t \in Slots : t # s /\ Storing(req[t]) => r.time # req[t].time,
         \A t \in Slots : t # s /\ Storing(req[t]) => FarFrom(req[t].time)
  PROVE  RequestsKnow'
<1>1. TablesOK /\ \A t \in Slots : req[t] \in Request
  BY TablesTyped DEF TypeOK
<1>2. req'[s] = r /\ \A t \in Slots : t # s => req'[t] = req[t]
  BY DEF TypeOK
<1>3. ASSUME NEW q \in {req[t] : t \in Slots}'
      PROVE  RequestKnows(q)'
  <2>1. PICK t \in Slots : q = req'[t]
    OBVIOUS
  <2>2. CASE t = s
    BY <1>2, <2>1, <2>2
  <2>3. CASE t # s
    <3>1. q = req[t] /\ q \in Request
      BY <1>1, <1>2, <2>1, <2>3
    <3>2. RequestKnows(q) /\ (Storing(q) => FarFrom(q.time))
      BY <2>3, <3>1 DEF RequestsKnow
    <3>. QED
      BY <1>1, <3>1, <3>2, KnowledgeKept
  <2>. QED
    BY <2>2, <2>3
<1>4. ASSUME NEW t \in Slots, NEW q \in Slots, t # q, Storing(req[t])', Storing(req[q])'
      PROVE  req'[t].time # req'[q].time
  BY <1>2, <1>4 DEF RequestsKnow, Storing
<1>. QED
  BY <1>3, <1>4 DEF RequestsKnow

-----------------------------------------------------------------------------
(* The steps *)

\* What an action that leaves the rows alone, or changes a column, keeps.
LEMMA RowsStay ==
  ASSUME ConversationsInv, TablesOK', Grows, message' = message,
         DOMAIN commit' = DOMAIN commit, DOMAIN conversation' = DOMAIN conversation,
         Len(participant') = Len(conversation')
  PROVE  /\ ConversationsSound' /\ MessagesSound' /\ BranchesSound' /\ CommitsSound'
         /\ \A t : FarFrom(t)
<1>1. /\ TablesOK /\ ConversationsSound /\ MessagesSound /\ BranchesSound /\ CommitsSound
  BY TablesTyped DEF ConversationsInv
<1>2. CopiesOnlyNew /\ \A t : FarFrom(t)
  BY DEF CopiesOnlyNew, FarFrom
<1>3. ConversationsSound' /\ BranchesSound' /\ CommitsSound'
  BY <1>1, <1>2, ConversationsKept, BranchesKept, CommitsKept
<1>4. MessagesSound'
  <2>1. clock \in Nat /\ clock' \in Nat /\ clock <= clock'
    BY <1>1 DEF TablesOK, Grows
  <2>2. \A m \in DOMAIN message : message[m].time \in 1 .. clock'
    BY <1>1, <2>1 DEF MessagesSound
  <2>. QED
    BY <1>1, <2>2 DEF MessagesSound
<1>. QED
  BY <1>2, <1>3, <1>4

\* A step of one request that leaves the rows alone.
LEMMA StepKeeps ==
  ASSUME ConversationsInv, TablesOK', Grows, message' = message,
         DOMAIN commit' = DOMAIN commit, DOMAIN conversation' = DOMAIN conversation,
         participant' \in Seq([Users -> Roles]), Len(participant') = Len(conversation'),
         issued' \in 0 .. MaxRequests,
         NEW s \in Slots, NEW r \in Request, req' = [req EXCEPT ![s] = r],
         RequestKnows(r)',
         Storing(r) => \A t \in Slots : t # s /\ Storing(req[t]) => r.time # req[t].time
  PROVE  ConversationsInv'
<1>1. TypeOK /\ CommitsSound /\ RequestsKnow
  BY DEF ConversationsInv
<1>2. /\ ConversationsSound' /\ MessagesSound' /\ BranchesSound' /\ CommitsSound'
      /\ \A t : FarFrom(t)
  BY RowsStay
<1>3. RequestsKnow'
  BY <1>1, <1>2, RequestsKept
<1>4. TypeOK'
  BY <1>1 DEF TypeOK, TablesOK
<1>. QED
  BY <1>2, <1>3, <1>4 DEF ConversationsInv

\* A request that is over knows nothing.
LEMMA FreeKnows == RequestKnows(Free)'
BY RequestTypes DEF RequestKnows, Storing, Committing

LEMMA StillGrows ==
  ASSUME TypeOK, UNCHANGED tables, clock' \in Nat, begun' \in Nat, clock <= clock', begun <= begun'
  PROVE  /\ TablesOK' /\ Grows /\ message' = message /\ DOMAIN commit' = DOMAIN commit
         /\ DOMAIN conversation' = DOMAIN conversation
         /\ participant' \in Seq([Users -> Roles])
BY DEF TypeOK, TablesOK, Grows, tables

LEMMA SetLiveKeeps ==
  ASSUME ConversationsInv, NEW s \in Slots, NEW c \in DOMAIN conversation, SetLive(s, c)
  PROVE  ConversationsInv'
<1>1. TypeOK /\ TablesOK
  BY TablesTyped DEF ConversationsInv
<1>2. /\ req' = [req EXCEPT ![s] = Free] /\ issued' \in 0 .. MaxRequests
      /\ UNCHANGED <<participant, message, commit, clock, begun>>
      /\ conversation' = [conversation EXCEPT ![c].live = ~@]
  BY <1>1 DEF SetLive, Once, Start, clocks, TypeOK
<1>3. PICK row \in Conversation : row = conversation[c]
  BY <1>1, RowFacts
<1>4. PICK next : next = [row EXCEPT !.live = ~row.live]
  OBVIOUS
<1>5. /\ next \in Conversation /\ next.parent = row.parent /\ next.point = row.point
      /\ next.upto = row.upto
  BY <1>4 DEF Conversation
<1>6. conversation' = [conversation EXCEPT ![c] = next]
  BY <1>2, <1>3, <1>4
<1>7. /\ conversation' \in Seq(Conversation) /\ Len(conversation') = Len(conversation)
      /\ DOMAIN conversation' = DOMAIN conversation
  BY <1>1, <1>5, <1>6 DEF TablesOK
<1>8. TablesOK'
  BY <1>1, <1>2, <1>7 DEF TablesOK
<1>9. Grows
  <2>1. \A d \in DOMAIN conversation : conversation'[d] = IF d = c THEN next ELSE conversation[d]
    BY <1>6
  <2>. QED
    BY <1>1, <1>2, <1>3, <1>5, <1>7, <2>1 DEF Grows, TablesOK
<1>10. participant' \in Seq([Users -> Roles]) /\ Len(participant') = Len(conversation')
  BY <1>1, <1>2, <1>7 DEF TypeOK, ConversationsInv, ConversationsSound
<1>. QED
  BY <1>2, <1>7, <1>8, <1>9, <1>10, StepKeeps, FreeKnows, RequestTypes

LEMMA ParticipantsKeep ==
  ASSUME ConversationsInv, NEW s \in Slots, NEW c \in DOMAIN conversation, NEW u \in Users,
         AddParticipant(s, c, u) \/ RemoveParticipant(s, c, u)
  PROVE  ConversationsInv'
<1>1. TypeOK /\ Len(participant) = Len(conversation)
  BY DEF ConversationsInv, ConversationsSound
<1>2. PICK role \in Roles : participant' = [participant EXCEPT ![c][u] = role]
  BY DEF AddParticipant, RemoveParticipant, Roles
<1>3. /\ req' = [req EXCEPT ![s] = Free] /\ issued' \in 0 .. MaxRequests
      /\ UNCHANGED <<conversation, message, commit, clock, begun>>
  BY <1>1 DEF AddParticipant, RemoveParticipant, Once, Start, clocks, TypeOK
<1>4. participant' \in Seq([Users -> Roles]) /\ Len(participant') = Len(conversation')
  <2>1. c \in DOMAIN participant /\ participant[c] \in [Users -> Roles]
    BY <1>1 DEF TypeOK
  <2>2. PICK row : row = [participant[c] EXCEPT ![u] = role]
    OBVIOUS
  <2>3. row \in [Users -> Roles] /\ participant' = [participant EXCEPT ![c] = row]
    BY <1>2, <2>1, <2>2
  <2>4. participant \in Seq([Users -> Roles])
    BY <1>1 DEF TypeOK
  <2>. QED
    BY <1>1, <1>3, <2>1, <2>3, <2>4
<1>5. TablesOK' /\ Grows
  BY <1>1, <1>3 DEF TypeOK, TablesOK, Grows
<1>. QED
  BY <1>3, <1>4, <1>5, StepKeeps, FreeKnows, RequestTypes

LEMMA FailKeeps ==
  ASSUME ConversationsInv, NEW s \in Slots, Fail(s)
  PROVE  ConversationsInv'
<1>1. TypeOK /\ Len(participant) = Len(conversation)
  BY DEF ConversationsInv, ConversationsSound
<1>2. /\ req' = [req EXCEPT ![s] = Free] /\ issued' \in 0 .. MaxRequests
      /\ UNCHANGED tables /\ clock' = clock /\ begun' = begun
  BY <1>1 DEF Fail, End, Go, clocks, TypeOK
<1>3. clock \in Nat /\ begun \in Nat /\ clock <= clock /\ begun <= begun
  BY <1>1 DEF TypeOK
<1>4. Len(participant') = Len(conversation')
  BY <1>1, <1>2 DEF tables
<1>. QED
  BY <1>1, <1>2, <1>3, <1>4, StillGrows, StepKeeps, FreeKnows, RequestTypes

\* The time a request is given is later than any.
LEMMA SendKeeps ==
  ASSUME ConversationsInv, NEW s \in Slots, NEW u \in Users, NEW c \in DOMAIN conversation,
         NEW chat \in BOOLEAN, Send(s, u, c, chat)
  PROVE  ConversationsInv'
<1>1. /\ TypeOK /\ TablesOK /\ MessagesSound /\ RequestsKnow
      /\ Len(participant) = Len(conversation)
  BY TablesTyped DEF ConversationsInv, ConversationsSound
<1>2. PICK r \in Request :
        /\ r = [Free EXCEPT !.pc = "store", !.conversation = c, !.time = clock + 1, !.chat = chat]
        /\ req' = [req EXCEPT ![s] = r]
  <2>1. c \in Nat /\ clock + 1 \in Nat
    BY <1>1, RowFacts DEF TypeOK
  <2>. QED
    BY <2>1, RequestTypes DEF Send, Start
<1>3. r.pc = "store" /\ r.conversation = c /\ r.time = clock + 1
  BY <1>2 DEF Free
<1>4. issued' \in 0 .. MaxRequests /\ UNCHANGED tables /\ clock' = clock + 1 /\ begun' = begun
  BY <1>1 DEF Send, Start, TypeOK
<1>5. /\ clock \in Nat /\ clock' \in Nat /\ clock <= clock' /\ begun' \in Nat /\ begun <= begun'
      /\ r.time \in 1 .. clock'
  BY <1>1, <1>3, <1>4 DEF TypeOK
<1>6. /\ TablesOK' /\ Grows /\ message' = message /\ DOMAIN commit' = DOMAIN commit
      /\ DOMAIN conversation' = DOMAIN conversation /\ participant' \in Seq([Users -> Roles])
  BY <1>1, <1>4, <1>5, StillGrows
<1>7. RequestKnows(r)'
  <2>1. ASSUME NEW m \in In(c)' PROVE message'[m].time < r.time
    BY <1>1, <1>3, <1>5, <1>6, <2>1 DEF MessagesSound, In
  <2>2. \A m \in In(c)' : message'[m].time \in Nat
    BY <1>1, <1>6, RowFacts DEF In
  <2>3. r.time \in Nat
    BY <1>5
  <2>. QED
    BY <1>3, <1>5, <1>6, <2>1, <2>2, <2>3 DEF RequestKnows, Committing
<1>8. ASSUME NEW t \in Slots, Storing(req[t]) PROVE r.time # req[t].time
  <2>1. req[t].time \in 1 .. clock
    BY <1>1, <1>8 DEF RequestsKnow, RequestKnows, Committing
  <2>. QED
    BY <1>3, <1>5, <2>1
<1>9. Len(participant') = Len(conversation')
  BY <1>1, <1>4 DEF tables
<1>. QED
  BY <1>2, <1>4, <1>6, <1>7, <1>8, <1>9, StepKeeps

\* A commit begins with the newest commit of its conversation as its parent.
LEMMA CreateCommitKeeps ==
  ASSUME ConversationsInv, NEW s \in Slots, NEW u \in Users, NEW c \in DOMAIN conversation,
         NEW m \in DOMAIN message, CreateCommit(s, u, c, m)
  PROVE  ConversationsInv'
<1>1. TypeOK /\ TablesOK /\ CommitsSound /\ Len(participant) = Len(conversation)
  BY TablesTyped DEF ConversationsInv, ConversationsSound
<1>2. PICK row : row = [conversation |-> c, message |-> m, parent |-> Newest(c),
                        created |-> 0, upto |-> 0, introduced |-> {}, people |-> {}]
  OBVIOUS
<1>3. /\ row.conversation = c /\ row.message = m /\ row.parent = Newest(c)
      /\ row.created = 0
  BY <1>2
<1>4. row \in Commit
  <2>1. c \in Nat /\ m \in Nat /\ Newest(c) \in Nat
    BY <1>1, RowFacts, NewestFacts DEF TypeOK
  <2>. QED
    BY <1>2, <2>1 DEF Commit
<1>5. PICK r \in Request :
        /\ r = [Free EXCEPT !.pc = "date", !.conversation = c, !.row = <<row>>]
        /\ req' = [req EXCEPT ![s] = r]
  <2>1. c \in Nat
    BY <1>1, RowFacts
  <2>. QED
    BY <1>2, <1>4, <2>1, RequestTypes DEF CreateCommit, Start
<1>6. r.pc = "date" /\ r.row = <<row>>
  BY <1>5 DEF Free
<1>7. issued' \in 0 .. MaxRequests /\ UNCHANGED tables /\ clock' = clock /\ begun' = begun
  BY <1>1 DEF CreateCommit, Start, clocks, TypeOK
<1>8. clock' \in Nat /\ clock <= clock' /\ begun' \in Nat /\ begun <= begun'
  BY <1>1, <1>7 DEF TypeOK
<1>9. /\ TablesOK' /\ Grows /\ message' = message /\ DOMAIN commit' = DOMAIN commit
      /\ DOMAIN conversation' = DOMAIN conversation /\ participant' \in Seq([Users -> Roles])
  BY <1>1, <1>7, <1>8, StillGrows
<1>10. RowSound(row)'
  <2>1. row.message \in In(row.conversation)'
    BY <1>3, <1>9 DEF CreateCommit, In
  <2>2. row.parent # None => row.parent \in CommitsOf(row.conversation)
    BY <1>1, <1>3, NewestFacts
  <2>3. CommitsOf(row.conversation)' = CommitsOf(row.conversation)
    BY <1>7 DEF CommitsOf, tables
  <2>4. row.created <= begun'
    BY <1>3, <1>7, <1>8
  <2>. QED
    BY <2>1, <2>2, <2>3, <2>4 DEF RowSound
<1>11. RequestKnows(r)' /\ ~Storing(r)
  BY <1>6, <1>10 DEF RequestKnows, Storing, Committing
<1>12. Len(participant') = Len(conversation')
  BY <1>1, <1>7 DEF tables
<1>. QED
  BY <1>5, <1>7, <1>9, <1>11, <1>12, StepKeeps

\* A commit is dated.
LEMMA TakeTimeKeeps ==
  ASSUME ConversationsInv, NEW s \in Slots, TakeTime(s)
  PROVE  ConversationsInv'
<1>1. /\ TypeOK /\ TablesOK /\ CommitsSound /\ RequestsKnow
      /\ Len(participant) = Len(conversation)
  BY TablesTyped DEF ConversationsInv, ConversationsSound
<1>2. PICK q \in Request : q = req[s]
  BY <1>1 DEF TypeOK
<1>3. q.pc = "date" /\ RequestKnows(q)
  BY <1>1, <1>2 DEF TakeTime, At, RequestsKnow
<1>4. PICK row \in Commit : row = q.row[1] /\ RowSound(row)
  BY <1>3 DEF RequestKnows, Committing, Request
<1>5. PICK dated : dated = [row EXCEPT !.created = begun + 1]
  OBVIOUS
<1>6. begun \in Nat /\ begun' = begun + 1 /\ begun <= begun'
  BY <1>1 DEF TakeTime, TypeOK
<1>7. /\ dated \in Commit /\ dated.message = row.message /\ dated.created = begun + 1
      /\ dated.conversation = row.conversation /\ dated.parent = row.parent
  BY <1>5, <1>6 DEF Commit
<1>8. PICK r \in Request :
        /\ r = [q EXCEPT !.pc = "package", !.row = <<dated>>]
        /\ req' = [req EXCEPT ![s] = r]
  <2>1. req' = [req EXCEPT ![s] = [q EXCEPT !.pc = "package", !.row = <<dated>>]]
    BY <1>2, <1>4, <1>5 DEF TakeTime, Go
  <2>. QED
    BY <1>7, <2>1, RequestTypes
<1>9. r.pc = "package" /\ r.row = <<dated>>
  BY <1>8 DEF Request
<1>10. /\ issued' \in 0 .. MaxRequests /\ UNCHANGED tables /\ clock' = clock
       /\ clock' \in Nat /\ clock <= clock' /\ begun' \in Nat
  BY <1>1, <1>6 DEF TakeTime, Go, TypeOK
<1>11. /\ TablesOK' /\ Grows /\ message' = message /\ DOMAIN commit' = DOMAIN commit
       /\ DOMAIN conversation' = DOMAIN conversation /\ participant' \in Seq([Users -> Roles])
  BY <1>1, <1>6, <1>10, StillGrows
<1>12. RowSound(dated)'
  <2>1. /\ In(row.conversation)' = In(row.conversation)
        /\ CommitsOf(row.conversation)' = CommitsOf(row.conversation)
    BY <1>10 DEF In, CommitsOf, tables
  <2>. QED
    BY <1>4, <1>6, <1>7, <2>1 DEF RowSound
<1>13. RequestKnows(r)' /\ ~Storing(r)
  BY <1>9, <1>12 DEF RequestKnows, Storing, Committing
<1>14. Len(participant') = Len(conversation')
  BY <1>1, <1>10 DEF tables
<1>. QED
  BY <1>8, <1>10, <1>11, <1>13, <1>14, StepKeeps

\* The package is of what is visible when it is read.
LEMMA ReadPackageKeeps ==
  ASSUME ConversationsInv, NEW s \in Slots, ReadPackage(s)
  PROVE  ConversationsInv'
<1>1. /\ TypeOK /\ TablesOK /\ CommitsSound /\ RequestsKnow
      /\ Len(participant) = Len(conversation)
  BY TablesTyped DEF ConversationsInv, ConversationsSound
<1>2. PICK q \in Request : q = req[s]
  BY <1>1 DEF TypeOK
<1>3. q.pc = "package" /\ RequestKnows(q)
  BY <1>1, <1>2 DEF ReadPackage, At, RequestsKnow
<1>4. PICK row \in Commit : row = q.row[1] /\ RowSound(row)
  BY <1>3 DEF RequestKnows, Request, Committing
<1>5. PICK people, introduced :
        /\ people = {u \in Users : Participates(u, row.conversation)}
        /\ introduced = Introduced(row)
  OBVIOUS
<1>6. PICK read : read = [row EXCEPT !.upto = Len(message), !.introduced = introduced,
                                     !.people = people]
  OBVIOUS
<1>7. introduced \subseteq In(row.conversation) /\ In(row.conversation) \subseteq DOMAIN message
  BY <1>5 DEF Introduced, UpTo, In
<1>8. /\ read \in Commit /\ read.message = row.message /\ read.conversation = row.conversation
      /\ read.parent = row.parent /\ read.created = row.created
      /\ read.upto = Len(message) /\ read.introduced = introduced
  <2>1. introduced \in SUBSET Nat /\ Len(message) \in Nat /\ people \in SUBSET Users
    BY <1>1, <1>5, <1>7, RowFacts
  <2>. QED
    BY <1>6, <2>1 DEF Commit
<1>9. PICK r \in Request :
        /\ r = [q EXCEPT !.pc = "commit", !.row = <<read>>]
        /\ req' = [req EXCEPT ![s] = r]
  <2>1. req' = [req EXCEPT ![s] = [q EXCEPT !.pc = "commit", !.row = <<read>>]]
    BY <1>2, <1>4, <1>5, <1>6 DEF ReadPackage, Go
  <2>. QED
    BY <1>8, <2>1, RequestTypes
<1>10. r.pc = "commit" /\ r.row = <<read>>
  BY <1>9 DEF Request
<1>11. /\ issued' \in 0 .. MaxRequests /\ UNCHANGED tables /\ clock' = clock /\ begun' = begun
       /\ clock \in Nat /\ begun \in Nat
  BY <1>1 DEF ReadPackage, Go, clocks, TypeOK
<1>12. /\ TablesOK' /\ Grows /\ message' = message /\ DOMAIN commit' = DOMAIN commit
       /\ DOMAIN conversation' = DOMAIN conversation /\ participant' \in Seq([Users -> Roles])
  BY <1>1, <1>11, StillGrows
<1>13. RowSound(read) /\ PackageSound(read)
  <2>1. RowSound(read)
    BY <1>4, <1>8 DEF RowSound
  <2>2. Since(read) = Since(row)
    BY <1>8 DEF Since, Parent
  <2>3. introduced = {m \in UpTo(read.conversation, message[read.message].time) :
                        message[m].time > Since(read)}
    BY <1>5, <1>8, <2>2 DEF Introduced
  <2>. QED
    BY <1>1, <1>7, <1>8, <2>1, <2>3, RowFacts DEF PackageSound
<1>14. RowSound(read)' /\ PackageSound(read)'
  BY <1>1, <1>8, <1>12, <1>13, RowKept
<1>15. RequestKnows(r)' /\ ~Storing(r)
  BY <1>10, <1>14 DEF RequestKnows, Storing, Committing
<1>16. Len(participant') = Len(conversation')
  BY <1>1, <1>11 DEF tables
<1>. QED
  BY <1>9, <1>11, <1>12, <1>15, <1>16, StepKeeps

-----------------------------------------------------------------------------
(* Messages are stored *)

\* A message stored by the request that has its time.
LEMMA StoredKeeps ==
  ASSUME ConversationsInv, NEW s \in Slots, Storing(req[s]), NEW checkpoint \in BOOLEAN,
         Stored(req[s].conversation, req[s].time, checkpoint),
         UNCHANGED <<conversation, participant, commit, begun, issued>>,
         NEW r \in Request, req' = [req EXCEPT ![s] = r],
         \/ clock' = clock /\ ~Storing(r) /\ r.pc = "free"
         \/ /\ clock' = clock + 1 /\ r.pc = "answer" /\ r.time = clock + 1
            /\ r.conversation = req[s].conversation
  PROVE  ConversationsInv'
<1>1. /\ TypeOK /\ TablesOK /\ ConversationsSound /\ MessagesSound /\ BranchesSound
      /\ CommitsSound /\ RequestsKnow
  BY TablesTyped DEF ConversationsInv
<1>2. PICK c, t : c = req[s].conversation /\ t = req[s].time
  OBVIOUS
<1>3. /\ c \in DOMAIN conversation /\ t \in 1 .. clock /\ clock \in Nat
      /\ \A m \in In(c) : message[m].time # t /\ (message[m].copy => message[m].time < t)
  BY <1>1, <1>2 DEF RequestsKnow, RequestKnows, TypeOK, Committing
<1>4. PICK e : e = [conversation |-> c, time |-> t, origin |-> Len(message) + 1,
                    checkpoint |-> checkpoint, copy |-> FALSE]
  OBVIOUS
<1>5. e \in Message /\ e.conversation = c /\ e.time = t /\ ~e.copy
  <2>1. Len(message) + 1 \in Nat /\ c \in Nat /\ t \in Nat
    BY <1>1, <1>3, RowFacts
  <2>. QED
    BY <1>4, <2>1 DEF Message
<1>6. PICK last : last = Len(message) + 1
  OBVIOUS
<1>7. /\ message' \in Seq(Message) /\ DOMAIN message' = 1 .. last
      /\ \A m \in DOMAIN message : message'[m] = message[m]
      /\ message'[last] = e
      /\ DOMAIN message = 1 .. Len(message) /\ Len(message) \in Nat
  <2>1. message' = Append(message, e) /\ message \in Seq(Message)
    BY <1>1, <1>2, <1>4 DEF Stored, TablesOK
  <2>2. DOMAIN message = 1 .. Len(message) /\ Len(message) \in Nat
    BY <1>1, RowFacts
  <2>3. /\ message' \in Seq(Message) /\ DOMAIN message' = 1 .. Len(message) + 1
        /\ \A i \in 1 .. Len(message) : message'[i] = message[i]
        /\ message'[Len(message) + 1] = e
    BY <1>5, <2>1, Appended
  <2>. QED
    BY <1>6, <2>2, <2>3
<1>8. last \notin DOMAIN message /\ \A n \in DOMAIN message' : n \notin DOMAIN message => n = last
  BY <1>6, <1>7
<1>9. clock' \in Nat /\ clock <= clock' /\ begun' \in Nat
  BY <1>3, <1>1 DEF TablesOK
<1>10. TablesOK' /\ TypeOK'
  BY <1>1, <1>7, <1>9 DEF TablesOK, TypeOK
<1>11. Grows
  <2>1. begun <= begun'
    BY <1>1 DEF TablesOK
  <2>2. \A m \in DOMAIN message : m \in DOMAIN message'
    BY <1>6, <1>7
  <2>. QED
    BY <1>7, <1>9, <2>1, <2>2 DEF Grows
<1>12. CopiesOnlyNew
  BY <1>5, <1>7, <1>8 DEF CopiesOnlyNew
<1>13. ConversationsSound' /\ BranchesSound' /\ CommitsSound'
  <2>1. Len(participant') = Len(conversation')
    BY <1>1 DEF ConversationsSound
  <2>. QED
    BY <1>1, <1>10, <1>11, <1>12, <2>1, ConversationsKept, BranchesKept, CommitsKept
<1>14. MessagesSound'
  <2>1. ASSUME NEW m \in DOMAIN message'
        PROVE  message'[m].conversation \in DOMAIN conversation' /\ message'[m].time \in 1 .. clock'
    <3>1. CASE m = last
      BY <1>3, <1>5, <1>7, <1>9, <3>1
    <3>2. CASE m \in DOMAIN message
      <4>1. message[m].conversation \in DOMAIN conversation /\ message[m].time \in 1 .. clock
        BY <1>1, <3>2 DEF MessagesSound
      <4>. QED
        BY <1>3, <1>7, <1>9, <3>2, <4>1
    <3>. QED
      BY <1>8, <2>1, <3>1, <3>2
  <2>2. ASSUME NEW m \in DOMAIN message', NEW n \in DOMAIN message', m # n,
               message'[m].conversation = message'[n].conversation
        PROVE  /\ message'[m].time # message'[n].time
               /\ message'[m].copy /\ ~message'[n].copy => message'[m].time < message'[n].time
    <3>1. CASE m \in DOMAIN message /\ n \in DOMAIN message
      <4>1. message'[m] = message[m] /\ message'[n] = message[n]
        BY <1>7, <3>1
      <4>. QED
        BY <1>1, <2>2, <3>1, <4>1 DEF MessagesSound
    <3>2. CASE m = last
      <4>1. n \in DOMAIN message /\ message'[n] = message[n] /\ message'[m] = e
        BY <1>7, <1>8, <2>2, <3>2
      <4>2. n \in In(c)
        BY <1>5, <2>2, <4>1 DEF In
      <4>. QED
        BY <1>3, <1>5, <4>1, <4>2
    <3>3. CASE n = last
      <4>1. m \in DOMAIN message /\ message'[m] = message[m] /\ message'[n] = e
        BY <1>7, <1>8, <2>2, <3>3
      <4>2. m \in In(c)
        BY <1>5, <2>2, <4>1 DEF In
      <4>. QED
        BY <1>3, <1>5, <4>1, <4>2
    <3>. QED
      BY <1>8, <3>1, <3>2, <3>3
  <2>. QED
    BY <2>1, <2>2 DEF MessagesSound
<1>15. \A x \in Slots : x # s /\ Storing(req[x]) => FarFrom(req[x].time)
  <2>1. ASSUME NEW x \in Slots, x # s, Storing(req[x]) PROVE t # req[x].time
    BY <1>1, <1>2, <2>1 DEF RequestsKnow
  <2>. QED
    BY <1>5, <1>7, <1>8, <2>1 DEF FarFrom
<1>16. RequestKnows(r)'
  <2>1. CASE r.pc = "free"
    BY <2>1 DEF RequestKnows, Storing, Committing
  <2>2. CASE clock' = clock + 1 /\ r.pc = "answer" /\ r.time = clock + 1 /\ r.conversation = c
    <3>1. ASSUME NEW m \in In(c)' PROVE message'[m].time < r.time /\ message'[m].time # r.time
      <4>1. m \in DOMAIN message' /\ (m = last \/ m \in DOMAIN message)
        BY <1>8, <3>1 DEF In
      <4>2. message'[m].time \in 1 .. clock
        <5>1. CASE m = last
          BY <1>3, <1>5, <1>7, <5>1
        <5>2. CASE m \in DOMAIN message
          BY <1>1, <1>7, <5>2 DEF MessagesSound
        <5>. QED
          BY <4>1, <5>1, <5>2
      <4>. QED
        BY <1>3, <2>2, <4>2
    <3>2. r.time \in 1 .. clock' /\ c \in DOMAIN conversation'
      BY <1>3, <2>2
    <3>. QED
      BY <2>2, <3>1, <3>2 DEF RequestKnows, Committing
  <2>. QED
    BY <1>2, <2>1, <2>2
<1>17. Storing(r) => \A x \in Slots : x # s /\ Storing(req[x]) => r.time # req[x].time
  <2>1. ASSUME NEW x \in Slots, Storing(req[x]) PROVE req[x].time \in 1 .. clock
    BY <1>1, <2>1 DEF RequestsKnow, RequestKnows, Committing
  <2>2. Storing(r) => r.time = clock + 1
    BY DEF Storing
  <2>. QED
    BY <1>3, <2>1, <2>2
<1>18. RequestsKnow'
  BY <1>1, <1>10, <1>11, <1>15, <1>16, <1>17, RequestsKept
<1>. QED
  BY <1>10, <1>13, <1>14, <1>18 DEF ConversationsInv

LEMMA StoreMessageKeeps ==
  ASSUME ConversationsInv, NEW s \in Slots, StoreMessage(s)
  PROVE  ConversationsInv'
<1>1. TypeOK /\ req[s] \in Request /\ clock \in Nat
  BY DEF ConversationsInv, TypeOK
<1>2. req[s].pc = "store" /\ Storing(req[s])
  BY DEF StoreMessage, At, Storing
<1>3. /\ Stored(req[s].conversation, req[s].time, FALSE)
      /\ UNCHANGED <<conversation, participant, commit, begun, issued>>
  BY DEF StoreMessage, Go
<1>4. PICK q \in Request : q = req[s]
  BY <1>1
<1>5. CASE q.chat
  <2>1. PICK r : r = [q EXCEPT !.pc = "answer", !.time = clock + 1]
    OBVIOUS
  <2>2. r \in Request
    <3>1. clock + 1 \in Nat
      BY <1>1
    <3>. QED
      BY <2>1, <3>1, RequestTypes
  <2>3. r.pc = "answer" /\ r.time = clock + 1 /\ r.conversation = q.conversation
    BY <2>1 DEF Request
  <2>4. req' = [req EXCEPT ![s] = r] /\ clock' = clock + 1
    BY <1>4, <1>5, <2>1 DEF StoreMessage, Go
  <2>. QED
    BY <1>2, <1>3, <1>4, <2>2, <2>3, <2>4, StoredKeeps
<1>6. CASE ~q.chat
  <2>1. req' = [req EXCEPT ![s] = Free] /\ clock' = clock
    BY <1>4, <1>6 DEF StoreMessage, Go
  <2>. QED
    BY <1>2, <1>3, <2>1, StoredKeeps, RequestTypes
<1>. QED
  BY <1>5, <1>6

LEMMA StoreAnswerKeeps ==
  ASSUME ConversationsInv, NEW s \in Slots, StoreAnswer(s)
  PROVE  ConversationsInv'
<1>1. Storing(req[s])
  BY DEF StoreAnswer, At, Storing
<1>2. /\ Stored(req[s].conversation, req[s].time, TRUE)
      /\ UNCHANGED <<conversation, participant, commit, clock, begun, issued>>
      /\ req' = [req EXCEPT ![s] = Free]
  BY DEF StoreAnswer, Go, End, clocks
<1>. QED
  BY <1>1, <1>2, StoredKeeps, RequestTypes

-----------------------------------------------------------------------------
(* A commit is written *)

LEMMA WriteCommitKeeps ==
  ASSUME ConversationsInv, NEW s \in Slots, WriteCommit(s)
  PROVE  ConversationsInv'
<1>1. /\ TypeOK /\ TablesOK /\ ConversationsSound /\ MessagesSound /\ BranchesSound
      /\ CommitsSound /\ RequestsKnow
  BY TablesTyped DEF ConversationsInv
<1>2. PICK q \in Request : q = req[s]
  BY <1>1 DEF TypeOK
<1>3. q.pc = "commit" /\ RequestKnows(q)
  BY <1>1, <1>2 DEF WriteCommit, At, RequestsKnow
<1>4. PICK row \in Commit : row = q.row[1] /\ RowSound(row) /\ PackageSound(row)
  BY <1>3 DEF RequestKnows, Request, Committing
<1>5. /\ UNCHANGED <<conversation, participant, message, clock, begun, issued>>
      /\ req' = [req EXCEPT ![s] = Free]
      /\ commit' = commit \/ commit' = Append(commit, row)
  BY <1>2, <1>4 DEF WriteCommit, Go, End, clocks
<1>6. CASE commit' = commit
  <2>1. UNCHANGED tables /\ Len(participant') = Len(conversation')
    BY <1>1, <1>5, <1>6 DEF tables, ConversationsSound
  <2>2. /\ clock' \in Nat /\ clock <= clock' /\ begun' \in Nat /\ begun <= begun'
        /\ issued' \in 0 .. MaxRequests
    BY <1>1, <1>5 DEF TypeOK
  <2>. QED
    BY <1>1, <1>5, <2>1, <2>2, StillGrows, StepKeeps, FreeKnows, RequestTypes
<1>7. CASE commit' = Append(commit, row)
  <2>1. PICK last : last = Len(commit) + 1
    OBVIOUS
  <2>2. /\ commit' \in Seq(Commit) /\ DOMAIN commit' = 1 .. last
        /\ \A k \in DOMAIN commit : commit'[k] = commit[k]
        /\ commit'[last] = row
        /\ DOMAIN commit = 1 .. Len(commit) /\ Len(commit) \in Nat
    <3>1. commit \in Seq(Commit) /\ DOMAIN commit = 1 .. Len(commit) /\ Len(commit) \in Nat
      BY <1>1, RowFacts DEF TablesOK
    <3>2. /\ commit' \in Seq(Commit) /\ DOMAIN commit' = 1 .. Len(commit) + 1
          /\ \A i \in 1 .. Len(commit) : commit'[i] = commit[i]
          /\ commit'[Len(commit) + 1] = row
      BY <1>7, <3>1, Appended
    <3>. QED
      BY <2>1, <3>1, <3>2
  <2>3. last \notin DOMAIN commit /\ \A k \in DOMAIN commit' : k \notin DOMAIN commit => k = last
    BY <2>1, <2>2
  <2>4. TypeOK' /\ TablesOK'
    BY <1>1, <1>5, <2>2, RequestTypes DEF TypeOK, TablesOK
  <2>5. Grows
    <3>1. begun <= begun' /\ clock <= clock'
      BY <1>1, <1>5 DEF TablesOK
    <3>2. \A k \in DOMAIN commit : k \in DOMAIN commit'
      BY <2>1, <2>2
    <3>. QED
      BY <1>5, <2>2, <3>1, <3>2 DEF Grows
  <2>6. CopiesOnlyNew /\ \A t : FarFrom(t)
    BY <1>5 DEF CopiesOnlyNew, FarFrom
  <2>7. ConversationsSound' /\ BranchesSound'
    <3>1. Len(participant') = Len(conversation')
      BY <1>1, <1>5 DEF ConversationsSound
    <3>. QED
      BY <1>1, <1>5, <2>4, <2>5, <2>6, <3>1, ConversationsKept, BranchesKept
  <2>8. MessagesSound'
    BY <1>1, <1>5 DEF MessagesSound
  <2>9. CommitsSound'
    <3>1. RowSound(row)' /\ PackageSound(row)'
      BY <1>1, <1>4, <2>4, <2>5, RowKept
    <3>2. ASSUME NEW o \in {commit[k] : k \in DOMAIN commit}'
          PROVE  RowSound(o)' /\ PackageSound(o)'
      <4>1. PICK k \in DOMAIN commit' : o = commit'[k]
        BY <3>2
      <4>2. CASE k = last
        BY <2>2, <3>1, <4>1, <4>2
      <4>3. CASE k \in DOMAIN commit
        BY <1>1, <2>4, <2>5, <4>1, <4>3, CommitKept
      <4>. QED
        BY <2>3, <4>1, <4>2, <4>3
    <3>3. \A k \in DOMAIN commit : commit'[k].parent < k
      BY <1>1, <2>4, <2>5, CommitKept
    <3>4. row.parent < last
      <4>1. row.parent # None => row.parent \in DOMAIN commit
        BY <1>4 DEF RowSound, CommitsOf
      <4>. QED
        BY <2>1, <2>2, <4>1 DEF None
    <3>. QED
      BY <2>2, <2>3, <3>2, <3>3, <3>4 DEF CommitsSound
  <2>10. RequestsKnow'
    BY <1>1, <1>5, <2>4, <2>5, <2>6, RequestsKept, FreeKnows, RequestTypes
  <2>. QED
    BY <2>4, <2>7, <2>8, <2>9, <2>10 DEF ConversationsInv
<1>. QED
  BY <1>5, <1>6, <1>7

-----------------------------------------------------------------------------
(* Conversations are made *)

\* Copies are of the messages they are made of, each once.
LEMMA CopiesFacts ==
  ASSUME TablesOK, NEW ms, Ordered(ms), NEW c \in Nat, NEW copies, copies = Copies(ms, c)
  PROVE  /\ copies \in Seq(Message) /\ Len(copies) \in Nat /\ Len(copies) = Cardinality(ms)
         /\ \A i \in 1 .. Len(copies) : copies[i].conversation = c /\ copies[i].copy
         /\ \A i \in 1 .. Len(copies) : \E m \in ms :
              copies[i].time = message[m].time /\ copies[i].origin = message[m].origin
         /\ \A m \in ms : \E i \in 1 .. Len(copies) :
              copies[i].time = message[m].time /\ copies[i].origin = message[m].origin
         /\ \A i, j \in 1 .. Len(copies) : i # j => copies[i].time # copies[j].time
<1>1. PICK order : order = InOrder(ms)
  OBVIOUS
<1>2. PICK n \in Nat : n = Cardinality(ms) /\ DOMAIN order = 1 .. n
  BY <1>1, InOrderFacts
<1>3. /\ \A i \in 1 .. n : order[i] \in ms /\ Rank(ms, order[i]) = i
      /\ \A m \in ms : Rank(ms, m) \in 1 .. n /\ order[Rank(ms, m)] = m
  BY <1>1, <1>2, InOrderFacts
<1>4. \A m \in ms : m \in DOMAIN message /\ message[m] \in Message
  BY RowFacts DEF Ordered
<1>5. copies = [i \in 1 .. n |->
        [message[order[i]] EXCEPT !.conversation = c, !.checkpoint = FALSE, !.copy = TRUE]]
  BY <1>1, <1>2 DEF Copies
<1>6. ASSUME NEW i \in 1 .. n
      PROVE  /\ copies[i] \in Message /\ copies[i].conversation = c /\ copies[i].copy
             /\ copies[i].time = message[order[i]].time
             /\ copies[i].origin = message[order[i]].origin
  <2>1. copies[i] =
          [message[order[i]] EXCEPT !.conversation = c, !.checkpoint = FALSE, !.copy = TRUE]
    BY <1>5
  <2>2. message[order[i]] \in Message
    BY <1>3, <1>4
  <2>. QED
    <3>1. PICK x, y : x = message[order[i]] /\ y = copies[i] /\ x \in Message
      BY <2>2
    <3>2. y = [x EXCEPT !.conversation = c, !.checkpoint = FALSE, !.copy = TRUE]
      BY <2>1, <3>1
    <3>3. y \in Message /\ y.conversation = c /\ y.copy /\ y.time = x.time /\ y.origin = x.origin
      BY <3>1, <3>2 DEF Message
    <3>. QED
      BY <3>1, <3>3
<1>7. copies \in Seq(Message) /\ Len(copies) = n
  <2>1. DOMAIN copies = 1 .. n /\ copies \in [1 .. n -> Message]
    BY <1>5, <1>6
  <2>. QED
    BY <2>1
<1>8. ASSUME NEW m \in ms
      PROVE  \E i \in 1 .. n :
               copies[i].time = message[m].time /\ copies[i].origin = message[m].origin
  <2>1. PICK i \in 1 .. n : order[i] = m
    BY <1>3
  <2>. QED
    BY <1>6, <2>1
<1>9. ASSUME NEW i \in 1 .. n, NEW j \in 1 .. n, i # j
      PROVE  copies[i].time # copies[j].time
  <2>1. order[i] # order[j] /\ order[i] \in ms /\ order[j] \in ms
    BY <1>3, <1>9
  <2>2. message[order[i]].time # message[order[j]].time
    BY <2>1 DEF Ordered
  <2>. QED
    BY <1>6, <2>2
<1>. QED
  BY <1>2, <1>3, <1>6, <1>7, <1>8, <1>9

\* Messages of one conversation can be ordered.
LEMMA OneConversation ==
  ASSUME MessagesSound, NEW c, NEW ms \in SUBSET In(c)
  PROVE  Ordered(ms)
BY DEF Ordered, In, MessagesSound

\* A new conversation with copies of its own, which are what was visible up to
\* its point if it is a branch.
LEMMA NewConversationKeeps ==
  ASSUME ConversationsInv, NEW s \in Slots, Once(s), NEW u \in Users, NEW people,
         NEW row \in Conversation, NEW copied \in Seq(Message),
         NewConversation(u, row, people, copied),
         row.upto = Len(message),
         row.parent # None => row.parent \in DOMAIN conversation /\ row.point \in In(row.parent),
         \A i \in 1 .. Len(copied) :
           /\ copied[i].conversation = Len(conversation) + 1 /\ copied[i].copy
           /\ copied[i].time \in 1 .. clock,
         \A i, j \in 1 .. Len(copied) : i # j => copied[i].time # copied[j].time,
         row.parent # None =>
           /\ \A m \in UpTo(row.parent, message[row.point].time) : \E i \in 1 .. Len(copied) :
                copied[i].time = message[m].time /\ copied[i].origin = message[m].origin
           /\ \A i \in 1 .. Len(copied) : \E m \in UpTo(row.parent, message[row.point].time) :
                copied[i].time = message[m].time /\ copied[i].origin = message[m].origin
  PROVE  ConversationsInv'
<1>1. /\ TypeOK /\ TablesOK /\ ConversationsSound /\ MessagesSound /\ BranchesSound
      /\ CommitsSound /\ RequestsKnow
  BY TablesTyped DEF ConversationsInv
<1>2. /\ req' = [req EXCEPT ![s] = Free] /\ issued' \in 0 .. MaxRequests
      /\ UNCHANGED <<commit, clock, begun>>
  <2>1. req' = [req EXCEPT ![s] = Free] /\ issued < MaxRequests /\ issued' = issued + 1
    BY DEF Once, Start
  <2>2. UNCHANGED <<commit, clock, begun>>
    BY DEF NewConversation, clocks
  <2>3. issued \in Nat /\ MaxRequests \in Nat
    BY <1>1 DEF TypeOK
  <2>. QED
    BY <2>1, <2>2, <2>3
<1>3. PICK c \in Nat, old \in Nat :
        /\ c = Len(conversation) + 1 /\ old = Len(message)
        /\ DOMAIN conversation = 1 .. Len(conversation) /\ Len(conversation) \in Nat
        /\ DOMAIN message = 1 .. old
  <2>1. /\ DOMAIN conversation = 1 .. Len(conversation) /\ Len(conversation) \in Nat
        /\ DOMAIN message = 1 .. Len(message) /\ Len(message) \in Nat
    BY <1>1, RowFacts
  <2>2. Len(conversation) + 1 \in Nat
    BY <2>1
  <2>. QED
    BY <2>1, <2>2
<1>4. /\ conversation' \in Seq(Conversation) /\ Len(conversation') = c
      /\ DOMAIN conversation' = 1 .. c
      /\ \A d \in DOMAIN conversation : conversation'[d] = conversation[d]
      /\ conversation'[c] = row
  <2>1. conversation \in Seq(Conversation) /\ conversation' = Append(conversation, row)
    BY <1>1 DEF TablesOK, NewConversation
  <2>. QED
    BY <1>3, <2>1, Appended
<1>5. c \notin DOMAIN conversation /\ \A d \in DOMAIN conversation' : d \in DOMAIN conversation \/ d = c
  BY <1>3, <1>4
<1>6. /\ message' \in Seq(Message) /\ Len(message') = old + Len(copied) /\ Len(copied) \in Nat
      /\ DOMAIN message' = 1 .. old + Len(copied)
      /\ \A m \in DOMAIN message : message'[m] = message[m]
      /\ \A i \in 1 .. Len(copied) : message'[old + i] = copied[i]
      /\ \A n \in DOMAIN message' : n \notin DOMAIN message =>
           n - old \in 1 .. Len(copied) /\ message'[n] = copied[n - old]
  <2>1. message \in Seq(Message) /\ message' = message \o copied
    BY <1>1 DEF TablesOK, NewConversation
  <2>2. Len(copied) \in Nat
    OBVIOUS
  <2>3. /\ message' \in Seq(Message) /\ Len(message') = Len(message) + Len(copied)
        /\ DOMAIN message' = 1 .. Len(message) + Len(copied)
        /\ \A i \in 1 .. Len(message) : message'[i] = message[i]
        /\ \A i \in 1 .. Len(copied) : message'[Len(message) + i] = copied[i]
        /\ \A n \in DOMAIN message' : n \notin 1 .. Len(message) =>
             n - Len(message) \in 1 .. Len(copied) /\ message'[n] = copied[n - Len(message)]
    <3>1. Joins(message', message, copied)
      BY <2>1 DEF Joins
    <3>2. message \in Seq(Message) /\ copied \in Seq(Message)
      BY <2>1
    <3>3. message' \in Seq(Message) /\ Len(message') = Len(message) + Len(copied)
      BY <3>1, <3>2, Joined
    <3>4. DOMAIN message' = 1 .. Len(message) + Len(copied)
      BY <3>1, <3>2, Joined
    <3>5. \A i \in 1 .. Len(message) : message'[i] = message[i]
      BY <3>1, <3>2, Joined
    <3>6. \A i \in 1 .. Len(copied) : message'[Len(message) + i] = copied[i]
      BY <3>1, <3>2, Joined
    <3>7. \A n \in DOMAIN message' : n \notin 1 .. Len(message) =>
             n - Len(message) \in 1 .. Len(copied) /\ message'[n] = copied[n - Len(message)]
      BY <3>1, <3>2, Joined
    <3>. QED
      BY <3>3, <3>4, <3>5, <3>6, <3>7
  <2>. QED
    BY <1>3, <2>2, <2>3
<1>7. \A n \in DOMAIN message' : n \notin DOMAIN message =>
        /\ message'[n].conversation = c /\ message'[n].copy /\ message'[n].time \in 1 .. clock
  <2>1. ASSUME NEW i \in 1 .. Len(copied)
        PROVE  copied[i].conversation = c /\ copied[i].copy /\ copied[i].time \in 1 .. clock
    BY <1>3
  <2>2. ASSUME NEW n \in DOMAIN message', n \notin DOMAIN message
        PROVE  /\ message'[n].conversation = c /\ message'[n].copy
               /\ message'[n].time \in 1 .. clock
    <3>1. PICK i \in 1 .. Len(copied) : message'[n] = copied[i]
      BY <1>6, <2>2
    <3>. QED
      BY <2>1, <3>1
  <2>. QED
    BY <2>2
<1>8. \A m \in DOMAIN message : message[m].conversation \in DOMAIN conversation
  BY <1>1 DEF MessagesSound
<1>9. /\ participant' \in Seq([Users -> Roles]) /\ Len(participant') = Len(conversation')
  <2>1. PICK roles : roles = [v \in Users |-> IF v = u THEN "owner"
                                              ELSE IF v \in people THEN "member" ELSE "none"]
    OBVIOUS
  <2>2. roles \in [Users -> Roles]
    BY <2>1 DEF Roles
  <2>3. participant' = Append(participant, roles)
    BY <2>1 DEF NewConversation
  <2>4. participant \in Seq([Users -> Roles]) /\ Len(participant) = Len(conversation)
    BY <1>1 DEF TypeOK, ConversationsSound
  <2>. QED
    BY <1>3, <1>4, <2>2, <2>3, <2>4, Appended
<1>10. TypeOK' /\ TablesOK'
  BY <1>1, <1>2, <1>4, <1>6, <1>9, RequestTypes DEF TypeOK, TablesOK
<1>11. Grows
  <2>1. begun <= begun' /\ clock <= clock'
    BY <1>1, <1>2 DEF TablesOK
  <2>2. \A m \in DOMAIN message : m \in DOMAIN message'
    BY <1>3, <1>6
  <2>3. \A d \in DOMAIN conversation : d \in DOMAIN conversation'
    BY <1>3, <1>4
  <2>. QED
    BY <1>2, <1>4, <1>6, <2>1, <2>2, <2>3 DEF Grows
<1>12. CopiesOnlyNew /\ \A t : FarFrom(t)
  BY <1>5, <1>7 DEF CopiesOnlyNew, FarFrom
<1>13. CommitsSound'
  BY <1>1, <1>2, <1>10, <1>11, CommitsKept
<1>14. ConversationsSound'
  <2>1. ASSUME NEW o \in {conversation[d] : d \in DOMAIN conversation}'
        PROVE  /\ o.parent # None => o.point \in In(o.parent)'
               /\ o.upto <= Len(message')
    <3>1. PICK d \in DOMAIN conversation' : o = conversation'[d]
      BY <2>1
    <3>2. CASE d \in DOMAIN conversation
      BY <1>1, <1>10, <1>11, <3>1, <3>2, ConversationKept
    <3>3. CASE d = c
      <4>1. o = row
        BY <1>4, <3>1, <3>3
      <4>2. \A p : In(p) \subseteq In(p)'
        BY <1>1, <1>10, <1>11, MessagesGrow
      <4>. QED
        BY <1>3, <1>6, <4>1, <4>2
    <3>. QED
      BY <1>5, <3>1, <3>2, <3>3
  <2>2. ASSUME NEW d \in DOMAIN conversation' PROVE conversation'[d].parent < d
    <3>1. CASE d \in DOMAIN conversation
      BY <1>1, <1>10, <1>11, <3>1, ConversationKept
    <3>2. CASE d = c
      <4>1. row.parent = None \/ row.parent \in 1 .. Len(conversation)
        BY <1>3
      <4>. QED
        BY <1>3, <1>4, <3>2, <4>1 DEF None
    <3>. QED
      BY <1>5, <3>1, <3>2
  <2>. QED
    BY <1>9, <2>1, <2>2 DEF ConversationsSound
<1>15. MessagesSound'
  <2>1. ASSUME NEW m \in DOMAIN message'
        PROVE  message'[m].conversation \in DOMAIN conversation' /\ message'[m].time \in 1 .. clock'
    <3>1. CASE m \in DOMAIN message
      <4>1. message[m].conversation \in DOMAIN conversation /\ message[m].time \in 1 .. clock
        BY <1>1, <3>1 DEF MessagesSound
      <4>2. message'[m] = message[m] /\ clock' = clock
        BY <1>2, <1>6, <3>1
      <4>3. DOMAIN conversation \subseteq DOMAIN conversation'
        BY <1>3, <1>4
      <4>. QED
        BY <4>1, <4>2, <4>3
    <3>2. CASE m \notin DOMAIN message
      <4>1. message'[m].conversation = c /\ message'[m].time \in 1 .. clock
        BY <1>7, <3>2
      <4>. QED
        BY <1>2, <1>3, <1>4, <4>1
    <3>. QED
      BY <3>1, <3>2
  <2>2. ASSUME NEW m \in DOMAIN message', NEW n \in DOMAIN message', m # n,
               message'[m].conversation = message'[n].conversation
        PROVE  /\ message'[m].time # message'[n].time
               /\ message'[m].copy /\ ~message'[n].copy => message'[m].time < message'[n].time
    <3>1. CASE m \in DOMAIN message /\ n \in DOMAIN message
      <4>1. message'[m] = message[m] /\ message'[n] = message[n]
        BY <1>6, <3>1
      <4>. QED
        BY <1>1, <2>2, <3>1, <4>1 DEF MessagesSound
    <3>2. CASE m \notin DOMAIN message /\ n \notin DOMAIN message
      <4>1. /\ m - old \in 1 .. Len(copied) /\ message'[m] = copied[m - old]
            /\ n - old \in 1 .. Len(copied) /\ message'[n] = copied[n - old]
        BY <1>6, <3>2
      <4>2. m - old # n - old
        BY <1>6, <2>2, <1>3
      <4>3. message'[n].copy
        BY <1>7, <3>2
      <4>. QED
        BY <4>1, <4>2, <4>3
    <3>3. CASE ~ (m \in DOMAIN message <=> n \in DOMAIN message)
      BY <1>5, <1>6, <1>7, <1>8, <2>2, <3>3
    <3>. QED
      BY <3>1, <3>2, <3>3
  <2>. QED
    BY <2>1, <2>2 DEF MessagesSound
<1>16. BranchesSound'
  <2>1. ASSUME NEW d \in DOMAIN conversation, conversation'[d].parent # None
        PROVE  BranchSound(d)'
    <3>1. conversation[d].parent # None
      BY <1>4, <2>1
    <3>2. BranchSound(d)
      BY <1>1, <3>1, BranchesAreSound
    <3>. QED
      BY <1>1, <1>10, <1>11, <1>12, <3>1, <3>2, BranchKept
  <2>2. ASSUME conversation'[c].parent # None PROVE BranchSound(c)'
    <3>1. PICK parent, point : parent = row.parent /\ point = row.point
      OBVIOUS
    <3>2. /\ parent \in DOMAIN conversation /\ point \in In(parent)
          /\ point \in DOMAIN message
      BY <1>4, <2>2, <3>1 DEF In
    <3>3. PICK t : t = message[point].time /\ t = message'[point].time
      BY <1>6, <3>2
    <3>4. ASSUME NEW m
          PROVE  m \in UpTo(parent, t)' /\ m <= old <=> m \in UpTo(parent, t)
      <4>1. m \in UpTo(parent, t) => m \in DOMAIN message
        BY DEF UpTo, In
      <4>2. m \in UpTo(parent, t)' => m \in DOMAIN message'
        BY DEF UpTo, In
      <4>3. m \in DOMAIN message => m \in DOMAIN message' /\ m <= old
        BY <1>3, <1>6
      <4>4. m \in DOMAIN message' /\ m <= old => m \in DOMAIN message
        BY <1>3, <1>6
      <4>5. m \in DOMAIN message => (m \in UpTo(parent, t)' <=> m \in UpTo(parent, t))
        BY <1>6, <4>3 DEF UpTo, In
      <4>. QED
        BY <4>1, <4>2, <4>3, <4>4, <4>5
    <3>5. ASSUME NEW n
          PROVE  n \in In(c)' <=> n \in DOMAIN message' /\ n \notin DOMAIN message
      BY <1>5, <1>6, <1>7, <1>8 DEF In
    <3>6. ASSUME NEW m \in UpTo(parent, t)', m <= old
          PROVE  \E n \in In(c)' : message'[n].copy /\ Twins(m, n)'
      <4>1. m \in UpTo(parent, t) /\ m \in DOMAIN message
        BY <3>4, <3>6 DEF UpTo, In
      <4>2. PICK i \in 1 .. Len(copied) :
              copied[i].time = message[m].time /\ copied[i].origin = message[m].origin
        BY <1>4, <2>2, <3>1, <3>3, <4>1
      <4>3. /\ old + i \in DOMAIN message' /\ old + i \notin DOMAIN message
            /\ message'[old + i] = copied[i]
        BY <1>3, <1>6
      <4>4. Twins(m, old + i)' /\ message'[old + i].copy
        BY <1>6, <4>1, <4>2, <4>3 DEF Twins
      <4>. QED
        BY <3>5, <4>3, <4>4
    <3>7. ASSUME NEW n \in In(c)'
          PROVE  \E m \in UpTo(parent, t)' : m <= old /\ Twins(m, n)'
      <4>1. n \in DOMAIN message' /\ n \notin DOMAIN message
        BY <3>5, <3>7
      <4>2. PICK i \in 1 .. Len(copied) : i = n - old /\ message'[n] = copied[i]
        BY <1>6, <4>1
      <4>3. PICK m \in UpTo(parent, t) :
              copied[i].time = message[m].time /\ copied[i].origin = message[m].origin
        BY <1>4, <2>2, <3>1, <3>3
      <4>4. m \in UpTo(parent, t)' /\ m <= old /\ m \in DOMAIN message
        BY <3>4, <4>3 DEF UpTo, In
      <4>5. Twins(m, n)'
        BY <1>6, <4>2, <4>3, <4>4 DEF Twins
      <4>. QED
        BY <4>4, <4>5
    <3>8. /\ conversation'[c].parent = parent /\ conversation'[c].point = point
          /\ conversation'[c].upto = old
      BY <1>3, <1>4, <3>1
    <3>. QED
      BY <3>3, <3>6, <3>7, <3>8 DEF BranchSound
  <2>3. \A d \in DOMAIN conversation' : conversation'[d].parent # None => BranchSound(d)'
    BY <1>5, <2>1, <2>2
  <2>. QED
    BY <2>3, BranchesAreSound
<1>17. RequestsKnow'
  BY <1>1, <1>2, <1>10, <1>11, <1>12, RequestsKept, FreeKnows, RequestTypes
<1>. QED
  BY <1>10, <1>13, <1>14, <1>15, <1>16, <1>17 DEF ConversationsInv

LEMMA CreateConversationKeeps ==
  ASSUME ConversationsInv, NEW s \in Slots, NEW u \in Users, CreateConversation(s, u)
  PROVE  ConversationsInv'
<1>1. TablesOK
  BY TablesTyped DEF ConversationsInv
<1>2. PICK row : row = Row(u, None, None, None)
  OBVIOUS
<1>3. row \in Conversation /\ row.upto = Len(message) /\ row.parent = None
  <2>1. Len(message) \in Nat
    BY <1>1, RowFacts
  <2>. QED
    BY <1>2, <2>1 DEF Row, Conversation, None
<1>4. PICK copied \in Seq(Message) : copied = <<>> /\ Len(copied) = 0
  BY EmptySeq
<1>5. Once(s) /\ NewConversation(u, row, {}, copied)
  BY <1>2, <1>4 DEF CreateConversation
<1>6. \A i \in 1 .. Len(copied) : FALSE
  BY <1>4
<1>. QED
  BY <1>3, <1>5, <1>6, NewConversationKeeps

LEMMA BranchKeeps ==
  ASSUME ConversationsInv, NEW s \in Slots, NEW u \in Users, NEW c \in DOMAIN conversation,
         NEW m \in DOMAIN message, Branch(s, u, c, m)
  PROVE  ConversationsInv'
<1>1. TablesOK /\ MessagesSound
  BY TablesTyped DEF ConversationsInv
<1>2. PICK row : row = Row(u, c, m, None)
  OBVIOUS
<1>3. /\ row \in Conversation /\ row.upto = Len(message) /\ row.parent = c /\ row.point = m
      /\ m \in In(c)
  <2>1. Len(message) \in Nat /\ c \in Nat /\ m \in Nat
    BY <1>1, RowFacts
  <2>. QED
    BY <1>2, <2>1 DEF Row, Conversation, None, Branch
<1>4. PICK ms : ms = UpTo(c, message[m].time)
  OBVIOUS
<1>5. PICK d \in Nat : d = Len(conversation) + 1
  <2>1. Len(conversation) + 1 \in Nat
    BY <1>1, RowFacts
  <2>. QED
    BY <2>1
<1>6. PICK copied : copied = Copies(ms, d)
  OBVIOUS
<1>7. ms \in SUBSET In(c) /\ Ordered(ms)
  <2>1. ms \in SUBSET In(c)
    BY <1>4 DEF UpTo
  <2>. QED
    BY <1>1, <2>1, OneConversation
<1>8. /\ copied \in Seq(Message)
      /\ \A i \in 1 .. Len(copied) : copied[i].conversation = d /\ copied[i].copy
      /\ \A i \in 1 .. Len(copied) : \E n \in ms :
           copied[i].time = message[n].time /\ copied[i].origin = message[n].origin
      /\ \A n \in ms : \E i \in 1 .. Len(copied) :
           copied[i].time = message[n].time /\ copied[i].origin = message[n].origin
      /\ \A i, j \in 1 .. Len(copied) : i # j => copied[i].time # copied[j].time
  <2>1. TablesOK /\ Ordered(ms) /\ d \in Nat
    BY <1>1, <1>5, <1>7
  <2>2. /\ copied \in Seq(Message)
        /\ \A i \in 1 .. Len(copied) : copied[i].conversation = d /\ copied[i].copy
    BY <1>6, <2>1, CopiesFacts
  <2>3. \A i \in 1 .. Len(copied) : \E n \in ms :
          copied[i].time = message[n].time /\ copied[i].origin = message[n].origin
    BY <1>6, <2>1, CopiesFacts
  <2>4. \A n \in ms : \E i \in 1 .. Len(copied) :
          copied[i].time = message[n].time /\ copied[i].origin = message[n].origin
    BY <1>6, <2>1, CopiesFacts
  <2>5. \A i, j \in 1 .. Len(copied) : i # j => copied[i].time # copied[j].time
    BY <1>6, <2>1, CopiesFacts
  <2>. QED
    BY <2>2, <2>3, <2>4, <2>5
<1>9. \A i \in 1 .. Len(copied) : copied[i].time \in 1 .. clock
  <2>1. \A n \in ms : message[n].time \in 1 .. clock
    BY <1>1, <1>7 DEF MessagesSound, In
  <2>. QED
    BY <1>8, <2>1
<1>10. Once(s) /\ NewConversation(u, row, {}, copied)
  BY <1>2, <1>4, <1>6, <1>5 DEF Branch
<1>11. /\ \A n \in UpTo(row.parent, message[row.point].time) : \E i \in 1 .. Len(copied) :
            copied[i].time = message[n].time /\ copied[i].origin = message[n].origin
       /\ \A i \in 1 .. Len(copied) : \E n \in UpTo(row.parent, message[row.point].time) :
            copied[i].time = message[n].time /\ copied[i].origin = message[n].origin
  BY <1>3, <1>4, <1>8
<1>12. \A i \in 1 .. Len(copied) :
         /\ copied[i].conversation = Len(conversation) + 1 /\ copied[i].copy
         /\ copied[i].time \in 1 .. clock
  BY <1>5, <1>8, <1>9
<1>13. row.parent \in DOMAIN conversation /\ row.point \in In(row.parent)
  BY <1>3
<1>. QED
  BY <1>3, <1>8, <1>10, <1>11, <1>12, <1>13, NewConversationKeeps

LEMMA RestoreKeeps ==
  ASSUME ConversationsInv, NEW s \in Slots, NEW u \in Users, NEW k \in DOMAIN commit,
         NEW messages \in BOOLEAN, NEW people \in BOOLEAN, Restore(s, u, k, messages, people)
  PROVE  ConversationsInv'
<1>1. TablesOK /\ MessagesSound /\ CommitsSound
  BY TablesTyped DEF ConversationsInv
<1>2. PICK row : row = Row(u, None, None, k)
  OBVIOUS
<1>3. row \in Conversation /\ row.upto = Len(message) /\ row.parent = None
  <2>1. Len(message) \in Nat /\ k \in Nat
    BY <1>1, RowFacts
  <2>. QED
    BY <1>2, <2>1 DEF Row, Conversation, None
<1>4. PICK d \in Nat : d = Len(conversation) + 1
  <2>1. Len(conversation) + 1 \in Nat
    BY <1>1, RowFacts
  <2>. QED
    BY <2>1
<1>5. PICK ms : ms = commit[k].introduced
  OBVIOUS
<1>6. Ordered(ms) /\ ms \subseteq DOMAIN message
  <2>1. PICK c : c = commit[k].conversation
    OBVIOUS
  <2>2. ms \in SUBSET In(c)
    BY <1>1, <1>5, <2>1 DEF CommitsSound, PackageSound
  <2>. QED
    BY <1>1, <2>2, OneConversation DEF In
<1>7. PICK copied : copied = IF messages THEN Copies(ms, d) ELSE <<>>
  OBVIOUS
<1>8. /\ copied \in Seq(Message)
      /\ \A i \in 1 .. Len(copied) : copied[i].conversation = d /\ copied[i].copy
      /\ \A i \in 1 .. Len(copied) : \E n \in ms : copied[i].time = message[n].time
      /\ \A i, j \in 1 .. Len(copied) : i # j => copied[i].time # copied[j].time
  <2>1. CASE messages
    <3>1. copied = Copies(ms, d)
      BY <1>7, <2>1
    <3>. QED
      BY <1>1, <1>6, <3>1, CopiesFacts
  <2>2. CASE ~messages
    <3>1. copied = <<>>
      BY <1>7, <2>2
    <3>. QED
      BY <3>1
  <2>. QED
    BY <2>1, <2>2
<1>9. \A i \in 1 .. Len(copied) :
        /\ copied[i].conversation = Len(conversation) + 1 /\ copied[i].copy
        /\ copied[i].time \in 1 .. clock
  <2>1. \A n \in ms : message[n].time \in 1 .. clock
    BY <1>1, <1>6 DEF MessagesSound
  <2>. QED
    BY <1>4, <1>8, <2>1
<1>10. PICK guests : guests = IF people THEN commit[k].people ELSE {}
  OBVIOUS
<1>11. Once(s) /\ NewConversation(u, row, guests, copied)
  BY <1>2, <1>4, <1>5, <1>7, <1>10 DEF Restore
<1>. QED
  BY <1>3, <1>8, <1>9, <1>11, NewConversationKeeps

-----------------------------------------------------------------------------
(* The invariant *)

LEMMA InitSound == Init => ConversationsInv
<1>. SUFFICES ASSUME Init PROVE ConversationsInv
  OBVIOUS
<1>1. PICK u \in Users :
        /\ conversation = <<[parent |-> None, point |-> None, source |-> None, owner |-> u,
                            upto |-> 0, live |-> TRUE]>>
        /\ participant = <<[v \in Users |-> IF v = u THEN "owner" ELSE "none"]>>
  BY DEF Init
<1>2. PICK row : row = [parent |-> None, point |-> None, source |-> None, owner |-> u,
                        upto |-> 0, live |-> TRUE]
  OBVIOUS
<1>3. row \in Conversation /\ row.parent = None /\ row.upto = 0
  BY <1>2 DEF Conversation, None
<1>4. PICK roles : roles = [v \in Users |-> IF v = u THEN "owner" ELSE "none"]
  OBVIOUS
<1>5. roles \in [Users -> Roles]
  BY <1>4 DEF Roles
<1>6. conversation = <<row>> /\ participant = <<roles>>
  BY <1>1, <1>2, <1>4
<1>7. /\ conversation \in Seq(Conversation) /\ Len(conversation) = 1 /\ conversation[1] = row
      /\ DOMAIN conversation = {1}
      /\ participant \in Seq([Users -> Roles]) /\ Len(participant) = 1
  BY <1>3, <1>5, <1>6
<1>8. /\ message = <<>> /\ commit = <<>> /\ clock = 0 /\ begun = 0 /\ issued = 0
      /\ req = [s \in Slots |-> Free]
      /\ DOMAIN message = {} /\ DOMAIN commit = {}
      /\ message \in Seq(Message) /\ commit \in Seq(Commit) /\ Len(message) = 0
  BY DEF Init
<1>9. TypeOK
  <2>1. MaxRequests \in Nat
    OBVIOUS
  <2>2. req \in [Slots -> Request]
    BY <1>8, RequestTypes
  <2>3. clock \in Nat /\ begun \in Nat /\ issued \in 0 .. MaxRequests
    BY <1>8, <2>1
  <2>. QED
    BY <1>7, <1>8, <2>2, <2>3 DEF TypeOK
<1>10. ConversationsSound
  BY <1>3, <1>7, <1>8 DEF ConversationsSound, None
<1>11. MessagesSound /\ CommitsSound
  BY <1>8 DEF MessagesSound, CommitsSound
<1>12. BranchesSound
  BY <1>3, <1>7 DEF BranchesSound
<1>13. RequestsKnow
  <2>1. \A s \in Slots : req[s] = Free
    BY <1>8
  <2>2. RequestKnows(Free) /\ ~Storing(Free)
    BY RequestTypes DEF RequestKnows, Storing, Committing
  <2>. QED
    BY <2>1, <2>2 DEF RequestsKnow
<1>. QED
  BY <1>9, <1>10, <1>11, <1>12, <1>13 DEF ConversationsInv

LEMMA NothingHappens ==
  ASSUME ConversationsInv, UNCHANGED vars
  PROVE  ConversationsInv'
<1>1. /\ TypeOK /\ TablesOK /\ Len(participant) = Len(conversation) /\ RequestsKnow
      /\ CommitsSound
  BY TablesTyped DEF ConversationsInv, ConversationsSound
<1>2. UNCHANGED tables /\ UNCHANGED <<clock, begun, req, issued>>
  BY DEF vars, tables
<1>3. clock' \in Nat /\ begun' \in Nat /\ clock <= clock' /\ begun <= begun'
  BY <1>1, <1>2 DEF TypeOK
<1>4. /\ TablesOK' /\ Grows /\ message' = message /\ DOMAIN commit' = DOMAIN commit
      /\ DOMAIN conversation' = DOMAIN conversation
  BY <1>1, <1>2, <1>3, StillGrows
<1>5. Len(participant') = Len(conversation')
  BY <1>1, <1>2 DEF tables
<1>6. /\ ConversationsSound' /\ MessagesSound' /\ BranchesSound' /\ CommitsSound'
      /\ \A t : FarFrom(t)
  BY <1>4, <1>5, RowsStay
<1>7. RequestsKnow'
  <2>1. ASSUME NEW r \in {req[s] : s \in Slots}' PROVE RequestKnows(r)'
    <3>1. r \in Request /\ RequestKnows(r)
      BY <1>1, <1>2 DEF RequestsKnow, TypeOK
    <3>. QED
      BY <1>1, <1>4, <1>6, <3>1, KnowledgeKept
  <2>2. \A s, t \in Slots : s # t /\ Storing(req[s])' /\ Storing(req[t])' => req'[s].time # req'[t].time
    BY <1>1, <1>2 DEF RequestsKnow, Storing
  <2>. QED
    BY <2>1, <2>2 DEF RequestsKnow
<1>8. TypeOK'
  BY <1>1, <1>2 DEF TypeOK, tables
<1>. QED
  BY <1>6, <1>7, <1>8 DEF ConversationsInv

\* Every step of a request keeps the invariant.
LEMMA StepSound ==
  ASSUME ConversationsInv, [Next]_vars
  PROVE  ConversationsInv'
<1>1. ASSUME NEW s \in Slots, Begin(s) PROVE ConversationsInv'
  BY <1>1, CreateConversationKeeps, SetLiveKeeps, ParticipantsKeep, SendKeeps,
     CreateCommitKeeps, BranchKeeps, RestoreKeeps DEF Begin
<1>2. ASSUME NEW s \in Slots, Continue(s) PROVE ConversationsInv'
  BY <1>2, StoreMessageKeeps, StoreAnswerKeeps, TakeTimeKeeps, ReadPackageKeeps,
     WriteCommitKeeps, FailKeeps
     DEF Continue
<1>3. CASE UNCHANGED vars
  BY <1>3, NothingHappens
<1>. QED
  BY <1>1, <1>2, <1>3 DEF Next

\* ConversationsInv holds: tables and requests are well formed, no two messages
\* of a conversation share a time however requests overlap, a branch has copies
\* of what was visible up to its point, and every package, also one not yet
\* written, introduces what was visible between its parent's message and its own.
THEOREM ConversationsHold == Spec => []ConversationsInv
BY InitSound, StepSound, PTL DEF Spec

-----------------------------------------------------------------------------
(* Owners *)

LEMMA OwnersStep ==
  ASSUME ConversationsInv, OwnerParticipates, [Next]_vars
  PROVE  OwnerParticipates'
<1>1. /\ TypeOK /\ TablesOK /\ Len(participant) = Len(conversation)
      /\ DOMAIN conversation = 1 .. Len(conversation) /\ Len(conversation) \in Nat
      /\ DOMAIN participant = DOMAIN conversation
  <2>1. TypeOK /\ TablesOK /\ Len(participant) = Len(conversation)
    BY TablesTyped DEF ConversationsInv, ConversationsSound
  <2>2. DOMAIN conversation = 1 .. Len(conversation) /\ Len(conversation) \in Nat
    BY <2>1, RowFacts
  <2>3. participant \in Seq([Users -> Roles])
    BY <2>1 DEF TypeOK
  <2>. QED
    BY <2>1, <2>2, <2>3
<1>2. ASSUME UNCHANGED <<conversation, participant>> PROVE OwnerParticipates'
  BY <1>2 DEF OwnerParticipates
<1>3. ASSUME NEW s \in Slots, NEW c \in DOMAIN conversation, SetLive(s, c)
      PROVE  OwnerParticipates'
  <2>1. /\ DOMAIN conversation' = DOMAIN conversation
        /\ participant' = participant
        /\ conversation' = [conversation EXCEPT ![c].live = ~@]
    BY <1>3 DEF SetLive
  <2>2. ASSUME NEW d \in DOMAIN conversation PROVE conversation'[d].owner = conversation[d].owner
    <3>1. conversation[d] \in Conversation
      BY <1>1, RowFacts
    <3>. QED
      BY <2>1, <3>1 DEF Conversation
  <2>. QED
    BY <2>1, <2>2 DEF OwnerParticipates
<1>4. ASSUME NEW s \in Slots, NEW c \in DOMAIN conversation, NEW u \in Users,
             AddParticipant(s, c, u) \/ RemoveParticipant(s, c, u)
      PROVE  OwnerParticipates'
  <2>1. PICK role : /\ participant' = [participant EXCEPT ![c][u] = role] /\ role # "owner"
                    /\ conversation' = conversation
    BY <1>4 DEF AddParticipant, RemoveParticipant
  <2>2. u # conversation[c].owner
    <3>1. CASE AddParticipant(s, c, u)
      <4>1. participant[c][u] = "none"
        BY <3>1 DEF AddParticipant, Participates
      <4>. QED
        BY <4>1 DEF OwnerParticipates
    <3>2. CASE RemoveParticipant(s, c, u)
      BY <3>2 DEF RemoveParticipant
    <3>. QED
      BY <1>4, <3>1, <3>2
  <2>3. \A d \in DOMAIN conversation : participant[d] \in [Users -> Roles]
    BY <1>1 DEF TypeOK
  <2>4. \A d \in DOMAIN conversation, v \in Users :
          participant'[d][v] = IF d = c /\ v = u THEN role ELSE participant[d][v]
    BY <1>1, <2>1, <2>3
  <2>5. participant[c][u] # "owner"
    BY <2>2 DEF OwnerParticipates
  <2>6. \A d \in DOMAIN conversation, v \in Users :
          participant'[d][v] = "owner" <=> participant[d][v] = "owner"
    BY <2>1, <2>4, <2>5
  <2>. QED
    BY <2>1, <2>6 DEF OwnerParticipates
<1>5. ASSUME NEW u \in Users, NEW row \in Conversation, row.owner = u, NEW people, NEW copied,
             NewConversation(u, row, people, copied)
      PROVE  OwnerParticipates'
  <2>1. PICK n : n = Len(conversation) + 1
    OBVIOUS
  <2>2. PICK roles : roles = [v \in Users |-> IF v = u THEN "owner"
                                              ELSE IF v \in people THEN "member" ELSE "none"]
    OBVIOUS
  <2>3. roles \in [Users -> Roles] /\ {v \in Users : roles[v] = "owner"} = {u}
    BY <2>2 DEF Roles
  <2>4. /\ conversation' = Append(conversation, row) /\ participant' = Append(participant, roles)
        /\ conversation \in Seq(Conversation) /\ participant \in Seq([Users -> Roles])
    BY <1>1, <1>5, <2>2 DEF NewConversation, TypeOK
  <2>5. /\ DOMAIN conversation' = 1 .. Len(conversation) + 1 /\ conversation'[n] = row
        /\ \A d \in 1 .. Len(conversation) : conversation'[d] = conversation[d]
    BY <2>1, <2>4, Appended
  <2>6. /\ participant'[n] = roles
        /\ \A d \in 1 .. Len(conversation) : participant'[d] = participant[d]
    <3>1. \A d \in 1 .. Len(participant) : participant'[d] = participant[d]
      BY <2>3, <2>4, Appended
    <3>2. participant'[Len(participant) + 1] = roles
      BY <2>3, <2>4, Appended
    <3>. QED
      BY <1>1, <2>1, <3>1, <3>2
  <2>7. ASSUME NEW d \in DOMAIN conversation'
        PROVE  {v \in Users : participant'[d][v] = "owner"} = {conversation'[d].owner}
    <3>1. CASE d = n
      BY <1>5, <2>3, <2>5, <2>6, <3>1
    <3>2. CASE d \in 1 .. Len(conversation)
      BY <1>1, <2>5, <2>6, <3>2 DEF OwnerParticipates
    <3>. QED
      BY <1>1, <2>1, <2>5, <3>1, <3>2
  <2>. QED
    BY <2>7 DEF OwnerParticipates
<1>6. \A u \in Users, parent, point, source \in Nat :
        Row(u, parent, point, source) \in Conversation /\ Row(u, parent, point, source).owner = u
  <2>1. Len(message) \in Nat
    BY <1>1, RowFacts
  <2>. QED
    BY <2>1 DEF Row, Conversation
<1>7. ASSUME NEW s \in Slots, NEW u \in Users, CreateConversation(s, u) PROVE OwnerParticipates'
  BY <1>5, <1>6, <1>7 DEF CreateConversation, None
<1>8. ASSUME NEW s \in Slots, NEW u \in Users, NEW c \in DOMAIN conversation,
             NEW m \in DOMAIN message, Branch(s, u, c, m)
      PROVE  OwnerParticipates'
  <2>1. c \in Nat /\ m \in Nat
    BY <1>1, RowFacts
  <2>. QED
    BY <1>5, <1>6, <1>8, <2>1 DEF Branch, None
<1>9. ASSUME NEW s \in Slots, NEW u \in Users, NEW k \in DOMAIN commit,
             NEW messages \in BOOLEAN, NEW people \in BOOLEAN, Restore(s, u, k, messages, people)
      PROVE  OwnerParticipates'
  <2>1. k \in Nat
    BY <1>1, RowFacts
  <2>2. Row(u, None, None, k) \in Conversation /\ Row(u, None, None, k).owner = u
    BY <1>6, <2>1 DEF None
  <2>3. PICK guests, copied : NewConversation(u, Row(u, None, None, k), guests, copied)
    BY <1>9 DEF Restore
  <2>. QED
    BY <1>5, <2>2, <2>3
<1>10. ASSUME NEW s \in Slots, Begin(s) PROVE OwnerParticipates'
  <2>1. CASE \E u \in Users, c \in DOMAIN conversation, chat \in BOOLEAN : Send(s, u, c, chat)
    BY <1>2, <2>1 DEF Send, tables
  <2>2. CASE \E u \in Users, c \in DOMAIN conversation, m \in DOMAIN message : CreateCommit(s, u, c, m)
    BY <1>2, <2>2 DEF CreateCommit, tables
  <2>. QED
    BY <1>3, <1>4, <1>7, <1>8, <1>9, <1>10, <2>1, <2>2 DEF Begin
<1>11. ASSUME NEW s \in Slots, Continue(s) PROVE OwnerParticipates'
  BY <1>2, <1>11
     DEF Continue, StoreMessage, StoreAnswer, TakeTime, ReadPackage, WriteCommit, Fail, tables
<1>12. CASE UNCHANGED vars
  BY <1>2, <1>12 DEF vars
<1>. QED
  BY <1>10, <1>11, <1>12 DEF Next

\* A conversation has one owner, its row's, who always takes part in it.
THEOREM OwnersHold == Spec => []OwnerParticipates
<1>1. Init => OwnerParticipates
  <2>. SUFFICES ASSUME Init PROVE OwnerParticipates
    OBVIOUS
  <2>1. PICK u \in Users :
          /\ conversation = <<[parent |-> None, point |-> None, source |-> None, owner |-> u,
                              upto |-> 0, live |-> TRUE]>>
          /\ participant = <<[v \in Users |-> IF v = u THEN "owner" ELSE "none"]>>
    BY DEF Init
  <2>2. DOMAIN conversation = {1} /\ conversation[1].owner = u
    BY <2>1
  <2>3. {v \in Users : participant[1][v] = "owner"} = {u}
    BY <2>1
  <2>. QED
    BY <2>2, <2>3 DEF OwnerParticipates
<1>. QED
  BY <1>1, OwnersStep, ConversationsHold, PTL DEF Spec

-----------------------------------------------------------------------------
(* Packages *)

\* A commit is in its own ancestry, and takes its parent's along.
LEMMA AncestryFacts ==
  ASSUME NEW k \in DOMAIN commit
  PROVE  /\ k \in Ancestry(k)
         /\ commit[k].parent # None => Ancestry(commit[k].parent) \subseteq Ancestry(k)
<1>1. k \in Ancestry(k)
  BY DEF Ancestry
<1>2. ASSUME commit[k].parent # None, NEW j \in Ancestry(commit[k].parent)
      PROVE  j \in Ancestry(k)
  <2>1. j \in DOMAIN commit
    BY <1>2 DEF Ancestry
  <2>2. ASSUME NEW K \in SUBSET DOMAIN commit, k \in K,
               \A i \in K : commit[i].parent \in K \cup {None}
        PROVE  j \in K
    <3>1. commit[k].parent \in K
      BY <1>2, <2>2
    <3>. QED
      BY <1>2, <2>2, <3>1 DEF Ancestry
  <2>. QED
    BY <2>1, <2>2 DEF Ancestry
<1>. QED
  BY <1>1, <1>2

\* It stays when commits come.
LEMMA AncestryKept ==
  ASSUME TablesOK, CommitsSound, Grows, NEW k \in DOMAIN commit
  PROVE  Ancestry(k) \subseteq Ancestry(k)'
<1>1. ASSUME NEW j \in Ancestry(k) PROVE j \in Ancestry(k)'
  <2>1. j \in DOMAIN commit /\ j \in DOMAIN commit'
    BY <1>1 DEF Ancestry, Grows
  <2>2. ASSUME NEW K \in SUBSET DOMAIN commit', k \in K,
               \A i \in K : commit'[i].parent \in K \cup {None}
        PROVE  j \in K
    <3>1. PICK old : old = K \cap DOMAIN commit
      OBVIOUS
    <3>2. old \in SUBSET DOMAIN commit /\ k \in old
      BY <2>2, <3>1
    <3>3. ASSUME NEW i \in old PROVE commit[i].parent \in old \cup {None}
      <4>1. i \in DOMAIN commit /\ i \in K /\ commit'[i] = commit[i]
        BY <3>1 DEF Grows
      <4>2. commit[i].parent \in K \cup {None}
        BY <2>2, <4>1
      <4>3. commit[i].parent # None => commit[i].parent \in DOMAIN commit
        BY <4>1 DEF CommitsSound, RowSound, CommitsOf
      <4>. QED
        BY <3>1, <4>2, <4>3
    <3>4. j \in old
      BY <1>1, <3>2, <3>3 DEF Ancestry
    <3>. QED
      BY <3>1, <3>4
  <2>. QED
    BY <2>1, <2>2 DEF Ancestry
<1>. QED
  BY <1>1

\* What a message needs to be found in the packages from k on.
Covered(m, k) ==
  \E j \in Ancestry(k) :
    \/ m \in commit[j].introduced
    \/ m > commit[j].upto /\ message[m].time <= message[commit[j].message].time

LEMMA CoveredKept ==
  ASSUME TablesOK, CommitsSound, Grows, NEW k \in DOMAIN commit, NEW m \in DOMAIN message,
         Covered(m, k)
  PROVE  Covered(m, k)'
<1>1. PICK j \in Ancestry(k) :
        \/ m \in commit[j].introduced
        \/ m > commit[j].upto /\ message[m].time <= message[commit[j].message].time
  BY DEF Covered
<1>2. j \in DOMAIN commit /\ j \in Ancestry(k)'
  BY AncestryKept DEF Ancestry
<1>3. commit'[j] = commit[j] /\ message'[m] = message[m]
  BY <1>2 DEF Grows
<1>4. message'[commit'[j].message] = message[commit[j].message]
  <2>1. commit[j].message \in DOMAIN message
    BY <1>2 DEF CommitsSound, RowSound, In
  <2>. QED
    BY <1>3, <2>1 DEF Grows
<1>. QED
  BY <1>1, <1>2, <1>3, <1>4 DEF Covered

\* A sound package covers what was visible to it, when its parent's does.
LEMMA PackageCovers ==
  ASSUME TablesOK, CommitsSound, MessagesSound, NEW k \in DOMAIN commit,
         commit[k].parent # None =>
           \A m \in UpTo(commit[k].conversation, message[commit[commit[k].parent].message].time) :
             m <= commit[commit[k].parent].upto => Covered(m, commit[k].parent),
         NEW m \in UpTo(commit[k].conversation, message[commit[k].message].time),
         m <= commit[k].upto
  PROVE  Covered(m, k)
<1>1. PICK row \in Commit : row = commit[k]
  BY RowFacts
<1>2. RowSound(row) /\ PackageSound(row)
  BY <1>1 DEF CommitsSound
<1>3. m \in In(row.conversation) /\ m \in DOMAIN message /\ message[m].time \in 1 .. clock
  BY <1>1 DEF UpTo, In, MessagesSound
<1>4. CASE message[m].time > Since(row)
  <2>1. m \in row.introduced
    BY <1>1, <1>2, <1>4 DEF PackageSound
  <2>. QED
    BY <1>1, <2>1, AncestryFacts DEF Covered
<1>5. CASE ~ (message[m].time > Since(row))
  <2>1. row.parent # None
    <3>1. clock \in Nat
      BY DEF TablesOK
    <3>2. row.parent = None => Since(row) = 0
      BY DEF Since, Parent
    <3>. QED
      BY <1>3, <1>5, <3>1, <3>2
  <2>2. PICK p : p = row.parent /\ p \in DOMAIN commit
    BY <1>2, <2>1 DEF RowSound, CommitsOf
  <2>3. PICK t \in Nat : t = message[commit[p].message].time /\ Since(row) = t
    <3>1. commit[p].message \in DOMAIN message
      BY <2>2 DEF CommitsSound, RowSound, In
    <3>2. message[commit[p].message].time \in Nat
      BY <3>1, RowFacts
    <3>. QED
      BY <2>1, <2>2, <3>2 DEF Since, Parent
  <2>4. message[m].time <= t /\ message[m].time \in Nat
    <3>1. message[m].time \in Nat
      BY <1>3, RowFacts
    <3>. QED
      BY <1>5, <2>3, <3>1
  <2>5. p \in Ancestry(k)
    BY <1>1, <2>1, <2>2, AncestryFacts
  <2>6. CASE m <= commit[p].upto
    <3>1. m \in UpTo(row.conversation, t)
      BY <1>3, <2>4 DEF UpTo
    <3>2. Covered(m, p)
      BY <1>1, <2>1, <2>2, <2>3, <2>6, <3>1
    <3>3. Ancestry(p) \subseteq Ancestry(k)
      BY <1>1, <2>1, <2>2, AncestryFacts
    <3>. QED
      BY <3>2, <3>3 DEF Covered
  <2>7. CASE ~ (m <= commit[p].upto)
    <3>1. m \in Nat /\ commit[p].upto \in Nat
      BY <1>3, <2>2, RowFacts
    <3>2. m > commit[p].upto
      BY <2>7, <3>1
    <3>. QED
      BY <2>3, <2>4, <2>5, <3>2 DEF Covered
  <2>. QED
    BY <2>6, <2>7
<1>. QED
  BY <1>4, <1>5

\* So does it in the state a step leads to.
PackagesCover ==
  TablesOK /\ CommitsSound /\ MessagesSound =>
    \A k \in DOMAIN commit :
      (commit[k].parent # None =>
         \A m \in UpTo(commit[k].conversation, message[commit[commit[k].parent].message].time) :
           m <= commit[commit[k].parent].upto => Covered(m, commit[k].parent)) =>
        \A m \in UpTo(commit[k].conversation, message[commit[k].message].time) :
          m <= commit[k].upto => Covered(m, k)

LEMMA PackagesCoverHolds == PackagesCover
BY PackageCovers DEF PackagesCover

LEMMA PackagesCoverNext == PackagesCover'
BY PackagesCoverHolds, PTL

\* The packages from k on cover what was visible when its own was made.
Complete(k) ==
  \A m \in UpTo(commit[k].conversation, message[commit[k].message].time) :
    m <= commit[k].upto => Covered(m, k)

LEMMA PackagesAreComplete ==
  /\ PackagesComplete <=> \A k \in DOMAIN commit : Complete(k)
  /\ PackagesComplete' <=> \A k \in DOMAIN commit' : Complete(k)'
BY DEF PackagesComplete, Complete, Covered

LEMMA CompleteKept ==
  ASSUME TablesOK, TablesOK', CommitsSound, Grows, NEW k \in DOMAIN commit, Complete(k)
  PROVE  Complete(k)'
<1>1. PICK row \in Commit : row = commit[k] /\ row = commit'[k]
  BY RowFacts DEF Grows
<1>2. row.message \in DOMAIN message /\ row.upto <= Len(message)
  BY <1>1 DEF CommitsSound, RowSound, PackageSound, In
<1>3. PICK t : t = message[row.message].time /\ t = message'[row.message].time
  BY <1>2 DEF Grows
<1>4. ASSUME NEW m \in UpTo(row.conversation, t)', m <= row.upto
      PROVE  Covered(m, k)'
  <2>1. m \in DOMAIN message'
    BY <1>4 DEF UpTo, In
  <2>2. m \in DOMAIN message
    <3>1. row.upto \in Nat
      BY DEF Commit
    <3>. QED
      BY <1>2, <1>4, <2>1, <3>1, MessagesGrow, RowFacts
  <2>3. message'[m] = message[m]
    BY <2>2 DEF Grows
  <2>4. m \in UpTo(row.conversation, t)
    BY <1>4, <2>2, <2>3 DEF UpTo, In
  <2>5. Covered(m, k)
    BY <1>1, <1>3, <1>4, <2>4 DEF Complete
  <2>. QED
    BY <2>2, <2>5, CoveredKept
<1>. QED
  BY <1>1, <1>3, <1>4 DEF Complete

\* Rows are written once.
LEMMA StepGrows ==
  ASSUME ConversationsInv, ConversationsInv', [Next]_vars
  PROVE  /\ Grows
         /\ \/ commit' = commit
            \/ \E row \in Commit : commit' = Append(commit, row) /\ message' = message
<1>1. /\ TypeOK /\ TablesOK /\ TypeOK' /\ TablesOK' /\ clock \in Nat /\ begun \in Nat
      /\ \A s \in Slots : req[s] \in Request
  BY TablesTyped DEF ConversationsInv, TypeOK
<1>2. clock <= clock /\ begun <= begun /\ clock <= clock + 1 /\ begun <= begun + 1
  BY <1>1
<1>3. ASSUME UNCHANGED tables, clock <= clock', begun <= begun'
      PROVE  Grows /\ commit' = commit
  BY <1>3 DEF Grows, tables
<1>4. ASSUME NEW e, message' = Append(message, e), UNCHANGED <<conversation, commit, begun>>,
             clock <= clock'
      PROVE  Grows /\ commit' = commit
  <2>1. DOMAIN message = 1 .. Len(message) /\ Len(message) \in Nat /\ message \in Seq(Message)
    BY <1>1, RowFacts DEF TablesOK
  <2>2. \A m \in DOMAIN message : m \in DOMAIN message' /\ message'[m] = message[m]
    BY <1>4, <2>1
  <2>. QED
    BY <1>2, <1>4, <2>2 DEF Grows
<1>5. ASSUME NEW u, NEW row, NEW people, NEW copied \in Seq(Message),
             NewConversation(u, row, people, copied)
      PROVE  Grows /\ commit' = commit
  <2>1. /\ DOMAIN conversation = 1 .. Len(conversation) /\ Len(conversation) \in Nat
        /\ conversation \in Seq(Conversation) /\ message \in Seq(Message)
        /\ DOMAIN message = 1 .. Len(message) /\ Len(message) \in Nat
    BY <1>1, RowFacts DEF TablesOK
  <2>2. /\ conversation' = Append(conversation, row) /\ message' = message \o copied
        /\ UNCHANGED <<commit, clock, begun>>
    BY <1>5 DEF NewConversation, clocks
  <2>3. \A c \in DOMAIN conversation :
          c \in DOMAIN conversation' /\ conversation'[c] = conversation[c]
    BY <2>1, <2>2
  <2>4. \A m \in DOMAIN message : m \in DOMAIN message' /\ message'[m] = message[m]
    <3>1. /\ DOMAIN message' = 1 .. Len(message) + Len(copied) /\ Len(copied) \in Nat
          /\ \A i \in 1 .. Len(message) : message'[i] = message[i]
      BY <2>1, <2>2, Joined, LenProperties
    <3>. QED
      BY <2>1, <3>1
  <2>. QED
    BY <1>2, <2>2, <2>3, <2>4 DEF Grows
<1>6. ASSUME NEW s \in Slots, Begin(s) PROVE Grows /\ commit' = commit
  <2>1. ASSUME NEW u \in Users, CreateConversation(s, u) PROVE Grows /\ commit' = commit
    BY <1>5, <2>1, EmptySeq DEF CreateConversation
  <2>2. ASSUME NEW c \in DOMAIN conversation, SetLive(s, c) PROVE Grows /\ commit' = commit
    <3>1. /\ DOMAIN conversation' = DOMAIN conversation
          /\ conversation' = [conversation EXCEPT ![c].live = ~@]
          /\ UNCHANGED <<message, commit, clock, begun>>
      BY <2>2 DEF SetLive, clocks
    <3>2. ASSUME NEW d \in DOMAIN conversation
          PROVE  /\ conversation'[d].parent = conversation[d].parent
                 /\ conversation'[d].point = conversation[d].point
                 /\ conversation'[d].upto = conversation[d].upto
      <4>1. conversation[d] \in Conversation
        BY <1>1, RowFacts
      <4>. QED
        BY <3>1, <4>1 DEF Conversation
    <3>. QED
      BY <1>2, <3>1, <3>2 DEF Grows
  <2>3. ASSUME NEW c \in DOMAIN conversation, NEW u \in Users,
               AddParticipant(s, c, u) \/ RemoveParticipant(s, c, u)
        PROVE  Grows /\ commit' = commit
    BY <1>2, <2>3 DEF AddParticipant, RemoveParticipant, Grows, clocks
  <2>4. ASSUME NEW u \in Users, NEW c \in DOMAIN conversation, NEW chat \in BOOLEAN,
               Send(s, u, c, chat)
        PROVE  Grows /\ commit' = commit
    BY <1>2, <1>3, <2>4 DEF Send
  <2>5. ASSUME NEW u \in Users, NEW c \in DOMAIN conversation, NEW m \in DOMAIN message,
               CreateCommit(s, u, c, m)
        PROVE  Grows /\ commit' = commit
    BY <1>2, <1>3, <2>5 DEF CreateCommit, clocks
  <2>6. ASSUME NEW u \in Users, NEW c \in DOMAIN conversation, NEW m \in DOMAIN message,
               Branch(s, u, c, m)
        PROVE  Grows /\ commit' = commit
    <3>1. PICK copied : copied = Copies(UpTo(c, message[m].time), Len(conversation) + 1)
      OBVIOUS
    <3>2. copied \in Seq(Message)
      <4>1. PICK d \in Nat : d = Len(conversation) + 1
        BY <1>1, RowFacts
      <4>2. PICK ms : ms = UpTo(c, message[m].time)
        OBVIOUS
      <4>3. Ordered(ms)
        <5>1. ms \in SUBSET In(c) /\ MessagesSound
          BY <4>2 DEF UpTo, ConversationsInv
        <5>. QED
          BY <5>1, OneConversation
      <4>. QED
        BY <1>1, <3>1, <4>1, <4>2, <4>3, CopiesFacts
    <3>. QED
      BY <1>5, <2>6, <3>1, <3>2 DEF Branch
  <2>7. ASSUME NEW u \in Users, NEW k \in DOMAIN commit, NEW messages \in BOOLEAN,
               NEW people \in BOOLEAN, Restore(s, u, k, messages, people)
        PROVE  Grows /\ commit' = commit
    <3>1. PICK copied, guests :
            /\ copied = IF messages THEN Copies(commit[k].introduced, Len(conversation) + 1) ELSE <<>>
            /\ guests = IF people THEN commit[k].people ELSE {}
      OBVIOUS
    <3>2. copied \in Seq(Message)
      <4>1. PICK d \in Nat : d = Len(conversation) + 1
        BY <1>1, RowFacts
      <4>2. PICK ms, c : ms = commit[k].introduced /\ c = commit[k].conversation
        OBVIOUS
      <4>3. Ordered(ms)
        <5>1. ms \in SUBSET In(c) /\ MessagesSound
          BY <4>2 DEF CommitsSound, PackageSound, ConversationsInv
        <5>. QED
          BY <5>1, OneConversation
      <4>4. messages => copied = Copies(ms, d)
        BY <3>1, <4>1, <4>2
      <4>5. ~messages => copied = <<>>
        BY <3>1
      <4>6. messages => copied \in Seq(Message)
        BY <1>1, <4>3, <4>4, CopiesFacts
      <4>. QED
        BY <4>5, <4>6, EmptySeq
    <3>. QED
      BY <1>5, <2>7, <3>1, <3>2 DEF Restore
  <2>. QED
    BY <1>6, <2>1, <2>2, <2>3, <2>4, <2>5, <2>6, <2>7 DEF Begin
<1>7. ASSUME NEW s \in Slots, WriteCommit(s)
      PROVE  /\ Grows
             /\ \/ commit' = commit
                \/ \E row \in Commit : commit' = Append(commit, row) /\ message' = message
  <2>1. PICK row : row = req[s].row[1]
    OBVIOUS
  <2>2. row \in Commit
    <3>1. req[s].row \in Seq(Commit) /\ Len(req[s].row) = 1
      BY <1>1, <1>7 DEF WriteCommit, At, ConversationsInv, RequestsKnow, RequestKnows, Request, Committing
    <3>. QED
      BY <2>1, <3>1
  <2>3. /\ UNCHANGED <<conversation, message, clock, begun>>
        /\ commit' = commit \/ commit' = Append(commit, row)
    BY <1>7, <2>1 DEF WriteCommit, clocks
  <2>4. \A k \in DOMAIN commit : k \in DOMAIN commit' /\ commit'[k] = commit[k]
    <3>1. DOMAIN commit = 1 .. Len(commit) /\ Len(commit) \in Nat /\ commit \in Seq(Commit)
      BY <1>1, RowFacts DEF TablesOK
    <3>. QED
      BY <2>3, <3>1
  <2>5. Grows
    BY <1>2, <2>3, <2>4 DEF Grows
  <2>. QED
    BY <2>2, <2>3, <2>5
<1>8. ASSUME NEW s \in Slots,
             StoreMessage(s) \/ StoreAnswer(s) \/ TakeTime(s) \/ ReadPackage(s) \/ Fail(s)
      PROVE  Grows /\ commit' = commit
  <2>1. CASE StoreMessage(s)
    <3>1. UNCHANGED <<conversation, commit, begun>> /\ (clock' = clock \/ clock' = clock + 1)
      BY <2>1 DEF StoreMessage
    <3>2. \E e : message' = Append(message, e)
      BY <2>1 DEF StoreMessage, Stored
    <3>. QED
      BY <1>2, <1>4, <3>1, <3>2
  <2>2. CASE StoreAnswer(s)
    <3>1. UNCHANGED <<conversation, commit, begun, clock>>
      BY <2>2 DEF StoreAnswer, clocks
    <3>2. \E e : message' = Append(message, e)
      BY <2>2 DEF StoreAnswer, Stored
    <3>. QED
      BY <1>2, <1>4, <3>1, <3>2
  <2>3. CASE TakeTime(s) \/ ReadPackage(s) \/ Fail(s)
    BY <1>2, <1>3, <2>3 DEF TakeTime, ReadPackage, Fail, clocks
  <2>. QED
    BY <1>8, <2>1, <2>2, <2>3
<1>9. CASE UNCHANGED vars
  BY <1>2, <1>3, <1>9 DEF vars, tables
<1>10. CASE \E s \in Slots : Continue(s)
  BY <1>7, <1>8, <1>10 DEF Continue
<1>. QED
  BY <1>6, <1>9, <1>10 DEF Next

LEMMA PackagesStep ==
  ASSUME ConversationsInv, ConversationsInv', PackagesComplete, [Next]_vars
  PROVE  PackagesComplete'
<1>1. /\ TablesOK /\ TablesOK' /\ CommitsSound /\ CommitsSound' /\ MessagesSound'
  BY TablesTyped DEF ConversationsInv
<1>2. Grows
  BY StepGrows
<1>3. ASSUME NEW k \in DOMAIN commit PROVE Complete(k)'
  BY <1>1, <1>2, CompleteKept, PackagesAreComplete
<1>4. CASE commit' = commit
  BY <1>3, <1>4, PackagesAreComplete
<1>5. ASSUME NEW row \in Commit, commit' = Append(commit, row), message' = message
      PROVE  PackagesComplete'
  <2>1. PICK last : last = Len(commit) + 1
    OBVIOUS
  <2>2. /\ DOMAIN commit = 1 .. Len(commit) /\ Len(commit) \in Nat /\ commit \in Seq(Commit)
        /\ DOMAIN commit' = 1 .. last /\ commit'[last] = row
    <3>1. DOMAIN commit = 1 .. Len(commit) /\ Len(commit) \in Nat /\ commit \in Seq(Commit)
      BY <1>1, RowFacts DEF TablesOK
    <3>2. DOMAIN commit' = 1 .. Len(commit) + 1 /\ commit'[Len(commit) + 1] = row
      BY <1>5, <3>1, Appended
    <3>. QED
      BY <2>1, <3>1, <3>2
  <2>3. ASSUME row.parent # None, NEW m
        PROVE  m \in UpTo(row.conversation, message[commit[row.parent].message].time)'
                 /\ m <= commit'[row.parent].upto => Covered(m, row.parent)'
    <3>1. PICK p : p = row.parent
      OBVIOUS
    <3>2. p \in DOMAIN commit' /\ p < last /\ commit'[p].conversation = row.conversation
      <4>1. last \in DOMAIN commit'
        BY <2>1, <2>2
      <4>2. row \in {commit'[k] : k \in DOMAIN commit'}
        BY <2>2, <4>1
      <4>3. RowSound(row)' /\ row.parent < last
        BY <1>1, <2>2, <4>1, <4>2 DEF CommitsSound
      <4>. QED
        BY <2>3, <3>1, <4>3 DEF RowSound, CommitsOf
    <3>3. p \in DOMAIN commit
      BY <2>1, <2>2, <3>2
    <3>4. Complete(p)'
      BY <1>3, <3>3
    <3>. QED
      BY <3>1, <3>2, <3>4 DEF Complete
  <2>4. Complete(last)'
    <3>1. last \in DOMAIN commit'
      BY <2>1, <2>2
    <3>2. PackagesCover'
      BY PackagesCoverNext
    <3>. QED
      BY <1>1, <2>2, <2>3, <3>1, <3>2 DEF PackagesCover, Complete
  <2>5. \A k \in DOMAIN commit' : k \in DOMAIN commit \/ k = last
    BY <2>1, <2>2
  <2>. QED
    BY <1>3, <2>4, <2>5, PackagesAreComplete
<1>. QED
  BY <1>4, <1>5, StepGrows

\* PackagesComplete holds: whatever was visible up to the message of a commit,
\* when its package was made, is introduced by this package or an ancestor's,
\* or came late, although a commit reads its parent long before its package is
\* made and other commits are written in between.
THEOREM PackagesHold == Spec => []PackagesComplete
<1>1. Init => PackagesComplete
  BY DEF Init, PackagesComplete
<1>. QED
  BY <1>1, PackagesStep, ConversationsHold, PTL DEF Spec

-----------------------------------------------------------------------------
(* The commit graph *)

\* The commit a branch begins with is the oldest there is.
LEMMA FirstFacts ==
  ASSUME TablesOK, NEW c, CommitsOf(c) # {}
  PROVE  First(c) \in CommitsOf(c)
<1>. DEFINE times == {commit[k].created : k \in CommitsOf(c)}
<1>1. times \in SUBSET Nat /\ times # {}
  BY RowFacts DEF CommitsOf
<1>2. \E n \in times : \A m \in times : n <= m
  <2>. HIDE DEF times
  <2>. QED
    BY <1>1, LeastNumber
<1>3. \E k \in CommitsOf(c) : \A o \in CommitsOf(c) : commit[k].created <= commit[o].created
  BY <1>2
<1>. QED
  BY <1>3, Zenon DEF First

\* Where the edge into a commit can come from.
Before(k) ==
  IF commit[k].parent # None THEN commit[k].parent
  ELSE Newest(conversation[commit[k].conversation].parent)

LEMMA EdgeFacts ==
  ASSUME TablesOK, CommitsSound, NEW c, NEW e \in Edges(c)
  PROVE  LET k == e[2] IN
         /\ k \in Shown(c) /\ e = <<Before(k), k>>
         /\ commit[k].parent = None =>
              Before(k) \in CommitsOf(conversation[commit[k].conversation].parent)
<1>1. CASE e \in ChainEdges(c)
  <2>1. PICK k \in Shown(c) : commit[k].parent \in Shown(c) /\ e = <<commit[k].parent, k>>
    BY <1>1 DEF ChainEdges
  <2>2. commit[k].parent \in DOMAIN commit
    BY <2>1 DEF Shown
  <2>3. commit[k].parent # None
    BY <2>2, RowFacts DEF None
  <2>. QED
    BY <2>1, <2>3 DEF Before
<1>2. CASE e \in ForkEdges(c)
  <2>1. PICK d \in Family(c) :
          /\ CommitsOf(d) # {} /\ CommitsOf(conversation[d].parent) # {}
          /\ commit[First(d)].parent = None
          /\ e = <<Newest(conversation[d].parent), First(d)>>
    BY <1>2 DEF ForkEdges
  <2>2. PICK k : k = First(d)
    OBVIOUS
  <2>3. k \in DOMAIN commit /\ commit[k].conversation = d
    BY <2>1, <2>2, FirstFacts DEF CommitsOf
  <2>4. k \in Shown(c)
    BY <2>3 DEF Shown
  <2>5. Before(k) = Newest(conversation[d].parent)
    BY <2>1, <2>2, <2>3 DEF Before
  <2>6. Newest(conversation[d].parent) \in CommitsOf(conversation[d].parent)
    BY <2>1, NewestFacts
  <2>7. e = <<Before(k), k>> /\ e[2] = k
    BY <2>1, <2>2, <2>5
  <2>. QED
    BY <2>3, <2>4, <2>5, <2>6, <2>7
<1>. QED
  BY <1>1, <1>2 DEF Edges

LEMMA GraphIsForest ==
  ASSUME ConversationsInv
  PROVE  CommitGraphIsForest
<1>1. TablesOK /\ CommitsSound /\ MessagesSound /\ ConversationsSound
  BY TablesTyped DEF ConversationsInv
<1>2. ASSUME NEW k \in DOMAIN commit
      PROVE  /\ commit[k].conversation \in DOMAIN conversation
             /\ commit[k].parent # None => commit[k].parent \in CommitsOf(commit[k].conversation)
             /\ commit[k].parent < k
  <2>1. RowSound(commit[k]) /\ commit[k].parent < k
    BY <1>1 DEF CommitsSound
  <2>. QED
    BY <1>1, <2>1 DEF RowSound, In, MessagesSound
<1>3. ASSUME NEW c, NEW k \in Shown(c)
      PROVE  /\ Cardinality({e \in Edges(c) : e[2] = k}) <= 1
             /\ commit[k].parent # None => <<commit[k].parent, k>> \in Edges(c)
  <2>1. {e \in Edges(c) : e[2] = k} \in SUBSET {<<Before(k), k>>}
    BY <1>1, EdgeFacts
  <2>2. IsFiniteSet({<<Before(k), k>>}) /\ Cardinality({<<Before(k), k>>}) = 1
    BY FS_Singleton
  <2>3. Cardinality({e \in Edges(c) : e[2] = k}) <= 1
    <3>. DEFINE into == {e \in Edges(c) : e[2] = k}
    <3>. HIDE DEF into
    <3>1. into \in SUBSET {<<Before(k), k>>}
      BY <2>1 DEF into
    <3>2. Cardinality(into) <= 1
      BY <2>2, <3>1, FS_Subset
    <3>. QED
      BY <3>2 DEF into
  <2>4. ASSUME commit[k].parent # None PROVE <<commit[k].parent, k>> \in Edges(c)
    <3>1. commit[k].parent \in Shown(c)
      BY <1>2, <2>4 DEF Shown, CommitsOf
    <3>. QED
      BY <3>1 DEF Edges, ChainEdges
  <2>. QED
    BY <2>3, <2>4
<1>4. ASSUME NEW c, NEW K \in SUBSET Shown(c), K # {}
      PROVE  \E k \in K : \A e \in Edges(c) : e[2] = k => e[1] \notin K
  <2>1. PICK d \in {commit[k].conversation : k \in K} :
          \A o \in {commit[k].conversation : k \in K} : d <= o
    <3>1. {commit[k].conversation : k \in K} \in SUBSET Nat
      BY <1>1, RowFacts DEF Shown
    <3>2. {commit[k].conversation : k \in K} # {}
      BY <1>4
    <3>. QED
      BY <3>1, <3>2, LeastNumber
  <2>2. PICK first \in K \cap CommitsOf(d) : \A o \in K \cap CommitsOf(d) : first <= o
    <3>1. K \cap CommitsOf(d) \in SUBSET Nat
      BY <1>1, RowFacts DEF Shown
    <3>2. K \cap CommitsOf(d) # {}
      BY <2>1 DEF Shown, CommitsOf
    <3>. QED
      BY <3>1, <3>2, LeastNumber
  <2>3. /\ first \in DOMAIN commit /\ commit[first].conversation = d
        /\ first \in Nat /\ d \in Nat /\ d \in DOMAIN conversation
    BY <1>1, <1>2, <2>2, RowFacts DEF CommitsOf
  <2>4. ASSUME NEW e \in Edges(c), e[2] = first, e[1] \in K
        PROVE  FALSE
    <3>1. /\ e[1] = Before(first)
          /\ commit[first].parent = None => Before(first) \in CommitsOf(conversation[d].parent)
      BY <1>1, <2>3, <2>4, EdgeFacts
    <3>2. e[1] \in DOMAIN commit
      BY <2>4 DEF Shown
    <3>3. CASE commit[first].parent # None
      <4>1. e[1] \in CommitsOf(d) /\ e[1] < first
        BY <1>2, <2>3, <3>1, <3>3 DEF Before
      <4>2. first <= e[1]
        BY <2>2, <2>4, <4>1
      <4>. QED
        BY <1>1, <2>3, <3>2, <4>1, <4>2, RowFacts
    <3>4. CASE commit[first].parent = None
      <4>1. commit[e[1]].conversation = conversation[d].parent
        BY <3>1, <3>4 DEF CommitsOf
      <4>2. conversation[d].parent < d /\ conversation[d].parent \in Nat
        BY <1>1, <2>3, RowFacts DEF ConversationsSound
      <4>3. d <= commit[e[1]].conversation
        BY <2>1, <2>4
      <4>. QED
        BY <2>3, <4>1, <4>2, <4>3
    <3>. QED
      BY <3>3, <3>4
  <2>. QED
    BY <2>2, <2>4
<1>. QED
  BY <1>3, <1>4 DEF CommitGraphIsForest

\* CommitGraphIsForest holds: in the graph of a family no commit has two edges
\* in, one with a parent has one from it, and there is no cycle, whatever the
\* order in which the requests that made the commits and branches ended.
THEOREM ForestHolds == Spec => []CommitGraphIsForest
BY GraphIsForest, ConversationsHold, PTL

-----------------------------------------------------------------------------
(* Branches *)

\* Messages that all have twins are no more than those.
LEMMA TwinsFewer ==
  ASSUME TablesOK, NEW left, NEW right, Ordered(left), Ordered(right),
         \A m \in left : \E n \in right : Twins(m, n)
  PROVE  Cardinality(left) <= Cardinality(right)
<1>. DEFINE twin == [m \in left |-> CHOOSE n \in right : Twins(m, n)]
<1>1. \A m \in left : twin[m] \in right /\ Twins(m, twin[m])
  <2>1. ASSUME NEW m \in left PROVE (CHOOSE n \in right : Twins(m, n)) \in right /\ Twins(m, CHOOSE n \in right : Twins(m, n))
    BY Zenon
  <2>. QED
    BY <2>1
<1>2. \A m, n \in left : twin[m] = twin[n] => m = n
  <2>1. ASSUME NEW m \in left, NEW n \in left, twin[m] = twin[n] PROVE m = n
    <3>1. message[m].time = message[twin[m]].time /\ message[n].time = message[twin[n]].time
      BY <1>1 DEF Twins
    <3>. HIDE DEF twin
    <3>. QED
      BY <2>1, <3>1 DEF Ordered
  <2>. QED
    BY <2>1
<1>3. twin \in Injection(left, right)
  <2>1. twin \in [left -> right]
    BY <1>1
  <2>. HIDE DEF twin
  <2>. QED
    BY <1>2, <2>1 DEF Injection, IsInjective
<1>4. IsFiniteSet(right)
  BY OrderedFinite
<1>. QED
  BY <1>3, <1>4, FS_Injection

\* Messages and their twins are as many.
LEMMA TwinsAsMany ==
  ASSUME TablesOK, NEW left, NEW right, Ordered(left), Ordered(right),
         \A m \in left : \E n \in right : Twins(m, n),
         \A n \in right : \E m \in left : Twins(m, n)
  PROVE  Cardinality(left) = Cardinality(right)
<1>1. \A n \in right : \E m \in left : Twins(n, m)
  BY DEF Twins
<1>2. Cardinality(left) <= Cardinality(right) /\ Cardinality(right) <= Cardinality(left)
  BY <1>1, TwinsFewer
<1>3. Cardinality(left) \in Nat /\ Cardinality(right) \in Nat
  BY InOrderFacts
<1>. QED
  BY <1>2, <1>3

\* Two conversations share at least what they begin with in common.
LEMMA SharedFacts ==
  ASSUME TablesOK, NEW left, NEW right, Ordered(In(left)), Ordered(In(right)),
         NEW n \in Nat, n <= Cardinality(In(left)), n <= Cardinality(In(right)),
         \A i \in 1 .. n : message[InOrder(In(left))[i]].origin = message[InOrder(In(right))[i]].origin
  PROVE  Shared(left, right) >= n
<1>. DEFINE l == InOrder(In(left))
            r == InOrder(In(right))
            same(i) == \A j \in 1 .. i : message[l[j]].origin = message[r[j]].origin
            common == {i \in 0 .. Len(l) : i <= Len(r) /\ same(i)}
<1>1. Len(l) \in Nat /\ Len(l) = Cardinality(In(left)) /\ Len(r) = Cardinality(In(right))
  BY InOrderFacts
<1>2. n \in common /\ common \in SUBSET Nat /\ \A i \in common : i <= Len(l)
  BY <1>1
<1>3. Shared(left, right) = CHOOSE i \in common : \A o \in common : o <= i
  BY DEF Shared
<1>4. \E i \in common : \A o \in common : o <= i
  <2>. HIDE DEF common, l
  <2>. QED
    BY <1>1, <1>2, GreatestNumber
<1>. HIDE DEF common
<1>5. (CHOOSE i \in common : \A o \in common : o <= i) \in common /\ \A o \in common : o <= (CHOOSE i \in common : \A p \in common : p <= i)
  BY <1>4, Zenon
<1>. QED
  BY <1>2, <1>3, <1>5

\* A rank within the oldest messages of a conversation is one within all.
LEMMA OldestRank ==
  ASSUME NEW ms, NEW oldest \in SUBSET ms, NEW m \in oldest,
         \A n \in ms : message[n].time <= message[m].time => n \in oldest
  PROVE  Rank(ms, m) = Rank(oldest, m)
<1>1. {n \in ms : message[n].time <= message[m].time} = {n \in oldest : message[n].time <= message[m].time}
  OBVIOUS
<1>. QED
  BY <1>1 DEF Rank

LEMMA BranchesArePrefixes ==
  ASSUME ConversationsInv
  PROVE  BranchIsPrefix
<1>1. TablesOK /\ ConversationsSound /\ MessagesSound /\ BranchesSound
  BY TablesTyped DEF ConversationsInv
<1>2. ASSUME NEW c \in DOMAIN conversation, conversation[c].parent # None,
             NEW from, from = conversation[c].parent,
             NEW before, before = UpTo(from, message[conversation[c].point].time),
             NEW copies, copies = {m \in In(c) : message[m].copy},
             \A m \in before : m <= conversation[c].upto
      PROVE  /\ Cardinality(copies) = Cardinality(before)
             /\ Shared(from, c) >= Cardinality(copies)
  <2>1. PICK point : point = message[conversation[c].point].time
    OBVIOUS
  <2>2. point \in Nat
    <3>1. conversation[c].point \in DOMAIN message
      BY <1>1, <1>2 DEF ConversationsSound, In
    <3>. QED
      BY <1>1, <2>1, <3>1, RowFacts
  <2>3. /\ before \in SUBSET In(from) /\ copies \in SUBSET In(c)
        /\ Ordered(before) /\ Ordered(copies) /\ Ordered(In(from)) /\ Ordered(In(c))
    <3>1. before \in SUBSET In(from) /\ copies \in SUBSET In(c)
      BY <1>2 DEF UpTo
    <3>. QED
      BY <1>1, <3>1, OneConversation
  <2>4. /\ \A m \in before : \E n \in copies : Twins(m, n)
        /\ \A n \in copies : \E m \in before : Twins(m, n)
    <3>1. before = {m \in UpTo(conversation[c].parent, message[conversation[c].point].time) :
                      m <= conversation[c].upto}
      BY <1>2
    <3>. QED
      BY <1>1, <1>2, <3>1, Zenon DEF BranchesSound
  <2>5. Cardinality(copies) = Cardinality(before) /\ Cardinality(copies) \in Nat
    BY <1>1, <2>3, <2>4, TwinsAsMany, InOrderFacts
  <2>6. /\ Cardinality(before) <= Cardinality(In(from))
        /\ Cardinality(copies) <= Cardinality(In(c))
    BY <1>1, <2>3, OrderedFinite, FS_Subset
  <2>7. \A m \in In(from) \cup In(c) : m \in DOMAIN message /\ message[m].time \in Nat /\ message[m].copy \in BOOLEAN
    BY <1>1, RowFacts DEF In
  <2>8. ASSUME NEW m \in before PROVE Rank(In(from), m) = Rank(before, m)
    <3>1. ASSUME NEW n \in In(from), message[n].time <= message[m].time PROVE n \in before
      <4>1. message[m].time <= point /\ message[n].time \in Nat /\ message[m].time \in Nat
        BY <1>2, <2>1, <2>3, <2>7 DEF UpTo
      <4>2. message[n].time <= point
        BY <2>2, <3>1, <4>1
      <4>. QED
        BY <1>2, <2>1, <4>2 DEF UpTo
    <3>. QED
      BY <2>3, <3>1, OldestRank
  <2>9. ASSUME NEW n \in copies PROVE Rank(In(c), n) = Rank(copies, n)
    <3>1. ASSUME NEW m \in In(c), message[m].time <= message[n].time PROVE m \in copies
      <4>1. m \in DOMAIN message /\ n \in DOMAIN message /\ message[n].copy
            /\ message[m].conversation = c /\ message[n].conversation = c
        BY <1>2 DEF In
      <4>2. message[n].time \in Nat /\ message[m].time \in Nat
        BY <2>3, <2>7
      <4>3. ~message[m].copy => message[n].time < message[m].time
        BY <1>1, <4>1 DEF MessagesSound
      <4>. QED
        BY <1>2, <3>1, <4>2, <4>3
    <3>. QED
      BY <2>3, <3>1, OldestRank
  <2>10. ASSUME NEW m \in before, NEW n \in copies, Twins(m, n)
         PROVE  Rank(before, m) = Rank(copies, n)
    <3>1. PICK t : t = message[m].time /\ t = message[n].time
      BY <2>10 DEF Twins
    <3>2. PICK left, right : /\ left = {x \in before : message[x].time <= t}
                             /\ right = {x \in copies : message[x].time <= t}
      OBVIOUS
    <3>3. Ordered(left) /\ Ordered(right)
      BY <2>3, <3>2 DEF Ordered
    <3>4. \A x \in left : \E y \in right : Twins(x, y)
      BY <2>4, <3>2 DEF Twins
    <3>5. \A y \in right : \E x \in left : Twins(x, y)
      BY <2>4, <3>2 DEF Twins
    <3>6. Cardinality(left) = Cardinality(right)
      BY <1>1, <3>3, <3>4, <3>5, TwinsAsMany
    <3>. QED
      BY <3>1, <3>2, <3>6 DEF Rank
  <2>11. ASSUME NEW i \in 1 .. Cardinality(copies)
         PROVE  message[InOrder(In(from))[i]].origin = message[InOrder(In(c))[i]].origin
    <3>1. PICK m \in before : Rank(before, m) = i
      BY <1>1, <2>3, <2>5, InOrderFacts
    <3>2. PICK n \in copies : Twins(m, n)
      BY <2>4
    <3>3. Rank(In(from), m) = i /\ Rank(In(c), n) = i
      BY <2>8, <2>9, <2>10, <3>1, <3>2
    <3>4. InOrder(In(from))[i] = m /\ InOrder(In(c))[i] = n
      <4>1. InOrder(In(from))[Rank(In(from), m)] = m
        BY <1>1, <2>3, InOrderFacts
      <4>2. InOrder(In(c))[Rank(In(c), n)] = n
        BY <1>1, <2>3, InOrderFacts
      <4>. QED
        BY <3>3, <4>1, <4>2
    <3>. QED
      BY <3>2, <3>4 DEF Twins
  <2>12. Shared(from, c) >= Cardinality(copies)
    BY <1>1, <2>3, <2>5, <2>6, <2>11, SharedFacts
  <2>. QED
    BY <2>5, <2>12
<1>3. ASSUME NEW c \in DOMAIN conversation, conversation[c].parent # None
      PROVE  LET from == conversation[c].parent
                 before == UpTo(from, message[conversation[c].point].time)
                 copies == {m \in In(c) : message[m].copy}
             IN  (\A m \in before : m <= conversation[c].upto) =>
                   /\ Cardinality(copies) = Cardinality(before)
                   /\ Shared(from, c) >= Cardinality(copies)
  BY <1>2, <1>3
<1>. QED
  BY <1>3, Zenon DEF BranchIsPrefix

\* BranchIsPrefix holds: as long as nothing came late in the original, a branch
\* has as many copies as there were messages up to its point, and compare()
\* finds them all in common.
THEOREM PrefixHolds == Spec => []BranchIsPrefix
BY BranchesArePrefixes, ConversationsHold, PTL

-----------------------------------------------------------------------------
(* Sums over a set.  MapThenSumSet is a recursive function on the subsets: a  *)
(* function is shown to satisfy its recursion, and any other that does to be  *)
(* equal to it, with a smallest set where they differ.                        *)

\* The element a sum takes next, and the things counted by the elements of s.
Some(s) == CHOOSE x \in s : TRUE
Counted(W, s) == UNION {W[d] : d \in s}

\* Each element counts its own things, which are finitely many, as v tells.
Counts(v, W, B, U) ==
  /\ IsFiniteSet(B) /\ IsFiniteSet(U)
  /\ \A d \in B : W[d] \subseteq U /\ v[d] = Cardinality(W[d])
  /\ \A d, e \in B : d # e => W[d] \cap W[e] = {}

\* The element a sum takes next is one of the set.
LEMMA SomeFacts ==
  ASSUME NEW s, s # {}
  PROVE  Some(s) \in s
BY DEF Some

\* One element more counts its things more.
LEMMA CountedStep ==
  ASSUME NEW v, NEW W, NEW B, NEW U, Counts(v, W, B, U), NEW s \in SUBSET B, NEW x \in s
  PROVE  /\ Cardinality(Counted(W, s)) = v[x] + Cardinality(Counted(W, s \ {x}))
         /\ v[x] \in Nat /\ Cardinality(Counted(W, s \ {x})) \in Nat
<1>. DEFINE rest == Counted(W, s \ {x})
<1>1. W[x] \subseteq U /\ rest \subseteq U /\ v[x] = Cardinality(W[x])
  BY DEF Counted, Counts
<1>2. IsFiniteSet(W[x]) /\ IsFiniteSet(rest)
  BY <1>1, FS_Subset DEF Counts
<1>3. Counted(W, s) = W[x] \cup rest
  BY DEF Counted
<1>4. W[x] \cap rest = {}
  BY DEF Counted, Counts
<1>5. /\ Cardinality(W[x]) \in Nat /\ Cardinality(rest) \in Nat
      /\ Cardinality(W[x] \cup rest) = Cardinality(W[x]) + Cardinality(rest) - Cardinality(W[x] \cap rest)
  BY <1>2, FS_CardinalityType, FS_Union
<1>. HIDE DEF rest
<1>6. Cardinality(W[x] \cap rest) = 0
  BY <1>4, FS_EmptySet
<1>. QED
  BY <1>1, <1>3, <1>5, <1>6 DEF rest

\* A sum that takes one element after the other counts all their things.
Adds(g, v, B) ==
  g = [s \in SUBSET B |-> IF s = {} THEN 0 ELSE v[Some(s)] + g[s \ {Some(s)}]]

\* It is the number of the things counted: no set of elements is a smallest one
\* for which it is not.
LEMMA SumCounts ==
  ASSUME NEW v, NEW W, NEW B, NEW U, Counts(v, W, B, U), NEW g, Adds(g, v, B)
  PROVE  g[B] = Cardinality(Counted(W, B))
<1>. DEFINE Wrong == {s \in SUBSET B : g[s] # Cardinality(Counted(W, s))}
            Sizes == {n \in Nat : \E s \in Wrong : Cardinality(s) = n}
<1>1. ASSUME NEW s \in SUBSET B PROVE IsFiniteSet(s) /\ Cardinality(s) \in Nat
  BY FS_Subset, FS_CardinalityType DEF Counts
<1>2. SUFFICES ASSUME Wrong # {} PROVE FALSE
  BY <1>2
<1>3. Sizes # {}
  BY <1>1, <1>2
<1>4. PICK n \in Sizes : \A m \in Sizes : n <= m
  <2>. HIDE DEF Sizes, Wrong
  <2>1. Sizes \in SUBSET Nat
    BY DEF Sizes
  <2>. QED
    BY <1>3, <2>1, LeastNumber
<1>5. PICK s \in Wrong : Cardinality(s) = n
  BY <1>4
<1>6. g[s] = IF s = {} THEN 0 ELSE v[Some(s)] + g[s \ {Some(s)}]
  BY <1>5 DEF Adds
<1>7. CASE s = {}
  <2>1. Counted(W, {}) = {}
    BY DEF Counted
  <2>. QED
    BY <1>5, <1>6, <1>7, <2>1, FS_EmptySet
<1>8. CASE s # {}
  <2>. DEFINE x == Some(s)
              rest == s \ {x}
  <2>1. x \in s
    BY <1>8, SomeFacts
  <2>2. rest \in SUBSET B /\ Cardinality(rest) = n - 1 /\ n \in Nat /\ Cardinality(rest) \in Nat
    BY <1>1, <1>5, <2>1, FS_RemoveElement
  <2>3. rest \notin Wrong
    <3>1. Cardinality(rest) \notin Sizes
      <4>. HIDE DEF Sizes, rest
      <4>. QED
        BY <1>4, <2>2
    <3>. QED
      BY <2>2, <3>1
  <2>4. g[rest] = Cardinality(Counted(W, rest))
    BY <2>2, <2>3
  <2>5. g[s] = v[x] + g[rest]
    BY <1>6, <1>8
  <2>6. Cardinality(Counted(W, s)) = v[x] + Cardinality(Counted(W, rest))
    BY <1>5, <2>1, CountedStep
  <2>. QED
    BY <1>5, <2>4, <2>5, <2>6
<1>. QED
  BY <1>7, <1>8

\* There is such a sum.
LEMMA SumExists ==
  ASSUME NEW v, NEW W, NEW B, NEW U, Counts(v, W, B, U)
  PROVE  Adds([s \in SUBSET B |-> Cardinality(Counted(W, s))], v, B)
<1>. DEFINE h == [s \in SUBSET B |-> Cardinality(Counted(W, s))]
<1>1. ASSUME NEW s \in SUBSET B
      PROVE  h[s] = IF s = {} THEN 0 ELSE v[Some(s)] + h[s \ {Some(s)}]
  <2>1. CASE s = {}
    <3>1. Counted(W, {}) = {}
      BY DEF Counted
    <3>. QED
      BY <2>1, <3>1, FS_EmptySet
  <2>2. CASE s # {}
    <3>1. Some(s) \in s /\ s \ {Some(s)} \in SUBSET B
      BY <2>2, SomeFacts
    <3>2. Cardinality(Counted(W, s)) = v[Some(s)] + Cardinality(Counted(W, s \ {Some(s)}))
      BY <3>1, CountedStep
    <3>. QED
      BY <2>2, <3>1, <3>2
  <2>. QED
    BY <2>1, <2>2
<1>2. h = [s \in SUBSET B |-> h[s]]
  OBVIOUS
<1>. HIDE DEF h
<1>3. h = [s \in SUBSET B |-> IF s = {} THEN 0 ELSE v[Some(s)] + h[s \ {Some(s)}]]
  BY <1>1, <1>2, Zenon
<1>. QED
  BY <1>3 DEF Adds, h

\* What MapThenSumSet gives for a function.
SumOver(f, B) == MapThenSumSet(LAMBDA d : f[d], B)

LEMMA SumOfFunction ==
  ASSUME NEW f, NEW W, NEW B, NEW U, Counts([d \in B |-> f[d]], W, B, U)
  PROVE  SumOver(f, B) = Cardinality(Counted(W, B))
<1>. DEFINE v == [d \in B |-> f[d]]
            Is(g) == g = [s \in SUBSET B |-> IF s = {} THEN 0
                             ELSE f[CHOOSE x \in s : TRUE] + g[s \ {CHOOSE x \in s : TRUE}]]
<1>1. SumOver(f, B) = (CHOOSE g : Is(g))[B]
  BY Zenon DEF SumOver, MapThenSumSet, MapThenFoldSet
<1>2. ASSUME NEW g PROVE Is(g) <=> Adds(g, v, B)
  <2>1. \A s \in SUBSET B : s # {} => v[Some(s)] = f[Some(s)]
    BY SomeFacts
  <2>. HIDE DEF v
  <2>. QED
    BY <2>1 DEF Adds, Some
<1>3. \E g : Is(g)
  <2>. HIDE DEF v, Is
  <2>. QED
    BY <1>2, SumExists, Zenon DEF v
<1>4. Is(CHOOSE g : Is(g))
  <2>. HIDE DEF Is
  <2>. QED
    BY <1>3, Zenon
<1>. QED
  <2>. HIDE DEF v, Is
  <2>. QED
    BY <1>1, <1>2, <1>4, SumCounts, Zenon DEF v

-----------------------------------------------------------------------------
(* Walking up and down a family *)

\* The tables are well formed, and a branch comes after its parent.
Grown ==
  /\ TablesOK
  /\ \A c \in DOMAIN conversation : conversation[c].parent < c

\* c is n branches below a.
Steps(n, a, c) ==
  \E p \in [0 .. n -> Nat] :
    p[0] = a /\ p[n] = c /\ \A i \in 0 .. n - 1 : p[i + 1] \in Branches(p[i])

\* A branch has a later number than its parent, which is in the table.
LEMMA ParentFacts ==
  ASSUME Grown
  PROVE  /\ Len(conversation) \in Nat /\ DOMAIN conversation = 1 .. Len(conversation)
         /\ \A c \in DOMAIN conversation :
              /\ c \in Nat /\ c > 0 /\ c <= Len(conversation)
              /\ conversation[c].parent \in Nat /\ conversation[c].parent < c
              /\ conversation[c].parent # None => conversation[c].parent \in DOMAIN conversation
         /\ \A c \in Nat : \A d \in Branches(c) : d \in DOMAIN conversation /\ d > c /\ d \in Nat
<1>1. /\ Len(conversation) \in Nat /\ DOMAIN conversation = 1 .. Len(conversation)
      /\ \A c \in DOMAIN conversation : conversation[c].parent \in Nat /\ conversation[c].parent < c
  BY RowFacts DEF Grown
<1>2. \A c \in Nat : \A d \in Branches(c) : d \in DOMAIN conversation /\ d > c /\ d \in Nat
  BY <1>1 DEF Branches
<1>. QED
  BY <1>1, <1>2 DEF None

\* No branch below a conversation is the conversation itself.
LEMMA NoSteps ==
  ASSUME NEW a \in Nat, NEW c
  PROVE  Steps(0, a, c) <=> c = a
<1>1. ASSUME c = a PROVE Steps(0, a, c)
  <2>. DEFINE p == [i \in 0 .. 0 |-> a]
  <2>1. p \in [0 .. 0 -> Nat] /\ p[0] = a /\ \A i \in 0 .. 0 - 1 : p[i + 1] \in Branches(p[i])
    OBVIOUS
  <2>. HIDE DEF p
  <2>. QED
    BY <1>1, <2>1 DEF Steps
<1>2. ASSUME Steps(0, a, c) PROVE c = a
  BY <1>2 DEF Steps
<1>. QED
  BY <1>1, <1>2

\* The first step down goes to a branch.
LEMMA FirstStep ==
  ASSUME Grown, NEW n \in Nat, NEW a \in Nat, NEW c
  PROVE  Steps(n + 1, a, c) <=> \E d \in Branches(a) : Steps(n, d, c)
<1>1. ASSUME Steps(n + 1, a, c) PROVE \E d \in Branches(a) : Steps(n, d, c)
  <2>1. PICK p \in [0 .. n + 1 -> Nat] :
          p[0] = a /\ p[n + 1] = c /\ \A i \in 0 .. n : p[i + 1] \in Branches(p[i])
    BY <1>1 DEF Steps
  <2>. DEFINE q == [i \in 0 .. n |-> p[i + 1]]
  <2>2. q \in [0 .. n -> Nat] /\ q[0] = p[1] /\ q[n] = c
    BY <2>1
  <2>3. \A i \in 0 .. n - 1 : q[i + 1] \in Branches(q[i])
    <3>1. ASSUME NEW i \in 0 .. n - 1 PROVE q[i + 1] = p[i + 2] /\ q[i] = p[i + 1] /\ i + 1 \in 0 .. n
      OBVIOUS
    <3>. QED
      BY <2>1, <3>1
  <2>4. p[1] \in Branches(a)
    BY <2>1
  <2>. HIDE DEF q
  <2>. QED
    BY <2>2, <2>3, <2>4 DEF Steps
<1>2. ASSUME NEW d \in Branches(a), Steps(n, d, c) PROVE Steps(n + 1, a, c)
  <2>1. PICK p \in [0 .. n -> Nat] :
          p[0] = d /\ p[n] = c /\ \A i \in 0 .. n - 1 : p[i + 1] \in Branches(p[i])
    BY <1>2 DEF Steps
  <2>. DEFINE q == [i \in 0 .. n + 1 |-> IF i = 0 THEN a ELSE p[i - 1]]
  <2>2. q \in [0 .. n + 1 -> Nat] /\ q[0] = a /\ q[n + 1] = c
    BY <2>1
  <2>3. \A i \in 0 .. n : q[i + 1] \in Branches(q[i])
    <3>1. ASSUME NEW i \in 0 .. n, i # 0 PROVE q[i + 1] = p[i] /\ q[i] = p[i - 1] /\ i - 1 \in 0 .. n - 1
      BY <3>1
    <3>2. ASSUME NEW i \in 0 .. n, i # 0 PROVE q[i + 1] \in Branches(q[i])
      <4>1. p[(i - 1) + 1] \in Branches(p[i - 1]) /\ (i - 1) + 1 = i
        BY <2>1, <3>1, <3>2
      <4>. HIDE DEF q
      <4>. QED
        BY <3>1, <3>2, <4>1
    <3>3. q[1] = d /\ q[0] = a
      BY <2>1
    <3>. HIDE DEF q
    <3>. QED
      BY <3>2, <3>3
  <2>4. 0 .. (n + 1) - 1 = 0 .. n
    OBVIOUS
  <2>. HIDE DEF q
  <2>. QED
    BY <2>2, <2>3, <2>4, Zenon DEF Steps
<1>. QED
  BY <1>1, <1>2

\* The last one comes from the parent.
LEMMA LastStep ==
  ASSUME Grown, NEW n \in Nat, NEW a \in Nat, NEW c
  PROVE  Steps(n + 1, a, c) <=> c \in DOMAIN conversation /\ Steps(n, a, conversation[c].parent)
<1>1. ASSUME Steps(n + 1, a, c)
      PROVE  c \in DOMAIN conversation /\ Steps(n, a, conversation[c].parent)
  <2>1. PICK p \in [0 .. n + 1 -> Nat] :
          p[0] = a /\ p[n + 1] = c /\ \A i \in 0 .. n : p[i + 1] \in Branches(p[i])
    BY <1>1 DEF Steps
  <2>. DEFINE q == [i \in 0 .. n |-> p[i]]
  <2>2. c \in DOMAIN conversation /\ conversation[c].parent = p[n]
    BY <2>1 DEF Branches
  <2>3. q \in [0 .. n -> Nat] /\ q[0] = a /\ q[n] = p[n]
    BY <2>1
  <2>4. \A i \in 0 .. n - 1 : q[i + 1] \in Branches(q[i])
    <3>1. ASSUME NEW i \in 0 .. n - 1 PROVE q[i + 1] = p[i + 1] /\ q[i] = p[i] /\ i \in 0 .. n
      OBVIOUS
    <3>. QED
      BY <2>1, <3>1
  <2>. HIDE DEF q
  <2>. QED
    BY <2>2, <2>3, <2>4 DEF Steps
<1>2. ASSUME c \in DOMAIN conversation, Steps(n, a, conversation[c].parent)
      PROVE  Steps(n + 1, a, c)
  <2>1. PICK p \in [0 .. n -> Nat] :
          p[0] = a /\ p[n] = conversation[c].parent
          /\ \A i \in 0 .. n - 1 : p[i + 1] \in Branches(p[i])
    BY <1>2 DEF Steps
  <2>2. c \in Nat /\ c \in Branches(p[n])
    BY <1>2, <2>1, ParentFacts DEF Branches
  <2>. DEFINE q == [i \in 0 .. n + 1 |-> IF i = n + 1 THEN c ELSE p[i]]
  <2>3. q \in [0 .. n + 1 -> Nat] /\ q[0] = a /\ q[n + 1] = c
    BY <2>1, <2>2
  <2>4. \A i \in 0 .. n : q[i + 1] \in Branches(q[i])
    <3>1. ASSUME NEW i \in 0 .. n - 1 PROVE q[i + 1] = p[i + 1] /\ q[i] = p[i]
      OBVIOUS
    <3>2. q[n] = p[n]
      OBVIOUS
    <3>3. \A i \in 0 .. n : i \in 0 .. n - 1 \/ i = n
      OBVIOUS
    <3>. HIDE DEF q
    <3>. QED
      BY <2>1, <2>2, <2>3, <3>1, <3>2, <3>3
  <2>5. 0 .. (n + 1) - 1 = 0 .. n
    OBVIOUS
  <2>. HIDE DEF q
  <2>. QED
    BY <2>3, <2>4, <2>5, Zenon DEF Steps
<1>. QED
  BY <1>1, <1>2

\* Every step goes to a later conversation.
LEMMA StepsRise ==
  ASSUME Grown, NEW n \in Nat, NEW a \in Nat, NEW c, Steps(n, a, c)
  PROVE  c \in Nat /\ a + n <= c
<1>. DEFINE Wrong == {m \in Nat : \E d : Steps(m, a, d) /\ ~(d \in Nat /\ a + m <= d)}
<1>1. SUFFICES ASSUME Wrong # {} PROVE FALSE
  BY <1>1
<1>2. PICK m \in Wrong : \A k \in Wrong : m <= k
  BY <1>1, LeastNumber
<1>3. PICK d : Steps(m, a, d) /\ ~(d \in Nat /\ a + m <= d)
  BY <1>2
<1>4. m # 0
  BY <1>3, NoSteps
<1>5. m - 1 \in Nat /\ (m - 1) + 1 = m
  BY <1>2, <1>4
<1>6. d \in DOMAIN conversation /\ Steps(m - 1, a, conversation[d].parent)
  BY <1>3, <1>5, LastStep
<1>7. m - 1 \notin Wrong
  BY <1>2, <1>5
<1>8. a + (m - 1) <= conversation[d].parent
  BY <1>5, <1>6, <1>7
<1>. QED
  BY <1>3, <1>5, <1>6, <1>8, ParentFacts

\* What is at most n branches below c, c included.
Under(n, c) == {d \in Nat : \E m \in 0 .. n : Steps(m, c, d)}

\* One more branch down is one more branch below each branch.
LEMMA UnderStep ==
  ASSUME Grown, NEW n \in Nat, NEW c \in Nat
  PROVE  Under(n, c) = {c} \cup IF n = 0 THEN {} ELSE UNION {Under(n - 1, d) : d \in Branches(c)}
<1>1. CASE n = 0
  BY <1>1, NoSteps DEF Under
<1>2. CASE n # 0
  <2>1. ASSUME NEW x \in Under(n, c), x # c
        PROVE  \E d \in Branches(c) : x \in Under(n - 1, d)
    <3>1. PICK m \in 0 .. n : Steps(m, c, x)
      BY DEF Under
    <3>2. m # 0
      BY <2>1, <3>1, NoSteps
    <3>3. m - 1 \in 0 .. n - 1 /\ (m - 1) + 1 = m /\ m - 1 \in Nat
      BY <3>2
    <3>4. \E d \in Branches(c) : Steps(m - 1, d, x)
      BY <3>1, <3>3, FirstStep
    <3>. QED
      BY <3>3, <3>4 DEF Under
  <2>2. ASSUME NEW d \in Branches(c), NEW x \in Under(n - 1, d) PROVE x \in Under(n, c)
    <3>1. PICK m \in 0 .. n - 1 : Steps(m, d, x)
      BY DEF Under
    <3>2. Steps(m + 1, c, x) /\ m + 1 \in 0 .. n
      BY <1>2, <3>1, FirstStep
    <3>. QED
      BY <3>2 DEF Under
  <2>3. c \in Under(n, c)
    <3>1. Steps(0, c, c) /\ 0 \in 0 .. n
      BY NoSteps
    <3>. QED
      BY <3>1 DEF Under
  <2>. QED
    BY <1>2, <2>1, <2>2, <2>3
<1>. QED
  BY <1>1, <1>2

\* Collecting down gives just that.
LEMMA DescentFacts ==
  ASSUME Grown
  PROVE  \A n \in Nat, c \in DOMAIN conversation : Descent[n][c] = Under(n, c)
<1>. DEFINE Collected(g, n, c) ==
              {c} \cup IF n = 0 THEN {} ELSE UNION {g[n - 1][d] : d \in Branches(c)}
            Is(g) == g = [n \in Nat |-> [c \in DOMAIN conversation |-> Collected(g, n, c)]]
            D == [n \in Nat |-> [c \in DOMAIN conversation |-> Under(n, c)]]
<1>1. ASSUME NEW g, NEW n \in Nat, NEW c \in DOMAIN conversation,
             n # 0 => \A d \in Branches(c) : g[n - 1][d] = Under(n - 1, d)
      PROVE  Collected(g, n, c) = Under(n, c)
  <2>1. c \in Nat
    BY ParentFacts
  <2>2. CASE n = 0
    BY <2>1, <2>2, UnderStep
  <2>3. CASE n # 0
    <3>1. UNION {g[n - 1][d] : d \in Branches(c)} = UNION {Under(n - 1, d) : d \in Branches(c)}
      BY <1>1, <2>3
    <3>. QED
      BY <2>1, <2>3, <3>1, UnderStep
  <2>. QED
    BY <2>2, <2>3
<1>2. Is(D)
  <2>1. ASSUME NEW n \in Nat, NEW c \in DOMAIN conversation PROVE Collected(D, n, c) = Under(n, c)
    <3>1. n # 0 => \A d \in Branches(c) : D[n - 1][d] = Under(n - 1, d)
      BY ParentFacts
    <3>. HIDE DEF Collected, D
    <3>. QED
      BY <1>1, <3>1
  <2>. HIDE DEF Collected
  <2>. QED
    BY <2>1, Zenon
<1>3. Descent = CHOOSE g : Is(g)
  BY Zenon DEF Descent
<1>4. Is(Descent)
  <2>. HIDE DEF Is, D
  <2>. QED
    BY <1>2, <1>3, Zenon
<1>5. ASSUME NEW n \in Nat, NEW c \in DOMAIN conversation
      PROVE  Descent[n][c] = Collected(Descent, n, c)
  <2>. HIDE DEF Collected
  <2>1. PICK g : g = Descent
    OBVIOUS
  <2>2. g = [m \in Nat |-> [d \in DOMAIN conversation |-> Collected(g, m, d)]]
    BY <1>4, <2>1, Zenon
  <2>. HIDE DEF Is, D
  <2>3. g[n][c] = Collected(g, n, c)
    BY <2>2
  <2>. QED
    BY <2>1, <2>3
<1>. DEFINE Wrong == {n \in Nat : \E c \in DOMAIN conversation : Descent[n][c] # Under(n, c)}
<1>. HIDE DEF Is, D, Collected
<1>6. SUFFICES ASSUME Wrong # {} PROVE FALSE
  BY <1>6
<1>7. PICK n \in Wrong : \A m \in Wrong : n <= m
  BY <1>6, LeastNumber
<1>8. PICK c \in DOMAIN conversation : Descent[n][c] # Under(n, c)
  BY <1>7
<1>9. n \in Nat /\ (n # 0 => n - 1 \in Nat /\ n - 1 \notin Wrong)
  BY <1>7
<1>10. n # 0 => \A d \in Branches(c) : Descent[n - 1][d] = Under(n - 1, d)
  <2>1. \A d \in Branches(c) : d \in DOMAIN conversation
    BY ParentFacts
  <2>. QED
    BY <1>9, <2>1
<1>. HIDE DEF Wrong
<1>. QED
  BY <1>1, <1>5, <1>8, <1>9, <1>10

\* What is at most n branches above c, and the oldest of it.
Over(n, c) == {a \in Nat \ {0} : \E m \in 0 .. n : Steps(m, a, c)}
Top(n, c) == CHOOSE a \in Over(n, c) : \A b \in Over(n, c) : a <= b

\* A conversation is above itself, and nothing above it is later.
LEMMA OverFacts ==
  ASSUME Grown, NEW n \in Nat, NEW c \in DOMAIN conversation
  PROVE  /\ c \in Over(n, c) /\ \A a \in Over(n, c) : a \in Nat /\ a <= c
         /\ Over(n, c) \in SUBSET Nat
<1>1. Steps(0, c, c) /\ 0 \in 0 .. n /\ c \in Nat \ {0}
  BY NoSteps, ParentFacts
<1>2. ASSUME NEW a \in Over(n, c) PROVE a \in Nat /\ a <= c
  <2>1. PICK m \in 0 .. n : Steps(m, a, c)
    BY DEF Over
  <2>2. a \in Nat /\ c \in Nat
    BY <1>1 DEF Over
  <2>3. a + m <= c
    BY <2>1, <2>2, StepsRise
  <2>. QED
    BY <2>2, <2>3
<1>. QED
  BY <1>1, <1>2 DEF Over

\* The oldest one above a conversation exists ...
LEMMA TopFacts ==
  ASSUME Grown, NEW n \in Nat, NEW c \in DOMAIN conversation
  PROVE  Top(n, c) \in Over(n, c) /\ \A b \in Over(n, c) : Top(n, c) <= b
<1>1. \E a \in Over(n, c) : \A b \in Over(n, c) : a <= b
  BY OverFacts, LeastNumber
<1>. QED
  BY <1>1, Zenon DEF Top

\* ... and is the only one of its kind.
LEMMA TopIs ==
  ASSUME Grown, NEW n \in Nat, NEW c \in DOMAIN conversation,
         NEW a \in Over(n, c), \A b \in Over(n, c) : a <= b
  PROVE  Top(n, c) = a
BY TopFacts, OverFacts

\* One more branch up goes through the parent.
LEMMA TopStep ==
  ASSUME Grown, NEW n \in Nat, NEW c \in DOMAIN conversation
  PROVE  Top(n, c) = IF n = 0 \/ conversation[c].parent = None THEN c
                     ELSE Top(n - 1, conversation[c].parent)
<1>. DEFINE p == conversation[c].parent
<1>0. p \in Nat /\ p < c /\ c \in Nat /\ (p # 0 => p \in DOMAIN conversation)
  BY ParentFacts DEF None
<1>1. ASSUME NEW a \in Over(n, c), a # c
      PROVE  p # 0 /\ n # 0 /\ a \in Over(n - 1, p)
  <2>1. PICK m \in 0 .. n : Steps(m, a, c)
    BY DEF Over
  <2>2. a \in Nat /\ a > 0
    BY DEF Over
  <2>3. m # 0
    BY <1>1, <2>1, <2>2, NoSteps
  <2>4. m - 1 \in Nat /\ (m - 1) + 1 = m /\ m - 1 \in 0 .. n - 1 /\ n # 0
    BY <2>3
  <2>5. Steps(m - 1, a, p)
    BY <2>1, <2>2, <2>4, LastStep
  <2>6. a + (m - 1) <= p
    BY <2>2, <2>4, <2>5, StepsRise
  <2>7. p # 0
    BY <1>0, <2>2, <2>4, <2>6
  <2>. QED
    BY <2>2, <2>4, <2>5, <2>7 DEF Over
<1>2. CASE n = 0 \/ p = None
  <2>1. \A b \in Over(n, c) : c <= b
    BY <1>0, <1>1, <1>2 DEF None
  <2>. QED
    BY <1>2, <2>1, OverFacts, TopIs
<1>3. CASE ~(n = 0 \/ p = None)
  <2>. DEFINE a == Top(n - 1, p)
  <2>1. p \in DOMAIN conversation /\ n - 1 \in Nat
    BY <1>0, <1>3 DEF None
  <2>2. a \in Over(n - 1, p) /\ \A b \in Over(n - 1, p) : a <= b
    BY <2>1, TopFacts
  <2>3. a \in Nat /\ a <= p
    BY <2>1, <2>2, OverFacts
  <2>. HIDE DEF a
  <2>4. a \in Over(n, c)
    <3>1. PICK m \in 0 .. n - 1 : Steps(m, a, p)
      BY <2>2 DEF Over
    <3>2. Steps(m + 1, a, c) /\ m + 1 \in 0 .. n
      BY <1>3, <2>3, <3>1, LastStep
    <3>. QED
      BY <2>2, <3>2 DEF Over
  <2>5. \A b \in Over(n, c) : a <= b
    BY <1>0, <1>1, <2>2, <2>3
  <2>6. Top(n, c) = a
    BY <2>4, <2>5, TopIs
  <2>. QED
    BY <1>3, <2>6 DEF a
<1>. QED
  BY <1>2, <1>3

\* Walking up gives just that.
LEMMA AboveFacts ==
  ASSUME Grown
  PROVE  \A n \in Nat, c \in DOMAIN conversation : Above[n][c] = Top(n, c)
<1>. DEFINE Climbed(g, n, c) ==
              IF n = 0 \/ conversation[c].parent = None THEN c ELSE g[n - 1][conversation[c].parent]
            Is(g) == g = [n \in Nat |-> [c \in DOMAIN conversation |-> Climbed(g, n, c)]]
            A == [n \in Nat |-> [c \in DOMAIN conversation |-> Top(n, c)]]
<1>1. ASSUME NEW g, NEW n \in Nat, NEW c \in DOMAIN conversation,
             n # 0 => \A d \in DOMAIN conversation : g[n - 1][d] = Top(n - 1, d)
      PROVE  Climbed(g, n, c) = Top(n, c)
  BY <1>1, TopStep, ParentFacts
<1>2. Is(A)
  <2>1. ASSUME NEW n \in Nat, NEW c \in DOMAIN conversation PROVE Climbed(A, n, c) = Top(n, c)
    <3>1. n # 0 => \A d \in DOMAIN conversation : A[n - 1][d] = Top(n - 1, d)
      OBVIOUS
    <3>. HIDE DEF Climbed, A
    <3>. QED
      BY <1>1, <3>1
  <2>. HIDE DEF Climbed
  <2>. QED
    BY <2>1, Zenon
<1>3. Above = CHOOSE g : Is(g)
  BY Zenon DEF Above
<1>4. Is(Above)
  <2>. HIDE DEF Is, A
  <2>. QED
    BY <1>2, <1>3, Zenon
<1>5. ASSUME NEW n \in Nat, NEW c \in DOMAIN conversation
      PROVE  Above[n][c] = Climbed(Above, n, c)
  <2>. HIDE DEF Climbed
  <2>1. PICK g : g = Above
    OBVIOUS
  <2>2. g = [m \in Nat |-> [d \in DOMAIN conversation |-> Climbed(g, m, d)]]
    BY <1>4, <2>1, Zenon
  <2>. HIDE DEF Is, A
  <2>3. g[n][c] = Climbed(g, n, c)
    BY <2>2
  <2>. QED
    BY <2>1, <2>3
<1>. DEFINE Wrong == {n \in Nat : \E c \in DOMAIN conversation : Above[n][c] # Top(n, c)}
<1>. HIDE DEF Is, A, Climbed
<1>6. SUFFICES ASSUME Wrong # {} PROVE FALSE
  BY <1>6
<1>7. PICK n \in Wrong : \A m \in Wrong : n <= m
  BY <1>6, LeastNumber
<1>8. PICK c \in DOMAIN conversation : Above[n][c] # Top(n, c)
  BY <1>7
<1>9. n \in Nat /\ (n # 0 => n - 1 \in Nat /\ n - 1 \notin Wrong)
  BY <1>7
<1>10. n # 0 => \A d \in DOMAIN conversation : Above[n - 1][d] = Top(n - 1, d)
  BY <1>9
<1>. HIDE DEF Wrong
<1>. QED
  BY <1>1, <1>5, <1>8, <1>9, <1>10

\* No conversation is below two branches of one conversation.
LEMMA OneLine ==
  ASSUME Grown, NEW c \in Nat, NEW d \in Branches(c), NEW e \in Branches(c), d # e,
         NEW n \in Nat, NEW k \in Nat, NEW x, Steps(n, d, x), Steps(k, e, x)
  PROVE  FALSE
<1>. DEFINE Wrong == {m \in Nat : \E i \in Nat : \E y : Steps(m, d, y) /\ Steps(i, e, y)}
<1>1. n \in Wrong
  OBVIOUS
<1>2. PICK m \in Wrong : \A j \in Wrong : m <= j
  BY <1>1, LeastNumber
<1>2a. PICK i \in Nat : \E y : Steps(m, d, y) /\ Steps(i, e, y)
  BY <1>2
<1>3. PICK y : Steps(m, d, y) /\ Steps(i, e, y)
  BY <1>2a
<1>4. /\ m \in Nat /\ d \in Nat /\ e \in Nat /\ d > c /\ e > c
      /\ conversation[d].parent = c /\ conversation[e].parent = c
  BY ParentFacts DEF Branches
<1>5. m # 0 /\ i # 0
  <2>1. CASE m = 0 /\ i = 0
    BY <1>3, <1>4, <2>1, NoSteps
  <2>2. CASE m = 0 /\ i # 0
    <3>1. y = d
      BY <1>3, <1>4, <2>2, NoSteps
    <3>2. i - 1 \in Nat /\ (i - 1) + 1 = i
      BY <2>2
    <3>3. Steps(i - 1, e, c)
      BY <1>3, <1>4, <3>1, <3>2, LastStep
    <3>4. e + (i - 1) <= c
      BY <1>4, <3>2, <3>3, StepsRise
    <3>. QED
      BY <1>4, <3>2, <3>4
  <2>3. CASE m # 0 /\ i = 0
    <3>1. y = e
      BY <1>3, <1>4, <2>3, NoSteps
    <3>2. m - 1 \in Nat /\ (m - 1) + 1 = m
      BY <1>4, <2>3
    <3>3. Steps(m - 1, d, c)
      BY <1>3, <1>4, <3>1, <3>2, LastStep
    <3>4. d + (m - 1) <= c
      BY <1>4, <3>2, <3>3, StepsRise
    <3>. QED
      BY <1>4, <3>2, <3>4
  <2>. QED
    BY <2>1, <2>2, <2>3
<1>6. /\ m - 1 \in Nat /\ (m - 1) + 1 = m
      /\ i - 1 \in Nat /\ (i - 1) + 1 = i
  BY <1>4, <1>5
<1>7. Steps(m - 1, d, conversation[y].parent) /\ Steps(i - 1, e, conversation[y].parent)
  BY <1>3, <1>4, <1>6, LastStep
<1>8. m - 1 \in Wrong
  BY <1>6, <1>7
<1>. QED
  BY <1>2, <1>6, <1>8

\* Below a root nothing has another ancestor before it.
LEMMA RootIsFirst ==
  ASSUME Grown, NEW c \in DOMAIN conversation, conversation[c].parent = None,
         NEW d, NEW n \in Nat, Steps(n, c, d), NEW b \in Nat, b > 0, NEW k \in Nat, Steps(k, b, d)
  PROVE  c <= b
<1>. DEFINE Wrong == {m \in Nat : \E i \in Nat : \E y : Steps(m, c, y) /\ Steps(i, b, y)}
<1>0. c \in Nat
  BY ParentFacts
<1>1. SUFFICES ASSUME b < c PROVE FALSE
  BY <1>0
<1>2. n \in Wrong
  OBVIOUS
<1>3. PICK m \in Wrong : \A j \in Wrong : m <= j
  BY <1>2, LeastNumber
<1>3a. PICK i \in Nat : \E y : Steps(m, c, y) /\ Steps(i, b, y)
  BY <1>3
<1>4. PICK y : Steps(m, c, y) /\ Steps(i, b, y)
  BY <1>3a
<1>5. m \in Nat /\ y \in Nat /\ c + m <= y /\ b + i <= y
  BY <1>0, <1>3, <1>4, StepsRise
<1>6. i # 0
  <2>1. i = 0 => y = b
    BY <1>4, NoSteps
  <2>. QED
    BY <1>0, <1>1, <1>5, <2>1
<1>7. i - 1 \in Nat /\ (i - 1) + 1 = i
  BY <1>6
<1>8. Steps(i - 1, b, conversation[y].parent)
  BY <1>4, <1>7, LastStep
<1>9. m # 0
  <2>1. ASSUME m = 0 PROVE FALSE
    <3>1. y = c
      BY <1>0, <1>4, <2>1, NoSteps
    <3>2. b + (i - 1) <= 0
      BY <1>7, <1>8, <3>1, StepsRise DEF None
    <3>. QED
      BY <1>7, <3>2
  <2>. QED
    BY <2>1
<1>10. m - 1 \in Nat /\ (m - 1) + 1 = m
  BY <1>5, <1>9
<1>11. Steps(m - 1, c, conversation[y].parent)
  BY <1>0, <1>4, <1>10, LastStep
<1>12. m - 1 \in Wrong
  BY <1>7, <1>8, <1>10, <1>11
<1>. QED
  BY <1>3, <1>10, <1>12

\* Everything below c: c itself, and everything below its branches.
Below(c) == Under(Len(conversation), c)

\* What is below the branches is below c, apart from c and from what is below
\* another branch.
LEMMA BelowFacts ==
  ASSUME Grown, NEW c \in DOMAIN conversation
  PROVE  /\ Below(c) \subseteq DOMAIN conversation /\ c \in Below(c)
         /\ Below(c) = {c} \cup UNION {Below(d) : d \in Branches(c)}
         /\ \A d \in Branches(c) : c \notin Below(d)
         /\ \A d, e \in Branches(c) : d # e => Below(d) \cap Below(e) = {}
<1>1. /\ c \in Nat /\ Len(conversation) \in Nat /\ DOMAIN conversation = 1 .. Len(conversation)
      /\ \A d \in Branches(c) : d \in DOMAIN conversation /\ d \in Nat /\ d > c
  BY ParentFacts
<1>2. ASSUME NEW a \in DOMAIN conversation, NEW x \in Below(a)
      PROVE  /\ x \in DOMAIN conversation
             /\ \E m \in Nat : Steps(m, a, x) /\ a + m <= x
  <2>1. PICK m \in 0 .. Len(conversation) : Steps(m, a, x)
    BY DEF Below, Under
  <2>2. a \in Nat /\ a > 0 /\ m \in Nat
    BY <1>1
  <2>3. x \in Nat /\ a + m <= x
    BY <2>1, <2>2, StepsRise
  <2>4. x \in DOMAIN conversation
    <3>1. m = 0 => x = a
      BY <2>1, <2>2, NoSteps
    <3>2. m # 0 => m - 1 \in Nat /\ (m - 1) + 1 = m
      BY <2>2
    <3>3. m # 0 => x \in DOMAIN conversation
      BY <2>1, <2>2, <3>2, LastStep
    <3>. QED
      BY <3>1, <3>3
  <2>. QED
    BY <2>1, <2>2, <2>3, <2>4
<1>3. c \in Below(c)
  <2>1. Steps(0, c, c) /\ 0 \in 0 .. Len(conversation)
    BY <1>1, NoSteps
  <2>. QED
    BY <1>1, <2>1 DEF Below, Under
<1>4. ASSUME NEW x \in Below(c), x # c PROVE \E d \in Branches(c) : x \in Below(d)
  <2>1. PICK m \in 0 .. Len(conversation) : Steps(m, c, x)
    BY DEF Below, Under
  <2>2. m # 0
    BY <1>1, <1>4, <2>1, NoSteps
  <2>3. m - 1 \in 0 .. Len(conversation) /\ (m - 1) + 1 = m /\ m - 1 \in Nat
    BY <2>2
  <2>4. PICK d \in Branches(c) : Steps(m - 1, d, x)
    BY <1>1, <2>1, <2>3, FirstStep
  <2>5. x \in Nat
    BY DEF Below, Under
  <2>. QED
    BY <2>3, <2>4, <2>5 DEF Below, Under
<1>5. ASSUME NEW d \in Branches(c), NEW x \in Below(d) PROVE x \in Below(c)
  <2>1. x \in DOMAIN conversation
    BY <1>1, <1>2
  <2>2. PICK m \in Nat : Steps(m, d, x) /\ d + m <= x
    BY <1>1, <1>2
  <2>3. Steps(m + 1, c, x)
    BY <1>1, <2>2, FirstStep
  <2>4. m + 1 \in 0 .. Len(conversation) /\ x \in Nat
    BY <1>1, <2>1, <2>2
  <2>. QED
    BY <2>3, <2>4 DEF Below, Under
<1>6. ASSUME NEW d \in Branches(c) PROVE c \notin Below(d)
  <2>1. \A x \in Below(d) : d <= x
    BY <1>1, <1>2
  <2>. QED
    BY <1>1, <2>1
<1>7. ASSUME NEW d \in Branches(c), NEW e \in Branches(c), d # e, NEW x \in Below(d), x \in Below(e)
      PROVE  FALSE
  <2>1. PICK m \in Nat : Steps(m, d, x)
    BY <1>1, <1>2
  <2>2. PICK k \in Nat : Steps(k, e, x)
    BY <1>1, <1>2, <1>7
  <2>. QED
    BY <1>1, <1>7, <2>1, <2>2, OneLine
<1>8. Below(c) \subseteq DOMAIN conversation
  BY <1>2
<1>9. Below(c) = {c} \cup UNION {Below(d) : d \in Branches(c)}
  BY <1>3, <1>4, <1>5
<1>. QED
  BY <1>3, <1>6, <1>7, <1>8, <1>9

\* A conversation belongs to the family of its root, and the family of a root
\* to no other root.
LEMMA FamilyFacts ==
  ASSUME Grown, NEW c \in DOMAIN conversation
  PROVE  /\ RootOf(c) \in DOMAIN conversation /\ Family(c) = Below(RootOf(c)) /\ c \in Family(c)
         /\ conversation[c].parent = None =>
              RootOf(c) = c /\ \A d \in Family(c) : RootOf(d) = c
<1>1. Len(conversation) \in Nat /\ DOMAIN conversation = 1 .. Len(conversation)
  BY ParentFacts
<1>2. ASSUME NEW d \in DOMAIN conversation
      PROVE  /\ RootOf(d) \in Over(Len(conversation), d) /\ RootOf(d) \in DOMAIN conversation
             /\ \A b \in Over(Len(conversation), d) : RootOf(d) <= b
  <2>1. RootOf(d) = Top(Len(conversation), d)
    BY <1>1, AboveFacts DEF RootOf
  <2>2. /\ RootOf(d) \in Over(Len(conversation), d)
        /\ \A b \in Over(Len(conversation), d) : RootOf(d) <= b
    BY <1>1, <2>1, TopFacts
  <2>3. RootOf(d) \in Nat /\ RootOf(d) <= d
    BY <1>1, <2>2, OverFacts
  <2>4. RootOf(d) # 0
    BY <2>2 DEF Over
  <2>. QED
    BY <1>1, <2>2, <2>3, <2>4
<1>3. Family(c) = Below(RootOf(c))
  BY <1>1, <1>2, DescentFacts DEF Family, Below
<1>4. c \in Family(c)
  <2>1. RootOf(c) \in Over(Len(conversation), c)
    BY <1>2
  <2>2. \E m \in 0 .. Len(conversation) : Steps(m, RootOf(c), c)
    BY <2>1 DEF Over
  <2>3. c \in Nat
    BY <1>1
  <2>4. c \in Below(RootOf(c))
    BY <2>2, <2>3 DEF Below, Under
  <2>. QED
    BY <1>3, <2>4
<1>5. ASSUME conversation[c].parent = None
      PROVE  RootOf(c) = c /\ \A d \in Family(c) : RootOf(d) = c
  <2>1. RootOf(c) = c
    BY <1>1, <1>5, AboveFacts, TopStep DEF RootOf
  <2>2. ASSUME NEW d \in Family(c) PROVE RootOf(d) = c
    <3>1. d \in DOMAIN conversation
      BY <1>3, <2>1, BelowFacts
    <3>2. PICK n \in 0 .. Len(conversation) : Steps(n, c, d)
      BY <1>3, <2>1 DEF Below, Under
    <3>3. PICK k \in 0 .. Len(conversation) : Steps(k, RootOf(d), d)
      BY <1>2, <3>1 DEF Over
    <3>4. RootOf(d) \in Nat /\ RootOf(d) > 0 /\ c \in Nat /\ c > 0
      BY <1>1, <1>2, <3>1
    <3>5. c <= RootOf(d)
      BY <1>5, <3>2, <3>3, <3>4, RootIsFirst
    <3>6. c \in Over(Len(conversation), d)
      BY <3>2, <3>4 DEF Over
    <3>7. RootOf(d) <= c
      BY <1>2, <3>1, <3>6
    <3>. QED
      BY <3>4, <3>5, <3>7
  <2>. QED
    BY <2>1, <2>2
<1>. QED
  BY <1>2, <1>3, <1>4, <1>5

-----------------------------------------------------------------------------
(* The totals of a family *)

\* A product the provers take as one term.
Product(A, B) == A \X B

\* What a count of c counts, marked with c.
Units(kind, c) ==
  {c} \X (CASE kind = "branches" -> {c}
            [] kind = "commits" -> CommitsOf(c)
            [] kind = "messages" -> In(c)
            [] kind = "participants" -> {u \in Users : Participates(u, c)})
\* Everything a count could count.
Anything == DOMAIN conversation \cup DOMAIN commit \cup DOMAIN message \cup Users
Everything == Product(DOMAIN conversation, Anything)

\* Pairs with a fixed first element are as many as their second elements.
LEMMA Pairs ==
  ASSUME NEW A, NEW B, NEW c \in A
  PROVE  /\ IsFiniteSet(A) /\ IsFiniteSet(B) => IsFiniteSet(Product(A, B))
         /\ \A S \in SUBSET B : {c} \X S \subseteq Product(A, B)
         /\ \A S : IsFiniteSet(S) => Cardinality({c} \X S) = Cardinality(S)
<1>1. IsFiniteSet(A) /\ IsFiniteSet(B) => IsFiniteSet(A \X B)
  BY FS_Product
<1>2. ASSUME NEW S \in SUBSET B PROVE {c} \X S \subseteq A \X B
  OBVIOUS
<1>3. ASSUME NEW S, IsFiniteSet(S) PROVE Cardinality({c} \X S) = Cardinality(S)
  <2>1. Cardinality({c}) = 1 /\ IsFiniteSet({c}) /\ Cardinality(S) \in Nat
    BY <1>3, FS_Singleton, FS_CardinalityType
  <2>2. Cardinality({c} \X S) = Cardinality({c}) * Cardinality(S)
    BY <1>3, <2>1, FS_Product
  <2>. QED
    BY <2>1, <2>2
<1>. QED
  BY <1>1, <1>2, <1>3, Zenon DEF Product

\* Each count of the code counts its units, which are finitely many.
LEMMA CountFacts ==
  ASSUME Grown, NEW kind \in Kinds, NEW c \in DOMAIN conversation
  PROVE  /\ Count(kind, c) = Cardinality(Units(kind, c)) /\ Units(kind, c) \subseteq Everything
         /\ IsFiniteSet(Everything)
<1>1. /\ IsFiniteSet(DOMAIN conversation) /\ IsFiniteSet(DOMAIN commit)
      /\ IsFiniteSet(DOMAIN message) /\ IsFiniteSet(Users)
  BY RowFacts, FS_Interval, ConversationsAssumption DEF Grown
<1>2. IsFiniteSet(Everything)
  <2>1. IsFiniteSet(DOMAIN conversation \cup DOMAIN commit)
    BY <1>1, FS_Union
  <2>2. IsFiniteSet(DOMAIN conversation \cup DOMAIN commit \cup DOMAIN message)
    BY <1>1, <2>1, FS_Union
  <2>3. IsFiniteSet(Anything)
    BY <1>1, <2>2, FS_Union DEF Anything
  <2>. QED
    BY <1>1, <2>3, Pairs DEF Everything
<1>3. ASSUME NEW S, IsFiniteSet(S) PROVE Cardinality({c} \X S) = Cardinality(S)
  BY <1>3, Pairs, Zenon
<1>0. ASSUME NEW S \in SUBSET Anything PROVE {c} \X S \subseteq Everything
  BY Pairs DEF Everything
<1>4. /\ CommitsOf(c) \subseteq DOMAIN commit /\ In(c) \subseteq DOMAIN message
      /\ {u \in Users : Participates(u, c)} \subseteq Users
  BY DEF CommitsOf, In
<1>5. /\ IsFiniteSet(CommitsOf(c)) /\ IsFiniteSet(In(c))
      /\ IsFiniteSet({u \in Users : Participates(u, c)})
  BY <1>1, <1>4, FS_Subset
<1>6. CASE kind = "branches"
  <2>1. Units(kind, c) = {c} \X {c} /\ Count(kind, c) = 1
    BY <1>6 DEF Units, Count
  <2>2. Units(kind, c) \subseteq Everything
    BY <1>0, <2>1 DEF Anything
  <2>3. IsFiniteSet({c}) /\ Cardinality({c}) = 1
    BY FS_Singleton
  <2>4. Cardinality({c} \X {c}) = 1
    BY <1>3, <2>3
  <2>. QED
    BY <1>2, <2>1, <2>2, <2>4
<1>7. CASE kind = "commits"
  <2>1. Units(kind, c) = {c} \X CommitsOf(c) /\ Count(kind, c) = Cardinality(CommitsOf(c))
    BY <1>7 DEF Units, Count
  <2>2. Units(kind, c) \subseteq Everything
    BY <1>0, <1>4, <2>1 DEF Anything
  <2>. QED
    BY <1>2, <1>3, <1>5, <2>1, <2>2
<1>8. CASE kind = "messages"
  <2>1. Units(kind, c) = {c} \X In(c) /\ Count(kind, c) = Cardinality(In(c))
    BY <1>8 DEF Units, Count
  <2>2. Units(kind, c) \subseteq Everything
    BY <1>0, <1>4, <2>1 DEF Anything
  <2>. QED
    BY <1>2, <1>3, <1>5, <2>1, <2>2
<1>9. CASE kind = "participants"
  <2>. DEFINE people == {u \in Users : Participates(u, c)}
  <2>1. Units(kind, c) = {c} \X people /\ Count(kind, c) = Cardinality(people)
    BY <1>9 DEF Units, Count
  <2>2. people \subseteq Users /\ IsFiniteSet(people)
    BY <1>5
  <2>. HIDE DEF people
  <2>3. Units(kind, c) \subseteq Everything
    BY <1>0, <2>1, <2>2 DEF Anything
  <2>. QED
    BY <1>2, <1>3, <2>1, <2>2, <2>3
<1>. QED
  BY <1>6, <1>7, <1>8, <1>9 DEF Kinds

UnitsOf(kind) == [c \in DOMAIN conversation |-> Units(kind, c)]
\* What all conversations below c count.
UnitsBelow(kind) == [c \in DOMAIN conversation |-> Counted(UnitsOf(kind), Below(c))]

\* What is counted below c is its own units and those below each branch, no unit
\* twice.
LEMMA UnitsBelowFacts ==
  ASSUME Grown, NEW kind \in Kinds, NEW c \in DOMAIN conversation
  PROVE  /\ UnitsBelow(kind)[c] \subseteq Everything
         /\ UnitsBelow(kind)[c] = Units(kind, c) \cup Counted(UnitsBelow(kind), Branches(c))
         /\ Units(kind, c) \cap Counted(UnitsBelow(kind), Branches(c)) = {}
         /\ \A d, e \in Branches(c) : d # e => UnitsBelow(kind)[d] \cap UnitsBelow(kind)[e] = {}
<1>1. /\ Below(c) \subseteq DOMAIN conversation
      /\ Below(c) = {c} \cup UNION {Below(d) : d \in Branches(c)}
      /\ \A d \in Branches(c) : c \notin Below(d)
      /\ \A d, e \in Branches(c) : d # e => Below(d) \cap Below(e) = {}
      /\ Branches(c) \subseteq DOMAIN conversation
  BY BelowFacts, ParentFacts
<1>2. \A d \in DOMAIN conversation :
        Below(d) \subseteq DOMAIN conversation /\ Units(kind, d) \subseteq Everything
  BY BelowFacts, CountFacts
<1>3. ASSUME NEW d \in DOMAIN conversation
      PROVE  UnitsBelow(kind)[d] = UNION {Units(kind, x) : x \in Below(d)}
  BY <1>2 DEF UnitsBelow, UnitsOf, Counted
<1>4. \A d \in DOMAIN conversation : \A u \in UnitsBelow(kind)[d] : u[1] \in Below(d)
  <2>1. \A x : \A u \in Units(kind, x) : u[1] = x
    BY DEF Units
  <2>. QED
    BY <1>3, <2>1
<1>5. Counted(UnitsBelow(kind), Branches(c)) = UNION {UNION {Units(kind, x) : x \in Below(d)} : d \in Branches(c)}
  BY <1>1, <1>3 DEF Counted
<1>6. UnitsBelow(kind)[c] \subseteq Everything
  BY <1>1, <1>2, <1>3
<1>7. UnitsBelow(kind)[c] = Units(kind, c) \cup Counted(UnitsBelow(kind), Branches(c))
  <2>1. UNION {Units(kind, x) : x \in {c} \cup UNION {Below(d) : d \in Branches(c)}} =
          Units(kind, c) \cup UNION {UNION {Units(kind, x) : x \in Below(d)} : d \in Branches(c)}
    OBVIOUS
  <2>. QED
    BY <1>1, <1>3, <1>5, <2>1
<1>8. Units(kind, c) \cap Counted(UnitsBelow(kind), Branches(c)) = {}
  <2>1. \A u \in Units(kind, c) : u[1] = c
    BY DEF Units
  <2>2. \A u \in Counted(UnitsBelow(kind), Branches(c)) : \E d \in Branches(c) : u[1] \in Below(d)
    BY <1>1, <1>4 DEF Counted
  <2>. QED
    BY <1>1, <2>1, <2>2
<1>9. ASSUME NEW d \in Branches(c), NEW e \in Branches(c), d # e
      PROVE  UnitsBelow(kind)[d] \cap UnitsBelow(kind)[e] = {}
  BY <1>1, <1>4, <1>9
<1>. QED
  BY <1>6, <1>7, <1>8, <1>9

\* Summing the totals of its branches completes the total of a conversation.
LEMMA TotalStep ==
  ASSUME Grown, NEW kind \in Kinds, NEW c \in DOMAIN conversation, NEW f,
         \A d \in Branches(c) : f[d] = Cardinality(UnitsBelow(kind)[d])
  PROVE  Count(kind, c) + SumOver(f, Branches(c)) = Cardinality(UnitsBelow(kind)[c])
<1>. DEFINE W == UnitsBelow(kind)
            B == Branches(c)
            rest == Counted(W, B)
<1>1. /\ W[c] \subseteq Everything /\ W[c] = Units(kind, c) \cup rest /\ Units(kind, c) \cap rest = {}
      /\ \A d, e \in B : d # e => W[d] \cap W[e] = {}
      /\ \A d \in B : W[d] \subseteq Everything
  BY UnitsBelowFacts, ParentFacts
<1>2. IsFiniteSet(Everything) /\ Count(kind, c) = Cardinality(Units(kind, c))
  BY CountFacts
<1>3. IsFiniteSet(B)
  <2>1. B \subseteq DOMAIN conversation /\ IsFiniteSet(DOMAIN conversation)
    BY RowFacts, FS_Interval DEF Branches, Grown
  <2>. QED
    BY <2>1, FS_Subset
<1>4. Counts([d \in B |-> f[d]], W, B, Everything)
  <2>. HIDE DEF W, B
  <2>. QED
    BY <1>1, <1>2, <1>3 DEF Counts, W, B
<1>5. SumOver(f, B) = Cardinality(rest)
  <2>. HIDE DEF W, B
  <2>. QED
    BY <1>4, SumOfFunction
<1>. HIDE DEF W, B, rest
<1>6. IsFiniteSet(Units(kind, c)) /\ IsFiniteSet(rest)
  BY <1>1, <1>2, FS_Subset
<1>7. /\ Cardinality(Units(kind, c)) \in Nat /\ Cardinality(rest) \in Nat
      /\ Cardinality(Units(kind, c) \cup rest) =
           Cardinality(Units(kind, c)) + Cardinality(rest) - Cardinality(Units(kind, c) \cap rest)
  BY <1>6, FS_CardinalityType, FS_Union
<1>8. Cardinality(Units(kind, c) \cap rest) = 0
  BY <1>1, FS_EmptySet
<1>9. Count(kind, c) + Cardinality(rest) = Cardinality(W[c])
  BY <1>1, <1>2, <1>7, <1>8
<1>. QED
  BY <1>5, <1>9 DEF W, B

\* The totals of the branch manager count what is below a conversation.
LEMMA TreeTotalFacts ==
  ASSUME Grown, NEW kind \in Kinds
  PROVE  \A c \in DOMAIN conversation : TreeTotal(kind)[c] = Cardinality(UnitsBelow(kind)[c])
<1>. DEFINE Summed(g, c) == Count(kind, c) + SumOver(g, Branches(c))
            Is(g) == g = [c \in DOMAIN conversation |-> Summed(g, c)]
            T == [c \in DOMAIN conversation |-> Cardinality(UnitsBelow(kind)[c])]
<1>1. ASSUME NEW g, NEW c \in DOMAIN conversation,
             \A d \in Branches(c) : g[d] = Cardinality(UnitsBelow(kind)[d])
      PROVE  Summed(g, c) = Cardinality(UnitsBelow(kind)[c])
  BY <1>1, TotalStep
<1>2. Is(T)
  <2>1. ASSUME NEW c \in DOMAIN conversation
        PROVE  Summed(T, c) = Cardinality(UnitsBelow(kind)[c])
    <3>1. \A d \in Branches(c) : T[d] = Cardinality(UnitsBelow(kind)[d])
      BY ParentFacts
    <3>. HIDE DEF Summed, T
    <3>. QED
      BY <1>1, <3>1
  <2>. HIDE DEF Summed
  <2>. QED
    BY <2>1, Zenon
<1>3. TreeTotal(kind) = CHOOSE g : Is(g)
  BY Zenon DEF TreeTotal, SumOver
<1>4. Is(TreeTotal(kind))
  <2>. HIDE DEF Is, T
  <2>. QED
    BY <1>2, <1>3, Zenon
<1>5. PICK g : g = TreeTotal(kind)
  OBVIOUS
<1>6. \A c \in DOMAIN conversation : g[c] = Summed(g, c)
  <2>. HIDE DEF Summed
  <2>1. g = [c \in DOMAIN conversation |-> Summed(g, c)]
    BY <1>4, <1>5, Zenon
  <2>. HIDE DEF Is, T
  <2>. QED
    BY <2>1
<1>. DEFINE Wrong == {c \in DOMAIN conversation : g[c] # Cardinality(UnitsBelow(kind)[c])}
<1>. HIDE DEF Is, T, Summed
<1>7. SUFFICES ASSUME Wrong # {} PROVE FALSE
  BY <1>5, <1>7
<1>8. PICK c \in Wrong : \A d \in Wrong : d <= c
  <2>1. Wrong \in SUBSET Nat /\ Len(conversation) \in Nat /\ \A d \in Wrong : d <= Len(conversation)
    BY ParentFacts
  <2>. HIDE DEF Wrong
  <2>. QED
    BY <1>7, <2>1, GreatestNumber
<1>9. c \in DOMAIN conversation /\ g[c] # Cardinality(UnitsBelow(kind)[c])
  BY <1>8
<1>10. \A d \in Branches(c) : g[d] = Cardinality(UnitsBelow(kind)[d])
  <2>1. \A d \in Branches(c) : d \in DOMAIN conversation /\ ~(d <= c)
    BY <1>9, ParentFacts
  <2>. QED
    BY <1>8, <2>1
<1>. HIDE DEF Wrong
<1>. QED
  BY <1>1, <1>6, <1>9, <1>10

\* So does the total of the overview, for a root.
LEMMA OverviewTotalFacts ==
  ASSUME Grown, NEW kind \in Kinds, NEW c \in DOMAIN conversation, conversation[c].parent = None
  PROVE  OverviewTotal(kind, c) = Cardinality(UnitsBelow(kind)[c])
<1>. DEFINE B == Family(c)
            W == UnitsOf(kind)
            v == [d \in B |-> Count(kind, d)]
            Is(g) == g = [s \in SUBSET B |-> IF s = {} THEN 0
                             ELSE Count(kind, CHOOSE x \in s : TRUE) + g[s \ {CHOOSE x \in s : TRUE}]]
<1>1. B = Below(c) /\ B \subseteq DOMAIN conversation
  BY FamilyFacts, BelowFacts
<1>2. OverviewTotal(kind, c) = (CHOOSE g : Is(g))[B]
  BY Zenon DEF OverviewTotal, MapThenSumSet, MapThenFoldSet
<1>3. Counts(v, W, B, Everything)
  <2>1. IsFiniteSet(DOMAIN conversation) /\ IsFiniteSet(Everything)
    <3>1. Len(conversation) \in Nat /\ DOMAIN conversation = 1 .. Len(conversation)
      BY ParentFacts
    <3>2. IsFiniteSet(DOMAIN conversation)
      BY <3>1, FS_Interval
    <3>. QED
      BY <3>2, CountFacts
  <2>2. IsFiniteSet(B)
    BY <1>1, <2>1, FS_Subset
  <2>3. \A d \in B : W[d] = Units(kind, d) /\ v[d] = Cardinality(W[d]) /\ W[d] \subseteq Everything
    BY <1>1, CountFacts DEF UnitsOf
  <2>4. \A d, e \in B : d # e => Units(kind, d) \cap Units(kind, e) = {}
    BY DEF Units
  <2>. HIDE DEF B, W, v
  <2>. QED
    BY <2>1, <2>2, <2>3, <2>4 DEF Counts
<1>4. ASSUME NEW g PROVE Is(g) <=> Adds(g, v, B)
  <2>1. \A s \in SUBSET B : s # {} => v[Some(s)] = Count(kind, Some(s))
    BY SomeFacts
  <2>. HIDE DEF v, B
  <2>. QED
    BY <2>1 DEF Adds, Some
<1>5. \E g : Is(g)
  <2>. HIDE DEF v, Is, W, B
  <2>. QED
    BY <1>3, <1>4, SumExists, Zenon
<1>6. Is(CHOOSE g : Is(g))
  <2>. HIDE DEF Is
  <2>. QED
    BY <1>5, Zenon
<1>7. OverviewTotal(kind, c) = Cardinality(Counted(W, B))
  <2>. HIDE DEF v, Is, W, B
  <2>. QED
    BY <1>2, <1>3, <1>4, <1>6, SumCounts, Zenon
<1>. QED
  BY <1>1, <1>7 DEF UnitsBelow

\* In every state the invariant allows, walking up and collecting down are
\* inverse, and the two ways to sum a family agree.
LEMMA TotalsFollow ==
  ASSUME Grown
  PROVE  TotalsAgree
<1>1. ASSUME NEW c \in DOMAIN conversation
      PROVE  /\ c \in Family(c)
             /\ conversation[c].parent = None =>
                  /\ \A d \in Family(c) : RootOf(d) = c
                  /\ \A kind \in Kinds : TreeTotal(kind)[c] = OverviewTotal(kind, c)
  BY FamilyFacts, TreeTotalFacts, OverviewTotalFacts
<1>. QED
  BY <1>1 DEF TotalsAgree

\* TotalsAgree holds: for every conversation the walks of the branch manager and
\* of the overview end at the same family, and both give a root the same totals.
THEOREM TotalsHold == Spec => []TotalsAgree
<1>1. ConversationsInv => Grown
  <2>1. ConversationsInv => TablesOK
    BY TablesTyped DEF ConversationsInv
  <2>2. ASSUME ConversationsInv, NEW c \in DOMAIN conversation PROVE conversation[c].parent < c
    BY <2>2 DEF ConversationsInv, ConversationsSound
  <2>. QED
    BY <2>1, <2>2 DEF Grown
<1>2. ConversationsInv => TotalsAgree
  BY <1>1, TotalsFollow
<1>. QED
  BY <1>2, ConversationsHold, PTL

=============================================================================
